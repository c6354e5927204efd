-------------------------- MODULE RunMonitorProofs --------------------------
(***************************************************************************)
(* The spool stays sound for any number of notifiers, whatever the monitor *)
(* that calls them and the delivery agent do; one event tells of a job and *)
(* RunFinished follows the notifiers, for any number of jobs and re-runs.  *)
(* What the notifiers write can be read back, whatever the templates       *)
(* render (the last part, about MessageText).                              *)
(***************************************************************************)
EXTENDS RunMonitor, MessageText, SequenceTheorems, FiniteSetTheorems, TLAPS

\* No byte of n is in the spool.
Clean(n) == \A i \in 1 .. Len(spool) : spool[i].by # n

\* n's record is complete within the first k fragments.
Written(n, k) == \E i \in 1 .. k : spool[i] = [by |-> n, part |-> "tail"]

\* Between flock and release.
Inside == {"signal", "head", "tail", "sync", "unlock"}

\* What a helper has done when it is where it is.
HelperInv ==
    \A n \in Mailers :
       /\ helper[n] \in Inside <=> holder = n
       /\ helper[n] \in {"head", "tail", "sync", "unlock", "ok"} => phase[n] = "signalled"
       /\ helper[n] \in {"idle", "open", "lock", "signal", "head"} \/ phase[n] # "signalled" => Clean(n)
       /\ helper[n] = "sync" => Written(n, Len(spool))
       /\ helper[n] \in {"unlock", "ok"} => Written(n, synced)

\* What the errors and the results it led to say of the spool.
ResultInv ==
    \A n \in Mailers :
       /\ caller[n] = "idle" => helper[n] = "idle"
       /\ helper[n] = "err" => fault[n] \in {"Transient", "Permanent"}
       /\ fault[n] = "Permanent" => helper[n] = "err"
       /\ result[n] = "Sent" => helper[n] = "ok"
       /\ result[n] = "Permanent" =>
             helper[n] \in {"idle", "err"} /\ caller[n] = "done"

\* A record without its tail at the end of the spool is being written, or was given up.
LastHeadInv ==
    Len(spool) > 0 /\ spool[Len(spool)].part = "head" =>
       /\ spool[Len(spool)].by \in Mailers
       /\ helper[spool[Len(spool)].by] \in {"tail", "err"}

MailInv == MailTypeOK /\ HelperInv /\ ResultInv /\ LastHeadInv /\ RecordsNotInterleaved

LEMMA MailInvInit == MailInit => MailInv
<1> SUFFICES ASSUME MailInit PROVE MailInv
  OBVIOUS
<1>1. MailTypeOK
  <2>1. cancel \in BOOLEAN
    BY DEF MailInit
  <2>2. spool \in Seq(Fragment) /\ synced \in 0..Len(spool)
    BY DEF MailInit
  <2> QED
    BY <2>1, <2>2 DEF MailInit, MailTypeOK, CallerPoints, HelperPoints
<1>2. HelperInv /\ LastHeadInv /\ RecordsNotInterleaved
  BY MailAssumption DEF MailInit, HelperInv, Inside, Clean, LastHeadInv, RecordsNotInterleaved
<1>3. ResultInv
  BY MailAssumption DEF MailInit, ResultInv
<1> QED
  BY <1>1, <1>2, <1>3 DEF MailInv

-----------------------------------------------------------------------------
(* The caller writes nothing; it reports what it saw of its helper. *)

LEMMA StartMailPreserves ==
  ASSUME MailInv, NEW n \in Mailers, StartMail(n)
  PROVE  MailInv'
<1> USE MailAssumption DEF MailInv, MailTypeOK, CallerPoints, HelperPoints, Results
<1>1. CASE \E r \in Results \ {"Sent"} : Return(n, r) /\ caller[n] = "idle"
           /\ UNCHANGED <<cancel, helper, fault, phase, holder, spool, synced>>
  <2>1. helper[n] = "idle" /\ Clean(n)
    BY <1>1 DEF ResultInv, HelperInv
  <2>2. HelperInv'
    BY <1>1 DEF HelperInv, Inside, Clean, Written
  <2>3. ResultInv'
    BY <1>1, <2>1 DEF Return, ResultInv, Clean
  <2>4. LastHeadInv' /\ RecordsNotInterleaved'
    BY <1>1 DEF LastHeadInv, RecordsNotInterleaved
  <2> QED
    BY <1>1, <2>2, <2>3, <2>4 DEF Return
<1>2. CASE /\ caller[n] = "idle" /\ caller' = [caller EXCEPT ![n] = "await"]
           /\ helper' = [helper EXCEPT ![n] = "open"]
           /\ UNCHANGED <<cancel, result, fault, phase, holder, spool, synced>>
  <2>1. helper[n] = "idle"
    BY <1>2 DEF ResultInv
  <2>2. HelperInv'
    BY <1>2, <2>1 DEF HelperInv, Inside, Clean, Written
  <2>3. ResultInv'
    BY <1>2, <2>1 DEF ResultInv, Clean
  <2>4. LastHeadInv' /\ RecordsNotInterleaved'
    BY <1>2, <2>1 DEF LastHeadInv, RecordsNotInterleaved
  <2> QED
    BY <1>2, <2>2, <2>3, <2>4
<1> QED
  BY <1>1, <1>2 DEF StartMail

LEMMA CallerPreserves ==
  ASSUME MailInv, NEW n \in Mailers, CallerStep(n)
  PROVE  MailInv'
<1> USE MailAssumption DEF MailInv, MailTypeOK, CallerStep, PollPhase, GiveUp, JoinHelper, Return,
    CallerPoints, HelperPoints, Results
<1>1. MailTypeOK'
  BY DEF ResultInv
<1>2. HelperInv'
  BY DEF HelperInv, Inside, Clean, Written
<1>3. ResultInv'
  BY DEF ResultInv, Clean
<1>4. LastHeadInv' /\ RecordsNotInterleaved'
  BY DEF LastHeadInv, RecordsNotInterleaved
<1> QED
  BY <1>1, <1>2, <1>3, <1>4

-----------------------------------------------------------------------------
(* The helper. *)

\* A helper that fails, wherever it is: its record is left as it is and the lock is free.
LEMMA FailsPreserves ==
  ASSUME MailInv, NEW n \in Mailers, NEW e \in IoErrors, Fails(n, e),
         helper[n] \in {"open", "lock", "head", "tail", "sync"},
         UNCHANGED <<cancel, caller, result, spool, synced>>
  PROVE  MailInv'
<1> USE MailAssumption DEF MailInv, MailTypeOK, Fails, CallerPoints, HelperPoints, IoErrors, PermanentIo,
    MapIoError
<1>1. MailTypeOK'
  OBVIOUS
<1>2. HelperInv'
  BY DEF HelperInv, Inside, Clean, Written
<1>3. ResultInv'
  BY DEF ResultInv, HelperInv, Clean
<1>4. LastHeadInv' /\ RecordsNotInterleaved'
  BY DEF LastHeadInv, RecordsNotInterleaved, HelperInv, Clean
<1> QED
  BY <1>1, <1>2, <1>3, <1>4

\* Steps that write nothing: the file, the lock, the signal, the sync, the release.
LEMMA QuietHelperPreserves ==
  ASSUME MailInv, NEW n \in Mailers,
         \/ OpenSpool(n) \/ TakeLock(n) \/ SignalPhase(n) \/ SyncSpool(n) \/ Unlock(n)
  PROVE  MailInv'
<1> USE MailAssumption DEF MailInv, MailTypeOK, Advance, CallerPoints, HelperPoints
<1>1. CASE Advance(n, "open", "lock") /\ UNCHANGED <<cancel, caller, result, fault, phase, holder, spool, synced>>
  BY <1>1 DEF HelperInv, Inside, Clean, Written, ResultInv, LastHeadInv, RecordsNotInterleaved
<1>2. CASE /\ Advance(n, "lock", "signal") /\ holder = Nothing /\ holder' = n
           /\ UNCHANGED <<cancel, caller, result, fault, phase, spool, synced>>
  BY <1>2 DEF HelperInv, Inside, Clean, Written, ResultInv, LastHeadInv, RecordsNotInterleaved
<1>3. CASE SignalPhase(n)
  BY SMTT(30), <1>3 DEF SignalPhase, HelperInv, Inside, Clean, Written, ResultInv, LastHeadInv, RecordsNotInterleaved
<1>4. CASE Advance(n, "sync", "unlock") /\ synced' = Len(spool)
           /\ UNCHANGED <<cancel, caller, result, fault, phase, holder, spool>>
  BY <1>4 DEF HelperInv, Inside, Clean, Written, ResultInv, LastHeadInv, RecordsNotInterleaved
<1>5. CASE Unlock(n)
  <2> USE <1>5 DEF Unlock
  <2>1. HelperInv'
    <3>1. holder = n /\ Written(n, synced)
      BY DEF HelperInv, Inside
    <3>2. \A m \in Mailers \ {n} : helper'[m] = helper[m] /\ helper[m] \notin Inside
      BY <3>1 DEF HelperInv
    <3>3. helper'[n] = "ok"
      OBVIOUS
    <3> QED
      BY <3>1, <3>2, <3>3 DEF HelperInv, Inside, Clean, Written
  <2>2. ResultInv'
    BY DEF ResultInv, Clean
  <2>3. LastHeadInv' /\ RecordsNotInterleaved'
    BY DEF LastHeadInv, RecordsNotInterleaved
  <2> QED
    BY <2>1, <2>2, <2>3
<1>6. CASE OpenSpool(n) \/ TakeLock(n) \/ SyncSpool(n)
  BY <1>1, <1>2, <1>4, <1>6, FailsPreserves DEF OpenSpool, TakeLock, SyncSpool
<1> QED
  BY <1>3, <1>5, <1>6

\* What appending one fragment does.
LEMMA AppendFacts ==
  ASSUME NEW seq \in Seq(Fragment), NEW x \in Fragment
  PROVE  /\ Append(seq, x) \in Seq(Fragment) /\ Len(seq) \in Nat
         /\ Len(Append(seq, x)) = Len(seq) + 1
         /\ \A i \in 1 .. Len(seq) : Append(seq, x)[i] = seq[i]
         /\ Append(seq, x)[Len(seq) + 1] = x
  OBVIOUS

\* A fragment follows a record that is complete, is its own, or was given up.
LEMMA WritePreserves ==
  ASSUME MailInv, NEW n \in Mailers, NEW part \in {"head", "tail"},
         Advance(n, part, IF part = "head" THEN "tail" ELSE "sync"),
         spool' = Append(spool, [by |-> n, part |-> part]),
         UNCHANGED <<cancel, caller, result, fault, phase, holder, synced>>
  PROVE  MailInv'
<1> DEFINE x == [by |-> n, part |-> part]
<1> USE MailAssumption DEF MailInv, MailTypeOK, Advance, CallerPoints, HelperPoints
<1>1. x \in Fragment
  BY DEF Fragment
<1>2. /\ spool' \in Seq(Fragment) /\ Len(spool) \in Nat /\ Len(spool') = Len(spool) + 1
      /\ \A i \in 1 .. Len(spool) : spool'[i] = spool[i]
      /\ spool'[Len(spool) + 1] = x
  BY <1>1, AppendFacts
<1>3. holder = n
  BY DEF HelperInv, Inside
<1>4. MailTypeOK'
  BY <1>2
<1>5. HelperInv'
  <2> SUFFICES ASSUME NEW m \in Mailers
               PROVE  /\ helper'[m] \in Inside <=> holder' = m
                      /\ helper'[m] \in {"head", "tail", "sync", "unlock", "ok"} => phase'[m] = "signalled"
                      /\ helper'[m] \in {"idle", "open", "lock", "signal", "head"} \/ phase'[m] # "signalled"
                            => Clean(m)'
                      /\ helper'[m] = "sync" => Written(m, Len(spool))'
                      /\ helper'[m] \in {"unlock", "ok"} => Written(m, synced)'
    BY DEF HelperInv
  <2>1. CASE m = n
    <3>1. helper'[m] = IF part = "head" THEN "tail" ELSE "sync"
      BY <2>1
    <3>2. part = "tail" => Written(m, Len(spool))'
      BY <1>2, <2>1 DEF Written
    <3> QED
      BY <1>3, <2>1, <3>1, <3>2 DEF Inside, HelperInv
  <2>2. CASE m # n
    <3>1. helper'[m] = helper[m] /\ helper[m] \notin Inside
      BY <1>3, <2>2 DEF HelperInv
    <3>2. Clean(m) => Clean(m)'
      BY <1>2, <2>2 DEF Clean
    <3>3. Written(m, synced) => Written(m, synced)'
      BY <1>2 DEF Written
    <3> QED
      BY <3>1, <3>2, <3>3 DEF HelperInv, Inside
  <2> QED
    BY <2>1, <2>2
<1>6. ResultInv'
  <2> SUFFICES ASSUME NEW m \in Mailers
               PROVE  /\ caller'[m] = "idle" => helper'[m] = "idle"
                      /\ helper'[m] = "err" => fault'[m] \in {"Transient", "Permanent"}
                      /\ fault'[m] = "Permanent" => helper'[m] = "err"
                      /\ result'[m] = "Sent" => helper'[m] = "ok"
                      /\ result'[m] = "Permanent" =>
                           helper'[m] \in {"idle", "err"} /\ caller'[m] = "done"
    BY DEF ResultInv
  <2>1. CASE m = n
    BY <2>1 DEF ResultInv
  <2>2. CASE m # n
    <3>1. Clean(m) => Clean(m)'
      BY <1>2, <2>2 DEF Clean
    <3> QED
      BY <2>2, <3>1 DEF ResultInv
  <2> QED
    BY <2>1, <2>2
<1>7. LastHeadInv'
  BY <1>2 DEF LastHeadInv
<1>8. RecordsNotInterleaved'
  <2> SUFFICES ASSUME NEW i \in 1 .. Len(spool') - 1, spool'[i].part = "head",
                      spool'[i + 1].by # spool'[i].by
               PROVE  helper'[spool'[i].by] = "err"
    BY DEF RecordsNotInterleaved
  <2>1. CASE i < Len(spool)
    <3>1. helper[spool[i].by] = "err" /\ spool'[i] = spool[i]
      BY <1>2, <2>1 DEF RecordsNotInterleaved
    <3> QED
      BY <3>1
  <2>2. CASE i = Len(spool)
    <3>1. spool[i].part = "head" /\ spool[i].by # n /\ spool'[i] = spool[i] /\ Len(spool) > 0
      BY <1>2, <2>2
    <3>2. spool[i].by \in Mailers /\ helper[spool[i].by] \in {"tail", "err"}
      BY <2>2, <3>1 DEF LastHeadInv
    <3>3. helper[spool[i].by] # "tail"
      BY <1>3, <3>1, <3>2 DEF HelperInv, Inside
    <3> QED
      BY <3>1, <3>2, <3>3
  <2> QED
    BY <1>2, <2>1, <2>2
<1> QED
  BY <1>4, <1>5, <1>6, <1>7, <1>8

LEMMA HelperPreserves ==
  ASSUME MailInv, NEW n \in Mailers, HelperStep(n)
  PROVE  MailInv'
<1>1. CASE WriteSome(n)
  <2>1. CASE helper[n] \in {"head", "tail"} /\ (\E e \in IoErrors : Fails(n, e)) /\ UNCHANGED spool
    BY <1>1, <2>1, FailsPreserves DEF WriteSome
  <2> QED
    BY <1>1, <2>1, WritePreserves DEF WriteSome
<1> QED
  BY <1>1, QuietHelperPreserves DEF HelperStep

-----------------------------------------------------------------------------
(* The delivery agent delivers a whole record while no helper is inside. *)

\* Two fragments are two appends.
LEMMA PairFacts ==
  ASSUME NEW seq \in Seq(Fragment), NEW x \in Fragment, NEW y \in Fragment
  PROVE  /\ seq \o <<x, y>> \in Seq(Fragment) /\ Len(seq) \in Nat
         /\ Len(seq \o <<x, y>>) = Len(seq) + 2
         /\ \A i \in 1 .. Len(seq) : (seq \o <<x, y>>)[i] = seq[i]
         /\ (seq \o <<x, y>>)[Len(seq) + 1] = x
         /\ (seq \o <<x, y>>)[Len(seq) + 2] = y
  OBVIOUS

LEMMA DeliveryPreserves ==
  ASSUME MailInv, AgentDelivers
  PROVE  MailInv'
<1> DEFINE x == [by |-> Agent, part |-> "head"]
           y == [by |-> Agent, part |-> "tail"]
<1> USE MailAssumption DEF MailInv, MailTypeOK
<1>1. x \in Fragment /\ y \in Fragment
  BY DEF Fragment
<1>2. /\ spool' \in Seq(Fragment) /\ Len(spool) \in Nat /\ Len(spool') = Len(spool) + 2
      /\ \A i \in 1 .. Len(spool) : spool'[i] = spool[i]
      /\ spool'[Len(spool) + 1] = x /\ spool'[Len(spool) + 2] = y
  BY <1>1, PairFacts DEF AgentDelivers
<1>3. UNCHANGED <<cancel, caller, result, helper, fault, phase, holder, synced>>
  BY DEF AgentDelivers
<1>4. \A m \in Mailers : helper[m] \notin Inside
  BY DEF AgentDelivers, HelperInv
<1>5. MailTypeOK'
  BY <1>2, <1>3
<1>6. \A m \in Mailers : Clean(m) => Clean(m)'
  <2> SUFFICES ASSUME NEW m \in Mailers, Clean(m), NEW i \in 1 .. Len(spool')
               PROVE  spool'[i].by # m
    BY DEF Clean
  <2>1. CASE i \in 1 .. Len(spool)
    BY <1>2, <2>1 DEF Clean
  <2>2. CASE i \in {Len(spool) + 1, Len(spool) + 2}
    BY <1>2, <2>2
  <2> QED
    BY <1>2, <2>1, <2>2
<1>7. \A m \in Mailers : Written(m, synced) => Written(m, synced)'
  <2> SUFFICES ASSUME NEW m \in Mailers, NEW i \in 1 .. synced,
                      spool[i] = [by |-> m, part |-> "tail"]
               PROVE  Written(m, synced)'
    BY DEF Written
  <2>1. i \in 1 .. Len(spool)
    OBVIOUS
  <2>2. spool'[i] = spool[i] /\ synced' = synced
    BY <1>2, <1>3, <2>1
  <2> QED
    BY <2>2 DEF Written
<1>8. HelperInv'
  BY <1>3, <1>4, <1>6, <1>7 DEF HelperInv, Inside
<1>9. ResultInv'
  BY <1>3, <1>6 DEF ResultInv
<1>10. LastHeadInv'
  BY <1>2 DEF LastHeadInv
<1>11. RecordsNotInterleaved'
  <2> SUFFICES ASSUME NEW i \in 1 .. Len(spool') - 1, spool'[i].part = "head",
                      spool'[i + 1].by # spool'[i].by
               PROVE  helper[spool'[i].by] = "err"
    BY <1>3 DEF RecordsNotInterleaved
  <2>1. CASE i < Len(spool)
    <3>1. i \in 1 .. Len(spool) - 1 /\ spool'[i] = spool[i] /\ spool'[i + 1] = spool[i + 1]
      BY <1>2, <2>1
    <3> QED
      BY <3>1 DEF RecordsNotInterleaved
  <2>2. CASE i = Len(spool)
    <3>1. spool[i].part = "head" /\ spool'[i] = spool[i] /\ Len(spool) > 0
      BY <1>2, <2>2
    <3> QED
      BY <1>4, <2>2, <3>1 DEF LastHeadInv, Inside
  <2>3. CASE i = Len(spool) + 1
    BY <1>2, <2>3
  <2> QED
    BY <1>2, <2>1, <2>2, <2>3
<1> QED
  BY <1>5, <1>8, <1>9, <1>10, <1>11

LEMMA AgentPreserves ==
  ASSUME MailInv, AgentStep
  PROVE  MailInv'
<1>1. CASE AgentTakes \/ AgentReleases
  <2> USE <1>1, MailAssumption DEF MailInv, MailTypeOK, AgentTakes, AgentReleases
  <2>1. HelperInv'
    BY DEF HelperInv, Inside, Clean, Written
  <2>2. ResultInv' /\ LastHeadInv' /\ RecordsNotInterleaved'
    BY SMTT(30) DEF ResultInv, Clean, LastHeadInv, RecordsNotInterleaved
  <2> QED
    BY <2>1, <2>2
<1> QED
  BY <1>1, DeliveryPreserves DEF AgentStep

\* Everything else leaves the spool and its users alone, but for the cancellation.
LEMMA OthersPreserve ==
  ASSUME MailInv, UNCHANGED mailVars, cancel' \in BOOLEAN
  PROVE  MailInv'
  BY DEF MailInv, MailTypeOK, mailVars, HelperInv, ResultInv, LastHeadInv, RecordsNotInterleaved,
     Clean, Written

\* Every step of the monitor keeps the spool's invariant.
LEMMA NextMail == MailInv /\ [Next]_vars => MailInv'
<1> SUFFICES ASSUME MailInv, [Next]_vars PROVE MailInv'
  OBVIOUS
<1>1. cancel \in BOOLEAN
  BY DEF MailInv, MailTypeOK
<1>2. ASSUME NEW n \in Mailers, MailStep(n) PROVE MailInv'
  BY <1>2, StartMailPreserves, CallerPreserves, HelperPreserves DEF MailStep
<1>3. CASE AgentStep
  BY <1>3, AgentPreserves
<1>4. CASE UNCHANGED <<cancel, mailVars>>
  BY <1>1, <1>4, OthersPreserve
<1>5. CASE CancelMail
  <2>1. cancel' \in BOOLEAN /\ UNCHANGED mailVars
    BY <1>5 DEF CancelMail
  <2> QED
    BY <2>1, OthersPreserve
<1>6. CASE JobEnds \/ JobAppears \/ RunCompletes \/ RunIsRerun
  BY <1>4, <1>6 DEF JobEnds, JobAppears, RunCompletes, RunIsRerun, External
<1>7. CASE DriveNext
  BY <1>4, <1>7 DEF DriveNext, RateGate, PollError, ReadRun, ReadJobsPage, SendEvent,
     IntervalOrCancel, DriveStep
<1>8. CASE WatchNext \/ Abort
  BY <1>4, <1>8 DEF WatchNext, Recv, RecvClosed, FanOutJobCompletes, FanOutRunComplete,
     JoinFanOut, SendRunFinished, JoinDrive, Abort, WatchFrame
<1>9. ASSUME NEW n \in Webhooks, StartWebhook(n) \/ DeliverOrCancel(n) PROVE MailInv'
  BY <1>4, <1>9 DEF StartWebhook, DeliverOrCancel, WebhookFrame
<1> QED
  BY <1>2, <1>3, <1>4, <1>5, <1>6, <1>7, <1>8, <1>9 DEF Next, vars

\* Whole records, and results that are true of the spool, for any number of notifiers
\* whose callers give up at the deadline or on cancellation while their helpers go on
\* (on_run_complete_inner, write_with_lock).
THEOREM SpoolSoundCorrect == Spec => []SpoolIsSound
<1>1. Init => MailInv
  BY MailInvInit DEF Init
<1>2. MailInv => SpoolIsSound
  <2> SUFFICES ASSUME MailInv PROVE SpoolIsSound
    OBVIOUS
  <2>1. SentIsDurable
    <3> SUFFICES ASSUME NEW n \in Mailers, result[n] = "Sent"
                 PROVE  \E i \in 1..synced : spool[i] = [by |-> n, part |-> "tail"]
      BY DEF SentIsDurable
    <3>1. helper[n] = "ok"
      BY DEF MailInv, ResultInv
    <3> QED
      BY <3>1 DEF MailInv, HelperInv, Written
  <2>2. PermanentIsFinal
    BY DEF MailInv, PermanentIsFinal, HelperInv, ResultInv, Inside, Clean, MailTypeOK
  <2> QED
    BY <2>1, <2>2 DEF MailInv, SpoolIsSound
<1> QED
  BY <1>1, <1>2, NextMail, PTL DEF Spec

-----------------------------------------------------------------------------
(* What the monitor reads and passes on. *)

\* An event whose pages were read from one listing has no job twice.
GoodEvent ==
    {e \in Event : e.steady => \A i, k \in DOMAIN e.jobs : i # k => e.jobs[i].id # e.jobs[k].id}

\* GitHub's run, what monitor_run holds of it, and what its receiver holds.
GhType ==
    /\ gh \in [status : {"queued", "completed"}, conclusion : {None, "success"},
               attempt : 1..(MaxReruns + 1), jobs : Seq(Job)]
    /\ Len(gh.jobs) <= PerAttempt
DriveRecord ==
    [pc : DrivePoints,
     run : [status : {"queued", "completed", "unknown"}, conclusion : {None, "success"}],
     list : [pages : 0..(JobsPages - 1), next : Nat \ {0}, jobs : BoundedSeq(Job, JobsCap),
             from : {None} \cup [attempt : Nat, length : Nat]],
     event : GoodEvent,
     outcome : {None, "Terminated", "ReceiverDropped", "DrainedMidRun", "Failed"}]
DriveType == drive \in DriveRecord
WatchType == watch \in [pc : WatchPoints, event : GoodEvent]
ChanType == chan \in Seq(GoodEvent) /\ Len(chan) <= EventQueue
NotifierType ==
    /\ webhook \in [Webhooks -> {"idle", "select", "request", "done"}]
    /\ verdict \in [Webhooks -> Results \cup {None}]
JobType == completed \subseteq JobIds /\ told \in [JobIds -> Seq(Telling)]
FinishedType == finished \in Seq({"success", "unknown"})

MonitorType ==
    GhType /\ DriveType /\ WatchType /\ ChanType /\ NotifierType /\ JobType /\ FinishedType

\* GitHub numbers the jobs of an attempt as it lists them.
IdInv ==
    /\ \A i \in 1..Len(gh.jobs) : gh.jobs[i].id <= JobId(gh.attempt, Len(gh.jobs))
    /\ \A i, k \in 1..Len(gh.jobs) : i # k => gh.jobs[i].id # gh.jobs[k].id

\* What a listing has gathered is a prefix of GitHub's, as long as that has not moved;
\* and once it has moved it does not come back.
ListInv ==
    /\ drive.list.pages = 0 => drive.list = NoList
    /\ drive.list.pages # 0 =>
          LET l == drive.list
          IN  /\ l.from \in [attempt : Nat, length : Nat]
              /\ l.from.attempt <= gh.attempt
              /\ l.from.attempt = gh.attempt => l.from.length <= Len(gh.jobs)
              /\ l.from = Listing =>
                    /\ Len(l.jobs) = l.next - 1 /\ Len(l.jobs) <= Len(gh.jobs)
                    /\ \A i \in 1..Len(l.jobs) : l.jobs[i].id = gh.jobs[i].id

\* A job that was told of is remembered in completed_jobs.
JobInv ==
    \A j \in JobIds :
       /\ Len(told[j]) <= 1 /\ (told[j] # <<>> => j \in completed)
       /\ \A i \in DOMAIN told[j] : told[j][i].steady => told[j][i].calls = 1

\* RunFinished is sent once, by a monitor whose fan-out has been joined.
FinishInv ==
    /\ watch.pc = "finish" => AllReturned
    /\ finished # <<>> => AllReturned /\ Len(finished) = 1
                          /\ watch.pc \in {"join", "ended", "aborted"}

MonitorInv == MonitorType /\ IdInv /\ ListInv /\ JobInv /\ FinishInv

\* The ids of an attempt are ids, and grow with the number of jobs.
LEMMA JobIdType ==
  ASSUME NEW a \in 1..(MaxReruns + 1), NEW i \in 1..PerAttempt
  PROVE  JobId(a, i) \in JobIds
<1> USE MonitorAssumption
<1>0. PerAttempt \in Nat
  BY DEF PerAttempt
<1> HIDE DEF PerAttempt
<1>1. \A x, y, z \in Nat : x <= y => x * z <= y * z
  OBVIOUS
<1>2. (a - 1) * PerAttempt <= MaxReruns * PerAttempt
  BY <1>0, <1>1
<1>3. PerAttempt * (MaxReruns + 1) = MaxReruns * PerAttempt + PerAttempt
  BY <1>0
<1>4. (a - 1) * PerAttempt \in Nat /\ MaxReruns * PerAttempt \in Nat
  BY <1>0
<1> DEFINE x == (a - 1) * PerAttempt
           y == MaxReruns * PerAttempt
<1> HIDE DEF x, y
<1>5. x + i \in 1 .. (y + PerAttempt)
  BY <1>0, <1>2, <1>4 DEF x, y
<1> QED
  BY <1>3, <1>5 DEF JobIds, JobId, x, y

LEMMA JobIdGrows ==
  ASSUME NEW a \in 1..(MaxReruns + 1), NEW i \in Nat, NEW k \in Nat
  PROVE  /\ JobId(a, i) \in Int /\ JobId(a, k) \in Int
         /\ i < k <=> JobId(a, i) < JobId(a, k)
<1>1. PerAttempt \in Nat
  BY MonitorAssumption DEF PerAttempt
<1> HIDE DEF PerAttempt
<1>2. (a - 1) * PerAttempt \in Int
  BY <1>1, MonitorAssumption
<1> DEFINE x == (a - 1) * PerAttempt
<1> HIDE DEF x
<1>3. x \in Int /\ (x + i < x + k <=> i < k)
  BY <1>2 DEF x
<1> QED
  BY <1>3 DEF JobId, x

\* The jobs an attempt starts with.
LEMMA JobsOfType ==
  ASSUME NEW a \in 1..(MaxReruns + 1)
  PROVE  /\ JobsOf(a) \in Seq(Job) /\ Len(JobsOf(a)) = JobCount /\ JobCount <= PerAttempt
         /\ \A i \in 1..JobCount : JobsOf(a)[i].id = JobId(a, i)
<1> USE MonitorAssumption
<1>1. JobCount \in Nat /\ JobCount <= PerAttempt
  BY DEF PerAttempt
<1>2. ASSUME NEW i \in 1..JobCount
      PROVE  [id |-> JobId(a, i), conclusion |-> None] \in Job
  <2>1. i \in 1..PerAttempt
    BY <1>1 DEF PerAttempt
  <2> QED
    BY <2>1, JobIdType DEF Job
<1>3. JobsOf(a) \in [1..JobCount -> Job]
  BY <1>2 DEF JobsOf
<1>4. \A i \in 1..JobCount : JobsOf(a)[i].id = JobId(a, i)
  BY DEF JobsOf
<1> HIDE DEF JobsOf
<1> QED
  BY <1>1, <1>3, <1>4

\* A sequence of jobs no longer than the cap.
LEMMA BoundedJobs ==
  ASSUME NEW s
  PROVE  s \in BoundedSeq(Job, JobsCap) <=> s \in Seq(Job) /\ Len(s) <= JobsCap
<1>1. s \in BoundedSeq(Job, JobsCap) <=> \E m \in 0..JobsCap : s \in [1..m -> Job]
  BY DEF BoundedSeq, SeqOf
<1>2. ASSUME NEW m \in 0..JobsCap, s \in [1..m -> Job] PROVE s \in Seq(Job) /\ Len(s) <= JobsCap
  BY <1>2, MonitorAssumption
<1>3. ASSUME s \in Seq(Job), Len(s) <= JobsCap PROVE \E m \in 0..JobsCap : s \in [1..m -> Job]
  BY <1>3, MonitorAssumption
<1> QED
  BY <1>1, <1>2, <1>3

LEMMA NoEventType == NoEvent \in GoodEvent /\ NoList.jobs \in BoundedSeq(Job, JobsCap)
<1>1. <<>> \in Seq(Job) /\ Len(<<>>) = 0 /\ 0 <= JobsCap
  BY MonitorAssumption
<1>2. <<>> \in BoundedSeq(Job, JobsCap)
  BY <1>1, BoundedJobs
<1> QED
  BY <1>2 DEF NoEvent, NoList, Event, GoodEvent

\* One page more: what is gathered is a sequence of jobs within the cap, and a prefix of
\* the listing if what was gathered before it is.
Gathered(jobs, k) == SubSeq(jobs \o JobsPage(k), 1, Smaller(JobsCap, Len(jobs \o JobsPage(k))))
ListPrefix(jobs) == Len(jobs) <= Len(gh.jobs) /\ \A i \in 1..Len(jobs) : jobs[i].id = gh.jobs[i].id

LEMMA PageGathered ==
  ASSUME GhType, NEW jobs \in Seq(Job), NEW k \in Nat \ {0}
  PROVE  /\ Gathered(jobs, k) \in Seq(Job) /\ Len(Gathered(jobs, k)) <= JobsCap
         /\ (Len(jobs) = k - 1 /\ ListPrefix(jobs)) =>
               /\ ListPrefix(Gathered(jobs, k))
               /\ (Len(Gathered(jobs, k)) # JobsCap /\ ~(k + PerPage > Len(gh.jobs))) =>
                     Len(Gathered(jobs, k)) = k + PerPage - 1
<1> DEFINE out == Gathered(jobs, k)
<1> USE MonitorAssumption
<1>1. gh.jobs \in Seq(Job) /\ Len(gh.jobs) \in Nat
  BY DEF GhType
<1> DEFINE n == Smaller(k + PerPage - 1, Len(gh.jobs))
           page == SubSeq(gh.jobs, k, n)
           all == jobs \o page
           m == Smaller(JobsCap, Len(all))
<1>2. n \in Nat /\ n <= Len(gh.jobs) /\ (n < k + PerPage - 1 => n = Len(gh.jobs)) /\ n <= k + PerPage - 1
  BY <1>1 DEF Smaller
<1> HIDE DEF n
<1>3. /\ page \in Seq(Job) /\ Len(page) = IF k <= n THEN n - k + 1 ELSE 0
      /\ \A i \in 1..(n - k + 1) : page[i] = gh.jobs[k + i - 1]
  <2>1. \A i \in k..n : gh.jobs[i] \in Job
    BY <1>1, <1>2
  <2> QED
    BY <1>2, <2>1, SubSeqProperties
<1> HIDE DEF page
<1>4. /\ all \in Seq(Job) /\ Len(all) = Len(jobs) + Len(page)
      /\ \A i \in 1..Len(jobs) + Len(page) : all[i] =
            IF i <= Len(jobs) THEN jobs[i] ELSE page[i - Len(jobs)]
  BY <1>3, ConcatProperties
<1> HIDE DEF all
<1>5. m \in Nat /\ m <= JobsCap /\ m <= Len(all) /\ (m # JobsCap => m = Len(all))
  BY <1>4 DEF Smaller
<1> HIDE DEF m
<1>6. out = SubSeq(all, 1, m)
  BY DEF Gathered, JobsPage, n, page, all, m
<1> HIDE DEF out
<1>7. /\ out \in Seq(Job) /\ Len(out) = m
      /\ \A i \in 1..m : out[i] = all[i]
  <2>1. \A i \in 1..m : all[i] \in Job
    BY <1>4, <1>5
  <2>2. /\ SubSeq(all, 1, m) \in Seq(Job)
        /\ Len(SubSeq(all, 1, m)) = IF 1 <= m THEN m - 1 + 1 ELSE 0
        /\ \A i \in 1..(m - 1 + 1) : SubSeq(all, 1, m)[i] = all[1 + i - 1]
    BY <1>5, <2>1, SubSeqProperties
  <2>3. out \in Seq(Job) /\ Len(out) = m
    <3>1. m = IF 1 <= m THEN m - 1 + 1 ELSE 0
      BY <1>5
    <3> QED
      BY Zenon, <1>6, <2>2, <3>1
  <2>4. ASSUME NEW i \in 1..m PROVE out[i] = all[i]
    <3>1. m - 1 + 1 = m /\ 1 + i - 1 = i
      BY <1>5
    <3> QED
      BY <1>6, <2>2, <3>1
  <2> QED
    BY <2>3, <2>4
<1>8. ASSUME Len(jobs) = k - 1, Len(jobs) <= Len(gh.jobs),
             \A i \in 1..Len(jobs) : jobs[i].id = gh.jobs[i].id
      PROVE  /\ Len(out) <= Len(gh.jobs)
             /\ \A i \in 1..Len(out) : out[i].id = gh.jobs[i].id
             /\ (Len(out) # JobsCap /\ ~(k + PerPage > Len(gh.jobs))) => Len(out) = k + PerPage - 1
  <2>1. Len(all) = n
    BY <1>1, <1>2, <1>3, <1>4, <1>8
  <2>2. \A i \in 1..n : all[i].id = gh.jobs[i].id
    <3> SUFFICES ASSUME NEW i \in 1..n PROVE all[i].id = gh.jobs[i].id
      OBVIOUS
    <3>1. CASE i <= k - 1
      <4>1. i \in 1..Len(jobs) + Len(page) /\ i \in 1..Len(jobs)
        BY <1>2, <1>4, <1>8, <2>1, <3>1
      <4> QED
        BY <1>4, <1>8, <4>1
    <3>2. CASE i > k - 1
      <4>1. all[i] = page[i - (k - 1)]
        BY <1>2, <1>4, <1>8, <2>1, <3>2
      <4>2. i - (k - 1) \in 1..(n - k + 1)
        BY <1>2, <3>2
      <4>3. page[i - (k - 1)] = gh.jobs[k + (i - (k - 1)) - 1]
        BY <1>3, <4>2
      <4>4. k + (i - (k - 1)) - 1 = i
        BY <1>2
      <4> QED
        BY <4>1, <4>3, <4>4
    <3> QED
      BY <1>2, <3>1, <3>2
  <2>3. Len(out) <= n
    BY <1>2, <1>5, <1>7, <2>1
  <2>4. \A i \in 1..Len(out) : out[i].id = gh.jobs[i].id
    <3> SUFFICES ASSUME NEW i \in 1..Len(out) PROVE out[i].id = gh.jobs[i].id
      OBVIOUS
    <3>1. i \in 1..m /\ i \in 1..n
      BY <1>2, <1>5, <1>7, <2>1
    <3> QED
      BY <1>7, <2>2, <3>1
  <2>5. (Len(out) # JobsCap /\ ~(k + PerPage > Len(gh.jobs))) => Len(out) = k + PerPage - 1
    BY <1>1, <1>2, <1>5, <1>7, <2>1
  <2>6. Len(out) <= Len(gh.jobs)
    BY <1>1, <1>2, <1>5, <1>7, <2>3
  <2> QED
    BY <2>4, <2>5, <2>6
<1> QED
  BY <1>5, <1>7, <1>8 DEF ListPrefix, out

\* The jobs told of next are jobs, and in an event with no job twice each has one entry.
LEMMA NewlyTerminalType ==
  ASSUME NEW e \in GoodEvent
  PROVE  /\ \A k \in NewlyTerminal(e) : e.jobs[k].id \in JobIds
         /\ \A j \in JobIds : LET mine == EntriesOf(e, NewlyTerminal(e), j)
                              IN  /\ Cardinality(mine) \in Nat
                                  /\ e.steady /\ mine # {} => Cardinality(mine) = 1
<1>1. e.jobs \in Seq(Job) /\ Len(e.jobs) \in Nat
  BY BoundedJobs DEF Event, GoodEvent
<1>2. NewlyTerminal(e) \subseteq 1..Len(e.jobs)
  BY <1>1 DEF NewlyTerminal
<1>3. ASSUME NEW k \in NewlyTerminal(e) PROVE e.jobs[k].id \in JobIds
  <2>1. e.jobs[k] \in Job
    BY <1>1, <1>2
  <2> QED
    BY <2>1 DEF Job
<1>4. ASSUME NEW j \in JobIds
      PROVE  LET mine == EntriesOf(e, NewlyTerminal(e), j)
             IN  /\ Cardinality(mine) \in Nat
                 /\ e.steady /\ mine # {} => Cardinality(mine) = 1
  <2> DEFINE mine == EntriesOf(e, NewlyTerminal(e), j)
  <2>1. mine \in SUBSET (1..Len(e.jobs)) /\ \A k \in mine : e.jobs[k].id = j
    BY <1>2 DEF EntriesOf
  <2> HIDE DEF mine
  <2>2. IsFiniteSet(1..Len(e.jobs))
    BY <1>1, FS_Interval
  <2>3. IsFiniteSet(mine)
    BY <2>1, <2>2, FS_Subset
  <2>4. Cardinality(mine) \in Nat
    BY <2>3, FS_CardinalityType
  <2>5. ASSUME e.steady, mine # {} PROVE Cardinality(mine) = 1
    <3>1. PICK k \in mine : TRUE
      BY <2>5
    <3>2. \A i, l \in 1..Len(e.jobs) : i # l => e.jobs[i].id # e.jobs[l].id
      BY <1>1, <2>5 DEF GoodEvent
    <3>3. \A l \in mine : l = k
      BY <2>1, <3>1, <3>2
    <3>4. mine = {k}
      BY <3>1, <3>3
    <3> QED
      BY <3>4, FS_Singleton
  <2> QED
    BY <2>4, <2>5 DEF mine
<1> QED
  BY <1>3, <1>4

-----------------------------------------------------------------------------
(* Type correctness of the monitor. *)

LEMMA InitMonitor == Init => MonitorInv
<1> SUFFICES ASSUME Init PROVE MonitorInv
  OBVIOUS
<1> USE MonitorAssumption DEF Init
<1>0. /\ 1 \in 1..(MaxReruns + 1) /\ JobsOf(1) \in Seq(Job)
      /\ Len(JobsOf(1)) = JobCount /\ JobCount <= PerAttempt
      /\ \A i \in 1..JobCount : JobsOf(1)[i].id = JobId(1, i)
  BY JobsOfType
<1>1. GhType
  BY <1>0 DEF GhType
<1>2. IdInv
  <2>1. \A i, k \in 1..JobCount : JobId(1, i) \in Int /\ (i < k <=> JobId(1, i) < JobId(1, k))
    BY <1>0, JobIdGrows
  <2> QED
    BY <1>0, <2>1 DEF IdInv
<1>3. DriveType /\ WatchType
  <2>1. NoList \in [pages : 0..(JobsPages - 1), next : Nat \ {0}, jobs : BoundedSeq(Job, JobsCap),
                    from : {None} \cup [attempt : Nat, length : Nat]]
    BY NoEventType DEF NoList
  <2> HIDE DEF NoList
  <2> QED
    BY <2>1, NoEventType DEF DriveType, DriveRecord, WatchType, DrivePoints, WatchPoints
<1>4. ListInv
  BY DEF ListInv, NoList
<1>5. ChanType /\ FinishedType
  BY DEF ChanType, FinishedType
<1>6. NotifierType /\ JobType
  BY DEF NotifierType, JobType
<1>7. JobInv
  BY DEF JobInv
<1>8. FinishInv
  BY DEF FinishInv
<1> QED
  BY <1>1, <1>2, <1>3, <1>4, <1>5, <1>6, <1>7, <1>8 DEF MonitorInv, MonitorType

\* GitHub's own steps: only a listing that is being read can tell the difference.
LEMMA GithubSteps ==
  ASSUME MonitorInv, JobEnds \/ JobAppears \/ RunCompletes \/ RunIsRerun
  PROVE  MonitorInv'
<1> USE MonitorAssumption
<1>1. UNCHANGED <<caller, drive, chan, watch, completed, told, webhook, verdict, finished>>
  BY DEF JobEnds, JobAppears, RunCompletes, RunIsRerun, External, mailVars
<1>2. /\ gh \in [status : {"queued", "completed"}, conclusion : {None, "success"},
                 attempt : 1..(MaxReruns + 1), jobs : Seq(Job)]
      /\ gh.jobs \in Seq(Job) /\ Len(gh.jobs) \in Nat /\ Len(gh.jobs) <= PerAttempt
      /\ gh.attempt \in 1..(MaxReruns + 1)
  BY DEF MonitorInv, MonitorType, GhType
<1>3. CASE JobEnds \/ RunCompletes
  <2>1. /\ gh' \in [status : {"queued", "completed"}, conclusion : {None, "success"},
                    attempt : 1..(MaxReruns + 1), jobs : Seq(Job)]
        /\ gh'.attempt = gh.attempt /\ Len(gh'.jobs) = Len(gh.jobs)
        /\ \A i \in 1..Len(gh.jobs) : gh'.jobs[i].id = gh.jobs[i].id
    <3>1. CASE JobEnds
      <4>1. PICK i \in DOMAIN gh.jobs : gh' = [gh EXCEPT !.jobs[i].conclusion = "success"]
        BY <3>1 DEF JobEnds
      <4>2. PICK x : x = [gh.jobs[i] EXCEPT !.conclusion = "success"]
        OBVIOUS
      <4>3. i \in 1..Len(gh.jobs) /\ gh.jobs[i] \in Job /\ x \in Job /\ x.id = gh.jobs[i].id
        <5>1. i \in 1..Len(gh.jobs) /\ gh.jobs[i] \in Job
          BY <1>2
        <5> QED
          BY <4>2, <5>1 DEF Job
      <4>4. gh' = [gh EXCEPT !.jobs = [gh.jobs EXCEPT ![i] = x]]
        BY <4>1, <4>2
      <4>5. /\ [gh.jobs EXCEPT ![i] = x] \in Seq(Job)
            /\ Len([gh.jobs EXCEPT ![i] = x]) = Len(gh.jobs)
            /\ \A k \in 1..Len(gh.jobs) : [gh.jobs EXCEPT ![i] = x][k] = IF k = i THEN x ELSE gh.jobs[k]
        BY <1>2, <4>3
      <4> QED
        BY <1>2, <4>3, <4>4, <4>5
    <3>2. CASE RunCompletes
      BY <1>2, <3>2 DEF RunCompletes
    <3> QED
      BY <1>3, <3>1, <3>2
  <2>2. GhType' /\ IdInv'
    BY <1>2, <2>1 DEF GhType, MonitorInv, IdInv
  <2>3. Listing' = Listing
    BY <2>1 DEF Listing
  <2>4. ListInv'
    <3>1. drive' = drive /\ ListInv
      BY <1>1 DEF MonitorInv
    <3>2. ASSUME drive.list.pages # 0, drive.list.from = Listing
          PROVE  \A i \in 1..Len(drive.list.jobs) : gh'.jobs[i].id = gh.jobs[i].id
      <4>1. Len(drive.list.jobs) \in Nat
        BY BoundedJobs DEF MonitorInv, MonitorType, DriveType, DriveRecord
      <4>2. Len(drive.list.jobs) <= Len(gh.jobs)
        BY <3>1, <3>2 DEF ListInv
      <4> QED
        BY <1>2, <2>1, <4>1, <4>2
    <3> QED
      BY <2>1, <2>3, <3>1, <3>2 DEF ListInv
  <2> QED
    BY <1>1, <2>2, <2>4 DEF MonitorInv, MonitorType, DriveType, WatchType, ChanType, NotifierType,
       JobType, FinishedType, JobInv, FinishInv, AllReturned
<1>4. CASE JobAppears \/ RunIsRerun
  <2>1. /\ gh' \in [status : {"queued", "completed"}, conclusion : {None, "success"},
                    attempt : 1..(MaxReruns + 1), jobs : Seq(Job)]
        /\ Len(gh'.jobs) \in Nat /\ Len(gh'.jobs) <= PerAttempt /\ IdInv'
        /\ gh'.attempt >= gh.attempt
        /\ gh'.attempt = gh.attempt => Len(gh'.jobs) > Len(gh.jobs)
    <3>1. CASE JobAppears
      <4> DEFINE a == gh.attempt
                 n == Len(gh.jobs)
                 x == [id |-> JobId(a, n + 1), conclusion |-> None]
      <4>1. n < PerAttempt /\ PerAttempt \in Nat /\ gh' = [gh EXCEPT !.jobs = <<x>> \o gh.jobs]
        BY <3>1 DEF JobAppears, PerAttempt
      <4>2. n + 1 \in 1..PerAttempt /\ a \in 1..(MaxReruns + 1)
        BY <1>2, <4>1
      <4>3. x \in Job /\ x.id = JobId(a, n + 1)
        BY <4>2, JobIdType DEF Job
      <4> HIDE DEF x
      <4>4. /\ <<x>> \o gh.jobs \in Seq(Job) /\ Len(<<x>> \o gh.jobs) = n + 1
            /\ \A i \in 1..(n + 1) : (<<x>> \o gh.jobs)[i] = IF i = 1 THEN x ELSE gh.jobs[i - 1]
        BY <1>2, <4>3
      <4>5. gh'.jobs = <<x>> \o gh.jobs /\ gh'.attempt = a
        BY <1>2, <4>1
      <4>6. /\ \A i \in 1..n : gh.jobs[i].id <= JobId(a, n)
            /\ \A i, k \in 1..n : i # k => gh.jobs[i].id # gh.jobs[k].id
            /\ \A i \in 1..n : gh.jobs[i].id \in Int
        <5>1. \A i \in 1..n : gh.jobs[i] \in Job
          BY <1>2
        <5>2. PerAttempt * (MaxReruns + 1) \in Int
          BY <4>1
        <5>3. \A i \in 1..n : gh.jobs[i].id \in Int
          BY <5>1, <5>2 DEF Job, JobIds
        <5> QED
          BY <5>3 DEF MonitorInv, IdInv
      <4>7. JobId(a, n) \in Int /\ JobId(a, n + 1) \in Int /\ JobId(a, n) < JobId(a, n + 1)
        BY <1>2, JobIdGrows
      <4>8. IdInv'
        <5>1. \A i \in 1..(n + 1) : gh'.jobs[i].id <= JobId(a, n + 1)
          <6> SUFFICES ASSUME NEW i \in 1..(n + 1) PROVE gh'.jobs[i].id <= JobId(a, n + 1)
            OBVIOUS
          <6>1. CASE i = 1
            BY <4>3, <4>4, <4>5, <4>7, <6>1
          <6>2. CASE i # 1
            <7>1. i - 1 \in 1..n /\ gh'.jobs[i] = gh.jobs[i - 1]
              BY <1>2, <4>4, <4>5, <6>2
            <7> QED
              BY <4>6, <4>7, <7>1
          <6> QED
            BY <6>1, <6>2
        <5>2. \A i, k \in 1..(n + 1) : i < k => gh'.jobs[i].id # gh'.jobs[k].id
          <6> SUFFICES ASSUME NEW i \in 1..(n + 1), NEW k \in 1..(n + 1), i < k
                       PROVE  gh'.jobs[i].id # gh'.jobs[k].id
            OBVIOUS
          <6>1. k - 1 \in 1..n /\ gh'.jobs[k] = gh.jobs[k - 1]
            BY <1>2, <4>4, <4>5
          <6>2. CASE i = 1
            BY <4>3, <4>4, <4>5, <4>6, <4>7, <6>1, <6>2
          <6>3. CASE i # 1
            <7>1. i - 1 \in 1..n /\ gh'.jobs[i] = gh.jobs[i - 1] /\ i - 1 # k - 1
              BY <1>2, <4>4, <4>5, <6>3
            <7> QED
              BY <4>6, <6>1, <7>1
          <6> QED
            BY <6>2, <6>3
        <5>3. Len(gh'.jobs) = n + 1 /\ gh'.attempt = a
          BY <4>4, <4>5
        <5>4. \A i, k \in 1..(n + 1) : i # k => gh'.jobs[i].id # gh'.jobs[k].id
          BY <1>2, <5>2
        <5> QED
          BY <5>1, <5>3, <5>4 DEF IdInv, JobId
      <4>9. Len(gh'.jobs) = n + 1 /\ n + 1 <= PerAttempt /\ n + 1 \in Nat
        BY <1>2, <4>1, <4>4, <4>5
      <4>10. gh' \in [status : {"queued", "completed"}, conclusion : {None, "success"},
                      attempt : 1..(MaxReruns + 1), jobs : Seq(Job)]
        BY <1>2, <4>1, <4>4
      <4> QED
        BY <1>2, <4>5, <4>8, <4>9, <4>10
    <3>2. CASE RunIsRerun
      <4>1. gh.attempt + 1 \in 1..(MaxReruns + 1)
        BY <1>2, <3>2 DEF RunIsRerun
      <4>2. PICK a \in 1..(MaxReruns + 1) : a = gh.attempt + 1
        BY <4>1
      <4>3. /\ JobsOf(a) \in Seq(Job) /\ Len(JobsOf(a)) = JobCount /\ JobCount <= PerAttempt
            /\ \A i \in 1..JobCount : JobsOf(a)[i].id = JobId(a, i)
        BY JobsOfType
      <4>4. gh' = [status |-> "queued", conclusion |-> None, attempt |-> a, jobs |-> JobsOf(a)]
        BY <3>2, <4>2 DEF RunIsRerun
      <4>5. \A i, k \in 1..JobCount : JobId(a, i) \in Int /\ (i < k <=> JobId(a, i) < JobId(a, k))
        BY JobIdGrows
      <4>6. gh'.jobs = JobsOf(a) /\ gh'.attempt = a
        BY <4>4
      <4>7. IdInv'
        <5>1. \A i \in 1..JobCount : JobId(a, i) <= JobId(a, JobCount)
          BY <4>5
        <5>2. \A i, k \in 1..JobCount : i # k => JobId(a, i) # JobId(a, k)
          BY <4>5
        <5> QED
          BY <4>3, <4>6, <5>1, <5>2 DEF IdInv, JobId
      <4> QED
        BY <1>2, <4>2, <4>3, <4>4, <4>7
    <3> QED
      BY <1>4, <3>1, <3>2
  <2>2. GhType'
    BY <2>1 DEF GhType
  <2>3. ListInv'
    <3>1. drive' = drive /\ ListInv
      BY <1>1 DEF MonitorInv
    <3>2. ASSUME drive.list.pages # 0
          PROVE  /\ drive.list.from.attempt <= gh'.attempt
                 /\ drive.list.from.attempt = gh'.attempt => drive.list.from.length <= Len(gh'.jobs)
                 /\ drive.list.from # Listing'
      <4>1. /\ drive.list.from \in [attempt : Nat, length : Nat]
            /\ drive.list.from.attempt <= gh.attempt
            /\ drive.list.from.attempt = gh.attempt => drive.list.from.length <= Len(gh.jobs)
        BY <3>1, <3>2 DEF ListInv
      <4>2. Listing'.attempt = gh'.attempt /\ Listing'.length = Len(gh'.jobs)
        BY DEF Listing
      <4> QED
        BY <1>2, <2>1, <4>1, <4>2
    <3> QED
      BY <3>1, <3>2 DEF ListInv
  <2> QED
    BY <1>1, <2>1, <2>2, <2>3 DEF MonitorInv, MonitorType, DriveType, WatchType, ChanType,
       NotifierType, JobType, FinishedType, JobInv, FinishInv, AllReturned
<1> QED
  BY <1>3, <1>4

\* list_all_jobs and poll_one: an event made of one listing has no job twice.
LEMMA ListSteps ==
  ASSUME MonitorInv, ReadJobsPage
  PROVE  DriveType' /\ ListInv'
<1> USE MonitorAssumption
<1> DEFINE l == drive.list
           all == l.jobs \o JobsPage(l.next)
           out == SubSeq(all, 1, Smaller(JobsCap, Len(all)))
           from == IF l.pages = 0 THEN Listing ELSE l.from
           last == \/ Len(out) = JobsCap \/ l.pages + 1 = JobsPages
                   \/ l.next + PerPage > Len(gh.jobs)
           ev == [done |-> IsTerminal(drive.run.status), conclusion |-> drive.run.conclusion,
                  jobs |-> out, steady |-> from = Listing]
           more == [pages |-> l.pages + 1, next |-> l.next + PerPage, jobs |-> out, from |-> from]
<1>1. /\ drive' = IF last THEN [drive EXCEPT !.pc = "send", !.list = NoList, !.event = ev]
                  ELSE [drive EXCEPT !.list = more]
      /\ UNCHANGED gh
  BY DEF ReadJobsPage, DriveStep
<1>2. /\ drive \in DriveRecord /\ l.pages \in 0..(JobsPages - 1) /\ l.next \in Nat \ {0}
      /\ l.jobs \in Seq(Job) /\ drive.run.conclusion \in {None, "success"}
      /\ l.from \in {None} \cup [attempt : Nat, length : Nat]
  BY BoundedJobs DEF MonitorInv, MonitorType, DriveType, DriveRecord
<1>3. GhType /\ IdInv /\ ListInv
  BY DEF MonitorInv, MonitorType
<1>4. Listing \in [attempt : Nat, length : Nat] /\ Listing.attempt = gh.attempt
      /\ Listing.length = Len(gh.jobs) /\ Listing' = Listing /\ Len(gh.jobs) \in Nat
  BY <1>1, <1>3 DEF Listing, GhType
<1>5. from = Listing =>
         /\ Len(l.jobs) = l.next - 1 /\ Len(l.jobs) <= Len(gh.jobs)
         /\ \A i \in 1..Len(l.jobs) : l.jobs[i].id = gh.jobs[i].id
  <2>1. CASE l.pages = 0
    BY <1>3, <1>4, <2>1 DEF ListInv, NoList
  <2>2. CASE l.pages # 0
    BY <1>3, <2>2 DEF ListInv
  <2> QED
    BY <2>1, <2>2
<1>6. /\ from \in [attempt : Nat, length : Nat] /\ from.attempt <= gh.attempt
      /\ from.attempt = gh.attempt => from.length <= Len(gh.jobs)
  <2>1. CASE l.pages = 0
    BY <1>3, <1>4, <2>1 DEF GhType
  <2>2. CASE l.pages # 0
    BY <1>3, <2>2 DEF ListInv
  <2> QED
    BY <2>1, <2>2
<1>7. /\ out \in Seq(Job) /\ Len(out) <= JobsCap
      /\ from = Listing =>
            /\ Len(out) <= Len(gh.jobs)
            /\ \A i \in 1..Len(out) : out[i].id = gh.jobs[i].id
            /\ ~last => Len(out) = l.next + PerPage - 1
  <2>1. out = Gathered(l.jobs, l.next)
    BY DEF Gathered
  <2>2. PICK jobs \in Seq(Job), k \in Nat \ {0} : jobs = l.jobs /\ k = l.next
    BY <1>2
  <2>3. /\ Gathered(jobs, k) \in Seq(Job) /\ Len(Gathered(jobs, k)) <= JobsCap
        /\ (Len(jobs) = k - 1 /\ ListPrefix(jobs)) =>
              /\ ListPrefix(Gathered(jobs, k))
              /\ (Len(Gathered(jobs, k)) # JobsCap /\ ~(k + PerPage > Len(gh.jobs))) =>
                    Len(Gathered(jobs, k)) = k + PerPage - 1
    BY <1>3, PageGathered
  <2> HIDE DEF out, from
  <2> QED
    BY <1>5, <2>1, <2>2, <2>3 DEF ListPrefix
<1>8. out \in BoundedSeq(Job, JobsCap)
  BY <1>7, BoundedJobs
<1> HIDE DEF out, from
<1>9. ASSUME last PROVE DriveType' /\ ListInv'
  <2>1. ev \in GoodEvent
    <3>1. ev \in Event
      BY <1>2, <1>8 DEF Event, IsTerminal
    <3>2. ASSUME from = Listing, NEW i \in DOMAIN out, NEW k \in DOMAIN out, i # k
          PROVE  out[i].id # out[k].id
      <4>1. i \in 1..Len(gh.jobs) /\ k \in 1..Len(gh.jobs)
            /\ out[i].id = gh.jobs[i].id /\ out[k].id = gh.jobs[k].id
        BY <1>4, <1>7, <3>2
      <4> QED
        BY <1>3, <3>2, <4>1 DEF IdInv
    <3> QED
      BY <3>1, <3>2 DEF GoodEvent
  <2>2. drive' = [drive EXCEPT !.pc = "send", !.list = NoList, !.event = ev]
    BY <1>1, <1>9
  <2> HIDE DEF ev, last
  <2>3. NoList \in [pages : 0..(JobsPages - 1), next : Nat \ {0}, jobs : BoundedSeq(Job, JobsCap),
                    from : {None} \cup [attempt : Nat, length : Nat]] /\ NoList.pages = 0
    BY NoEventType DEF NoList
  <2> HIDE DEF NoList
  <2>4. DriveType'
    BY <1>2, <2>1, <2>2, <2>3 DEF DriveType, DriveRecord, DrivePoints
  <2>5. drive'.list = NoList
    BY <1>2, <2>2 DEF DriveRecord
  <2> QED
    BY <2>3, <2>4, <2>5 DEF ListInv
<1>10. ASSUME ~last PROVE DriveType' /\ ListInv'
  <2>1. more \in [pages : 0..(JobsPages - 1), next : Nat \ {0}, jobs : BoundedSeq(Job, JobsCap),
                  from : {None} \cup [attempt : Nat, length : Nat]]
    <3>0. l.pages + 1 # JobsPages
      BY <1>10
    <3>1. l.pages + 1 \in 0..(JobsPages - 1) /\ l.next + PerPage \in Nat \ {0}
      BY <1>2, <3>0
    <3> QED
      BY <1>6, <1>8, <3>1
  <2>2. drive' = [drive EXCEPT !.list = more] /\ drive'.list = more
    BY <1>1, <1>2, <1>10 DEF DriveRecord
  <2>3. DriveType'
    <3> HIDE DEF more, last
    <3> QED
      BY <1>2, <2>1, <2>2 DEF DriveType, DriveRecord, DrivePoints
  <2>4. ListInv'
    <3>1. /\ more.pages # 0 /\ more.from = from /\ more.jobs = out /\ more.next - 1 = l.next + PerPage - 1
      BY <1>2
    <3>2. gh' = gh /\ Listing' = Listing
      BY <1>1, <1>4
    <3> HIDE DEF more
    <3> QED
      BY <1>6, <1>7, <1>10, <2>2, <3>1, <3>2 DEF ListInv
  <2> QED
    BY <2>3, <2>4
<1> QED
  BY <1>9, <1>10

\* monitor_run: what it holds has its type, and only SendEvent touches the channel.
LEMMA DriveSteps ==
  ASSUME MonitorInv, DriveNext
  PROVE  MonitorInv'
<1>1. UNCHANGED <<caller, gh, watch, completed, told, webhook, verdict, finished>>
  BY DEF DriveNext, RateGate, PollError, ReadRun, ReadJobsPage, SendEvent, IntervalOrCancel,
     DriveStep, mailVars
<1>2. drive \in DriveRecord /\ ListInv /\ Listing' = Listing
  BY <1>1 DEF MonitorInv, MonitorType, DriveType, Listing
<1>3. NoList \in [pages : 0..(JobsPages - 1), next : Nat \ {0}, jobs : BoundedSeq(Job, JobsCap),
                  from : {None} \cup [attempt : Nat, length : Nat]] /\ NoList.pages = 0
  BY NoEventType, MonitorAssumption DEF NoList
<1>4. \A o \in {"Terminated", "ReceiverDropped", "DrainedMidRun", "Failed"} :
         drive' = EndDrive(o) => DriveType' /\ ListInv'
  <2> HIDE DEF NoList
  <2> SUFFICES ASSUME NEW o \in {"Terminated", "ReceiverDropped", "DrainedMidRun", "Failed"},
                      drive' = EndDrive(o)
               PROVE  DriveType' /\ ListInv'
    OBVIOUS
  <2>1. DriveType'
    BY <1>2, <1>3, NoEventType DEF EndDrive, DriveType, DriveRecord, DrivePoints
  <2>2. drive'.list = NoList
    BY <1>2 DEF EndDrive, DriveRecord
  <2> QED
    BY <1>3, <2>1, <2>2 DEF ListInv
<1>5. ASSUME NEW p \in DrivePoints, NEW r \in DriveRecord, drive' = [r EXCEPT !.pc = p],
             r.list \in {drive.list, NoList}
      PROVE  DriveType' /\ ListInv'
  <2>1. DriveType' /\ drive'.list = r.list
    BY <1>5 DEF DriveType, DriveRecord
  <2>2. CASE r.list = drive.list
    BY <1>1, <1>2, <2>1, <2>2 DEF ListInv
  <2>3. CASE r.list = NoList
    BY <1>3, <2>1, <2>3 DEF ListInv
  <2> QED
    BY <1>5, <2>1, <2>2, <2>3
<1>6. DriveType' /\ ListInv'
  <2>1. CASE RateGate \/ IntervalOrCancel
    BY <1>2, <1>4, <1>5, <2>1 DEF RateGate, IntervalOrCancel, DriveStep, DrivePoints
  <2>2. CASE PollError
    <3>1. CASE drive' = [drive EXCEPT !.pc = "tick", !.list = NoList]
      <4> DEFINE r == [drive EXCEPT !.list = NoList]
      <4>1. r \in DriveRecord /\ r.list = NoList
        BY <1>2, <1>3 DEF DriveRecord
      <4>2. drive' = [r EXCEPT !.pc = "tick"]
        BY <3>1
      <4> HIDE DEF r
      <4> QED
        BY <1>5, <4>1, <4>2 DEF DrivePoints
    <3> QED
      BY <1>4, <2>2, <3>1 DEF PollError, DriveStep
  <2>3. CASE ReadRun
    <3> DEFINE r == [status |-> StatusFromApi(gh.status),
                     conclusion |-> IF gh.conclusion = None THEN None
                                    ELSE ConclusionFromApi(gh.conclusion)]
               d == [drive EXCEPT !.run = r]
    <3>1. r \in [status : {"queued", "completed", "unknown"}, conclusion : {None, "success"}]
      BY DEF MonitorInv, MonitorType, GhType, StatusFromApi, ConclusionFromApi, Conclusions
    <3>2. drive' = [drive EXCEPT !.pc = "jobs", !.run = r]
      BY <2>3 DEF ReadRun, DriveStep
    <3> HIDE DEF r
    <3>3. d \in DriveRecord /\ d.list = drive.list
      BY <1>2, <3>1 DEF DriveRecord
    <3>4. drive' = [d EXCEPT !.pc = "jobs"]
      BY <3>2
    <3> HIDE DEF d
    <3> QED
      BY <1>5, <3>3, <3>4 DEF DrivePoints
  <2>4. CASE ReadJobsPage
    BY <2>4, ListSteps
  <2>5. CASE SendEvent
    <3>1. CASE drive' = [drive EXCEPT !.pc = "tick", !.event = NoEvent]
      <4> DEFINE d == [drive EXCEPT !.event = NoEvent]
      <4>1. d \in DriveRecord /\ d.list = drive.list
        BY <1>2, NoEventType DEF DriveRecord
      <4>2. drive' = [d EXCEPT !.pc = "tick"]
        BY <3>1
      <4> HIDE DEF d
      <4> QED
        BY <1>5, <4>1, <4>2 DEF DrivePoints
    <3> QED
      BY <1>4, <2>5, <3>1 DEF SendEvent, DriveStep
  <2> QED
    BY <2>1, <2>2, <2>3, <2>4, <2>5 DEF DriveNext
<1>7. ChanType'
  <2>1. CASE SendEvent
    <3>1. drive.event \in GoodEvent
      BY <1>2 DEF DriveRecord
    <3> QED
      BY <2>1, <3>1, MonitorAssumption DEF SendEvent, MonitorInv, MonitorType, ChanType
  <2> QED
    BY <2>1 DEF DriveNext, RateGate, PollError, ReadRun, ReadJobsPage, IntervalOrCancel,
       MonitorInv, MonitorType, ChanType
<1>8. IdInv'
  BY <1>1 DEF MonitorInv, IdInv, JobId
<1> QED
  BY <1>1, <1>6, <1>7, <1>8 DEF MonitorInv, MonitorType, GhType, WatchType, NotifierType, JobType,
     FinishedType, JobInv, FinishInv, AllReturned

\* run_monitor_with_source: jobs are told of by one event, RunFinished follows the fan-out.
LEMMA WatchSteps ==
  ASSUME MonitorInv, WatchNext \/ Abort
  PROVE  MonitorInv'
<1>1. UNCHANGED <<caller, gh, drive, webhook, verdict>>
  BY DEF WatchNext, Recv, RecvClosed, FanOutJobCompletes, FanOutRunComplete, JoinFanOut,
     SendRunFinished, JoinDrive, Abort, WatchFrame, mailVars
<1>2. GhType' /\ DriveType' /\ NotifierType' /\ IdInv' /\ ListInv'
  BY <1>1 DEF MonitorInv, MonitorType, GhType, DriveType, NotifierType, IdInv, JobId, ListInv, Listing
<1>3. AllReturned => AllReturned'
  BY <1>1 DEF AllReturned
<1>4. /\ watch \in [pc : WatchPoints, event : GoodEvent]
      /\ MonitorType /\ JobInv /\ FinishInv
  BY DEF MonitorInv, MonitorType, WatchType
<1>5. CASE Recv
  <2>1. chan' \in Seq(GoodEvent) /\ Len(chan') <= EventQueue /\ Head(chan) \in GoodEvent
    BY <1>4, <1>5, MonitorAssumption DEF Recv, MonitorType, ChanType
  <2>2. WatchType' /\ ChanType'
    BY <1>5, <2>1 DEF Recv, WatchType, ChanType, WatchPoints
  <2>3. JobType' /\ FinishedType' /\ JobInv'
    BY <1>4, <1>5 DEF Recv, MonitorType, JobType, FinishedType, JobInv
  <2>4. FinishInv'
    BY <1>4, <1>5 DEF Recv, FinishInv
  <2> QED
    BY <1>2, <2>2, <2>3, <2>4 DEF MonitorInv, MonitorType
<1>6. CASE FanOutJobCompletes
  <2> DEFINE e == watch.event
             new == NewlyTerminal(e)
             mine(j) == EntriesOf(e, new, j)
             telling(j) == [calls |-> Cardinality(mine(j)), steady |-> e.steady]
  <2>1. e \in GoodEvent /\ e.steady \in BOOLEAN
    BY <1>4 DEF GoodEvent, Event
  <2>2. /\ \A k \in new : e.jobs[k].id \in JobIds /\ e.jobs[k].id \notin completed
        /\ \A j \in JobIds : /\ Cardinality(mine(j)) \in Nat
                             /\ e.steady /\ mine(j) # {} => Cardinality(mine(j)) = 1
    BY <2>1, NewlyTerminalType DEF NewlyTerminal
  <2>3. /\ completed' = completed \cup {e.jobs[k].id : k \in new}
        /\ told' = [j \in JobIds |-> IF mine(j) = {} THEN told[j] ELSE Append(told[j], telling(j))]
    BY <1>6 DEF FanOutJobCompletes
  <2>4. JobType' /\ JobInv'
    <3>1. completed' \subseteq JobIds
      BY <1>4, <2>2, <2>3 DEF MonitorType, JobType
    <3>2. ASSUME NEW j \in JobIds
          PROVE  /\ told'[j] \in Seq(Telling) /\ Len(told'[j]) <= 1
                 /\ told'[j] # <<>> => j \in completed'
                 /\ \A i \in DOMAIN told'[j] : told'[j][i].steady => told'[j][i].calls = 1
      <4>1. /\ told[j] \in Seq(Telling) /\ Len(told[j]) <= 1 /\ (told[j] # <<>> => j \in completed)
            /\ \A i \in DOMAIN told[j] : told[j][i].steady => told[j][i].calls = 1
        BY <1>4 DEF MonitorType, JobType, JobInv
      <4>2. CASE mine(j) = {}
        <5>1. told'[j] = told[j]
          BY <2>3, <4>2
        <5> QED
          BY <2>3, <4>1, <5>1
      <4>3. CASE mine(j) # {}
        <5>1. PICK k \in new : e.jobs[k].id = j
          BY <4>3 DEF EntriesOf
        <5>2. j \notin completed /\ j \in completed' /\ told[j] = <<>>
          BY <2>2, <2>3, <4>1, <5>1
        <5>3. PICK t : t = telling(j)
          OBVIOUS
        <5>4. t \in Telling /\ (t.steady => t.calls = 1)
          BY <2>1, <2>2, <4>3, <5>3 DEF Telling
        <5>5. told'[j] = Append(<<>>, t)
          BY <2>3, <4>3, <5>2, <5>3
        <5>6. told'[j] = <<t>>
          BY <5>5
        <5> QED
          BY <5>2, <5>4, <5>6
      <4> QED
        BY <4>2, <4>3
    <3>3. told' = [j \in JobIds |-> told'[j]]
      BY <2>3
    <3>4. told' \in [JobIds -> Seq(Telling)]
      BY <3>2, <3>3
    <3> QED
      BY <3>1, <3>2, <3>4 DEF JobType, JobInv
  <2>5. watch' \in {[watch EXCEPT !.pc = "start"], [pc |-> "recv", event |-> NoEvent]}
    BY <1>6 DEF FanOutJobCompletes
  <2>6. WatchType'
    BY <1>4, <2>5, NoEventType DEF WatchType, WatchPoints
  <2>7. ChanType' /\ FinishedType'
    BY <1>4, <1>6 DEF FanOutJobCompletes, MonitorType, ChanType, FinishedType
  <2>8. FinishInv'
    BY <1>4, <1>6, <2>5 DEF FanOutJobCompletes, FinishInv
  <2> QED
    BY <1>2, <2>4, <2>6, <2>7, <2>8 DEF MonitorInv, MonitorType
<1>7. CASE RecvClosed \/ FanOutRunComplete \/ JoinFanOut \/ JoinDrive
  <2>1. UNCHANGED <<chan, completed, told, finished>>
    BY <1>7 DEF RecvClosed, FanOutRunComplete, JoinFanOut, JoinDrive
  <2>2. \E p \in {"join", "wait", "finish", "ended"} :
           /\ watch' = [watch EXCEPT !.pc = p]
           /\ p \in {"wait", "finish"} => watch.pc \in {"start", "wait"}
           /\ p = "finish" => AllReturned
    BY <1>7 DEF RecvClosed, FanOutRunComplete, JoinFanOut, JoinDrive
  <2>3. WatchType'
    BY <1>4, <2>2 DEF WatchType, WatchPoints
  <2>4. FinishInv'
    BY <1>3, <1>4, <2>1, <2>2 DEF FinishInv
  <2> QED
    BY <1>2, <1>4, <2>1, <2>3, <2>4 DEF MonitorInv, MonitorType, ChanType, JobType, FinishedType, JobInv
<1>8. CASE SendRunFinished
  <2>1. StoredConclusion(watch.event.conclusion) \in {"success", "unknown"}
    BY <1>4 DEF StoredConclusion, Event, GoodEvent
  <2>2. PICK x : x = StoredConclusion(watch.event.conclusion)
    OBVIOUS
  <2>3. finished = <<>> /\ AllReturned
    BY <1>4, <1>8 DEF SendRunFinished, FinishInv
  <2>4. finished' = Append(finished, x) /\ watch' = [pc |-> "join", event |-> NoEvent]
    BY <1>8, <2>2 DEF SendRunFinished
  <2>5. finished' \in Seq({"success", "unknown"}) /\ Len(finished') = 1
    BY <2>1, <2>2, <2>3, <2>4
  <2>6. WatchType' /\ FinishedType'
    BY <2>4, <2>5, NoEventType DEF WatchType, WatchPoints, FinishedType
  <2>7. FinishInv'
    BY <1>3, <2>3, <2>4, <2>5 DEF FinishInv
  <2>8. ChanType' /\ JobType' /\ JobInv'
    BY <1>4, <1>8 DEF SendRunFinished, MonitorType, ChanType, JobType, JobInv
  <2> QED
    BY <1>2, <2>6, <2>7, <2>8 DEF MonitorInv, MonitorType
<1>9. CASE Abort
  <2>1. WatchType'
    BY <1>9, NoEventType DEF Abort, WatchType, WatchPoints
  <2>2. ChanType'
    BY <1>9, MonitorAssumption DEF Abort, ChanType
  <2>3. JobType' /\ FinishedType' /\ JobInv'
    BY <1>4, <1>9 DEF Abort, MonitorType, JobType, FinishedType, JobInv
  <2>4. FinishInv'
    BY <1>3, <1>4, <1>9 DEF Abort, FinishInv
  <2> QED
    BY <1>2, <2>1, <2>2, <2>3, <2>4 DEF MonitorInv, MonitorType
<1> QED
  BY <1>5, <1>6, <1>7, <1>8, <1>9 DEF WatchNext

\* Notifiers that have returned stay returned, whatever the others do.
LEMMA NotifierSteps ==
  ASSUME MailInv, MonitorInv,
         \/ \E n \in Mailers : MailStep(n)
         \/ \E n \in Webhooks : StartWebhook(n) \/ DeliverOrCancel(n)
         \/ AgentStep /\ UNCHANGED monitorVars
         \/ CancelMail /\ UNCHANGED monitorVars
         \/ UNCHANGED vars
  PROVE  MonitorInv'
<1>1. UNCHANGED <<gh, drive, chan, watch, completed, told, finished>>
  BY DEF MailStep, StartWebhook, DeliverOrCancel, WebhookFrame, monitorVars, vars
<1>2. NotifierType'
  <2>1. ASSUME NEW n \in Webhooks, StartWebhook(n) \/ DeliverOrCancel(n) PROVE NotifierType'
    <3>1. \A a \in Answers : ClassifyTwilightError(a) \in Results
      BY DEF ClassifyTwilightError, Results
    <3> QED
      BY <2>1, <3>1 DEF StartWebhook, DeliverOrCancel, WebhookReturns, MonitorInv, MonitorType,
         NotifierType, Results
  <2>2. CASE UNCHANGED <<webhook, verdict>>
    BY <2>2 DEF MonitorInv, MonitorType, NotifierType
  <2> QED
    BY <2>1, <2>2 DEF MailStep, monitorVars, vars
<1>3. AllReturned => AllReturned'
  <2>1. ASSUME NEW n \in Mailers, MailStep(n), AllReturned PROVE AllReturned'
    <3>1. caller[n] = "done"
      BY <2>1 DEF AllReturned
    <3>2. UNCHANGED caller
      BY <2>1, <3>1 DEF MailStep, StartMail, CallerStep, PollPhase, GiveUp, JoinHelper,
         HelperStep, OpenSpool, TakeLock, SignalPhase, WriteSome, SyncSpool, Unlock
    <3>3. UNCHANGED webhook
      BY <2>1 DEF MailStep, monitorVars
    <3> QED
      BY <2>1, <3>2, <3>3 DEF AllReturned
  <2>2. ASSUME NEW n \in Webhooks, StartWebhook(n) \/ DeliverOrCancel(n), AllReturned
        PROVE  AllReturned'
    BY <2>2 DEF StartWebhook, DeliverOrCancel, AllReturned
  <2>3. CASE AgentStep \/ CancelMail \/ UNCHANGED vars
    <3>1. UNCHANGED caller
      BY <2>3 DEF AgentStep, AgentTakes, AgentDelivers, AgentReleases, CancelMail, mailVars,
         vars
    <3> QED
      BY <3>1, <2>2, <2>1 DEF AllReturned, monitorVars, vars
  <2> QED
    BY <2>1, <2>2, <2>3
<1>4. FinishInv'
  BY <1>1, <1>3 DEF MonitorInv, FinishInv
<1>5. IdInv' /\ ListInv'
  BY <1>1 DEF MonitorInv, IdInv, JobId, ListInv, Listing
<1> QED
  BY <1>1, <1>2, <1>4, <1>5 DEF MonitorInv, MonitorType, GhType, DriveType, WatchType, ChanType, JobType,
     FinishedType, JobInv

\* The cap on the jobs, the channel and the record of RunFinished.
LEMMA MonitorTypeOK ==
  ASSUME MailInv, MonitorInv
  PROVE  RunIsToldInOrder
<1>0. MonitorType /\ JobInv /\ FinishInv
  BY DEF MonitorInv
<1>1. finished \in BoundedSeq({"success", "unknown"}, 1)
  <2>1. finished \in Seq({"success", "unknown"}) /\ Len(finished) \in 0..1
    BY <1>0 DEF MonitorType, FinishedType, FinishInv
  <2>2. \E m \in 0..1 : finished \in [1..m -> {"success", "unknown"}]
    BY <2>1
  <2> QED
    BY <2>2 DEF BoundedSeq, SeqOf
<1>2. \A i \in DOMAIN chan : chan[i] \in Event
  BY <1>0 DEF MonitorType, ChanType, GoodEvent
<1>3. TypeOK
  <2>1. /\ drive.pc \in DrivePoints /\ drive.event \in Event
        /\ drive.list.pages < JobsPages /\ drive.list.jobs \in BoundedSeq(Job, JobsCap)
        /\ drive.outcome \in {None, "Terminated", "ReceiverDropped", "DrainedMidRun", "Failed"}
    BY <1>0, MonitorAssumption DEF MonitorType, DriveType, DriveRecord, GoodEvent
  <2>2. watch.pc \in WatchPoints /\ watch.event \in Event
    BY <1>0 DEF MonitorType, WatchType, GoodEvent
  <2> QED
    BY <1>0, <1>1, <1>2, <2>1, <2>2 DEF MailInv, MonitorType, ChanType, NotifierType, JobType, TypeOK
<1>4. JobToldByOneEvent /\ FinishedAfterNotifiers
  BY <1>0 DEF JobInv, FinishInv, JobToldByOneEvent, FinishedAfterNotifiers
<1> QED
  BY <1>3, <1>4 DEF RunIsToldInOrder

\* A job is told of by one event at most over any number of polls and re-runs, and once
\* if that event's pages were read from one listing; RunFinished is sent once, after
\* every notifier has answered; for any number of notifiers and jobs, any size and cap of
\* the pages and any capacity of the event channel (list_all_jobs,
\* run_monitor_with_source, fan_out_job_completes, spawn_fan_out).
THEOREM ToldInOrderCorrect == Spec => []RunIsToldInOrder
<1>1. Init => MailInv
  BY MailInvInit DEF Init
<1>2. MailInv /\ MonitorInv /\ [Next]_vars => MonitorInv'
  BY GithubSteps, DriveSteps, WatchSteps, NotifierSteps DEF Next
<1>3. MailInv /\ MonitorInv => RunIsToldInOrder
  BY MonitorTypeOK
<1> QED
  BY <1>1, <1>2, <1>3, InitMonitor, NextMail, PTL DEF Spec

-----------------------------------------------------------------------------
(* The text of the notifications: MessageText. *)

\* Lines of a spool.
SpoolLine == BodyLine \cup {Header}

\* The three fixed lines differ.
LEMMA FixedLines ==
  /\ Separator \in SpoolLine /\ Header \in SpoolLine /\ Blank \in SpoolLine
  /\ Separator # Header /\ Separator # Blank /\ Header # Blank
<1>1. Separator.kind = "text" /\ Header.kind = "header" /\ Blank.kind = "blank"
  BY DEF Separator, Line, Header, Blank
<1>2. Separator \in [kind : {"text"}, quotes : Nat, from : BOOLEAN]
  BY DEF Separator, Line
<1> QED BY <1>1, <1>2 DEF SpoolLine, BodyLine

\* A quoted line is no separator, and taking one '>' off gives the line back.
LEMMA QuotedLine ==
  ASSUME NEW l \in BodyLine
  PROVE  LET q == IF NeedsQuote(l) THEN [l EXCEPT !.quotes = @ + 1] ELSE l
         IN  q \in BodyLine /\ q # Separator /\ Unquoted(q) = l
<1> DEFINE q == IF NeedsQuote(l) THEN [l EXCEPT !.quotes = @ + 1] ELSE l
<1>1. CASE l = Blank
  <2>1. ~NeedsQuote(l) /\ ~l.from
    BY <1>1 DEF NeedsQuote, Blank
  <2> QED BY <1>1, <2>1, FixedLines DEF Unquoted
<1>2. CASE l \in [kind : {"text"}, quotes : Nat, from : BOOLEAN]
  <2>1. CASE l.from = TRUE
    <3>1. q = [l EXCEPT !.quotes = @ + 1] /\ q.quotes = l.quotes + 1 /\ l.quotes \in Nat
          /\ q.from = TRUE /\ q \in [kind : {"text"}, quotes : Nat, from : BOOLEAN]
      BY <1>2, <2>1 DEF NeedsQuote
    <3>2. Separator.quotes = 0
      BY DEF Separator, Line
    <3>3. q # Separator
      BY <3>1, <3>2
    <3>4. Unquoted(q) = [q EXCEPT !.quotes = @ - 1]
      BY <3>1 DEF Unquoted
    <3>5. Unquoted(q) = l
      BY <1>2, <3>1, <3>4
    <3> QED BY <3>1, <3>3, <3>5 DEF BodyLine
  <2>2. CASE l.from = FALSE
    <3>1. q = l
      BY <2>2 DEF NeedsQuote
    <3>2. Separator.from = TRUE
      BY DEF Separator, Line
    <3> QED BY <2>2, <3>1, <3>2 DEF Unquoted
  <2> QED BY <1>2, <2>1, <2>2
<1> QED BY <1>1, <1>2 DEF BodyLine

\* What escape_mboxrd makes of a body.
LEMMA EscapedBody ==
  ASSUME NEW b \in Seq(BodyLine)
  PROVE  /\ EscapeMboxrd(b) \in Seq(BodyLine) /\ Len(EscapeMboxrd(b)) = Len(b)
         /\ \A i \in 1 .. Len(b) : EscapeMboxrd(b)[i] # Separator /\ Unquoted(EscapeMboxrd(b)[i]) = b[i]
<1>1. Len(b) \in Nat /\ DOMAIN b = 1 .. Len(b) /\ \A i \in 1 .. Len(b) : b[i] \in BodyLine
  BY LenProperties
<1>2. \A i \in 1 .. Len(b) : /\ EscapeMboxrd(b)[i] \in BodyLine
                             /\ EscapeMboxrd(b)[i] # Separator /\ Unquoted(EscapeMboxrd(b)[i]) = b[i]
  BY <1>1, QuotedLine DEF EscapeMboxrd
<1>3. EscapeMboxrd(b) \in [1 .. Len(b) -> BodyLine]
  BY <1>1, <1>2 DEF EscapeMboxrd
<1> QED BY <1>1, <1>2, <1>3

\* A body without its final newline is a body.
LEMMA EndedBody ==
  ASSUME NEW b \in Bodies
  PROVE  Ended(b) \in Seq(BodyLine)
<1>1. b \in Seq(BodyLine) /\ b # <<>>
  BY TextAssumption
<1>2. Len(b) - 1 \in 0 .. Len(b)
  BY <1>1
<1>3. Front(b) \in Seq(BodyLine)
  BY <1>1, <1>2 DEF Front
<1> QED BY <1>1, <1>3 DEF Ended

\* A sanitized subject is one line.
LEMMA SubjectLine ==
  ASSUME NEW s \in Subjects
  PROVE  HeaderLines(SanitizeHeader(s)) = <<Header>>
<1>1. {k \in DOMAIN SanitizeHeader(s) : SanitizeHeader(s)[k] = "control"} = {}
  BY DEF SanitizeHeader
<1>2. HeaderLines(SanitizeHeader(s)) = [i \in 1 .. 1 |-> IF i = 1 THEN Header ELSE Separator]
  BY <1>1, FS_EmptySet DEF HeaderLines
<1>3. [i \in 1 .. 1 |-> IF i = 1 THEN Header ELSE Separator] = <<Header>>
  <2>1. [i \in 1 .. 1 |-> IF i = 1 THEN Header ELSE Separator] \in Seq({Header, Separator})
    OBVIOUS
  <2> QED BY <2>1
<1> QED BY <1>2, <1>3

\* The lines of a record.
LEMMA MessageShape ==
  ASSUME NEW s \in Subjects, NEW b \in Bodies
  PROVE  LET m == FormatMessage(s, b)
             e == Ended(b)
         IN  /\ m \in Seq(SpoolLine) /\ Len(m) = Len(e) + 9 /\ Len(e) \in Nat
             /\ m[1] = Separator /\ m[8] = Blank
             /\ \A i \in 2 .. 7 : m[i] = Header
             /\ \A i \in 1 .. Len(e) : m[i + 8] = EscapeMboxrd(e)[i]
             /\ m[Len(m)] = Blank
<1> DEFINE m == FormatMessage(s, b)
           e == Ended(b)
           x == EscapeMboxrd(e)
           h == <<Separator, Header, Header, Header>> \o <<Header>> \o <<Header, Header, Blank>>
<1>1. e \in Seq(BodyLine) /\ x \in Seq(SpoolLine) /\ Len(x) = Len(e) /\ Len(e) \in Nat
  BY EndedBody, EscapedBody, LenProperties, SeqMonotonic DEF SpoolLine
<1>2. m = (h \o x) \o <<Blank>>
  BY SubjectLine DEF FormatMessage
<1>3. /\ h \in Seq(SpoolLine) /\ Len(h) = 8 /\ h[1] = Separator /\ h[8] = Blank
      /\ h[2] = Header /\ h[3] = Header /\ h[4] = Header /\ h[5] = Header /\ h[6] = Header /\ h[7] = Header
  BY FixedLines
<1> HIDE DEF h, x, e, m
<1>4. h \o x \in Seq(SpoolLine) /\ Len(h \o x) = 8 + Len(e)
      /\ \A i \in 1 .. 8 + Len(e) : (h \o x)[i] = IF i <= 8 THEN h[i] ELSE x[i - 8]
  <2>0. h \in Seq(SpoolLine) /\ x \in Seq(SpoolLine)
    BY <1>1, <1>3
  <2>1. /\ h \o x \in Seq(SpoolLine) /\ Len(h \o x) = Len(h) + Len(x)
        /\ \A i \in 1 .. Len(h) + Len(x) : (h \o x)[i] = IF i <= Len(h) THEN h[i] ELSE x[i - Len(h)]
    BY <2>0, ConcatProperties
  <2> QED BY <1>1, <1>3, <2>1
<1>5. /\ m \in Seq(SpoolLine) /\ Len(m) = 9 + Len(e)
      /\ \A i \in 1 .. 9 + Len(e) :
            m[i] = IF i <= 8 + Len(e) THEN (h \o x)[i] ELSE <<Blank>>[i - (8 + Len(e))]
  <2>1. <<Blank>> \in Seq(SpoolLine) /\ Len(<<Blank>>) = 1
    BY FixedLines
  <2> QED BY <1>1, <1>2, <1>4, <2>1, ConcatProperties
<1>6. m[1] = Separator /\ m[8] = Blank /\ m[Len(m)] = Blank
  BY <1>1, <1>3, <1>4, <1>5
<1>7. \A i \in 2 .. 7 : m[i] = Header
  <2>1. \A i \in 2 .. 7 : m[i] = h[i]
    BY <1>1, <1>4, <1>5
  <2>2. \A i \in 2 .. 7 : i = 2 \/ i = 3 \/ i = 4 \/ i = 5 \/ i = 6 \/ i = 7
    OBVIOUS
  <2> QED BY <1>3, <2>1, <2>2
<1>8. \A i \in 1 .. Len(e) : m[i + 8] = x[i]
  BY <1>1, <1>4, <1>5
<1> QED BY <1>1, <1>5, <1>6, <1>7, <1>8 DEF m, e, x

\* A reader of one record finds its body.
LEMMA BodyReadsBack ==
  ASSUME NEW s \in Subjects, NEW b \in Bodies
  PROVE  BodyOf(FormatMessage(s, b)) = Ended(b)
<1> DEFINE m == FormatMessage(s, b)
           e == Ended(b)
           gap == CHOOSE i \in DOMAIN m : m[i] = Blank /\ \A j \in 1 .. i - 1 : m[j] # Blank
           body == SubSeq(m, gap + 1, Len(m) - 1)
<1>1. /\ m \in Seq(SpoolLine) /\ Len(m) = Len(e) + 9 /\ Len(e) \in Nat
      /\ m[1] = Separator /\ m[8] = Blank
      /\ \A i \in 2 .. 7 : m[i] = Header
      /\ \A i \in 1 .. Len(e) : m[i + 8] = EscapeMboxrd(e)[i]
  BY MessageShape
<1>2. e \in Seq(BodyLine) /\ DOMAIN e = 1 .. Len(e)
      /\ \A i \in 1 .. Len(e) : Unquoted(EscapeMboxrd(e)[i]) = e[i]
  BY EndedBody, EscapedBody, LenProperties
<1> HIDE DEF m, e
<1>3. gap = 8
  <2>1. DOMAIN m = 1 .. Len(m) /\ 8 \in DOMAIN m /\ \A i \in DOMAIN m : i \in Int /\ i >= 1
    BY <1>1
  <2>2. \A j \in 1 .. 7 : m[j] # Blank
    <3>1. \A j \in 1 .. 7 : j = 1 \/ j \in 2 .. 7
      OBVIOUS
    <3> QED BY <1>1, <3>1, FixedLines
  <2>3. \A i \in DOMAIN m : m[i] = Blank /\ (\A j \in 1 .. i - 1 : m[j] # Blank) => i = 8
    <3> SUFFICES ASSUME NEW i \in DOMAIN m, m[i] = Blank, \A j \in 1 .. i - 1 : m[j] # Blank
                 PROVE  i = 8
      OBVIOUS
    <3>1. i < 8 => i \in 1 .. 7
      BY <2>1
    <3>2. i > 8 => 8 \in 1 .. i - 1
      BY <2>1
    <3> QED BY <1>1, <2>1, <2>2, <3>1, <3>2
  <2>4. 8 \in DOMAIN m /\ m[8] = Blank /\ \A j \in 1 .. 8 - 1 : m[j] # Blank
    BY <1>1, <2>1, <2>2
  <2>5. gap \in DOMAIN m /\ m[gap] = Blank /\ \A j \in 1 .. gap - 1 : m[j] # Blank
    BY <2>4
  <2> QED BY <2>3, <2>5
<1> HIDE DEF gap
<1>4. /\ body \in Seq(SpoolLine) /\ Len(body) = Len(e)
      /\ \A i \in 1 .. Len(e) : body[i] = m[i + 8]
  <2>0. gap + 1 = 9 /\ Len(m) - 1 = Len(e) + 8
    BY <1>1, <1>3
  <2>1. body = SubSeq(m, 9, Len(e) + 8)
    BY <2>0
  <2>3. \A i \in 9 .. Len(e) + 8 : m[i] \in SpoolLine
    BY <1>1
  <2> HIDE DEF body
  <2>2. /\ body \in Seq(SpoolLine)
        /\ Len(body) = IF 9 <= Len(e) + 8 THEN Len(e) + 8 - 9 + 1 ELSE 0
        /\ \A i \in 1 .. Len(e) + 8 - 9 + 1 : body[i] = m[9 + i - 1]
    BY <1>1, <2>1, <2>3, SubSeqProperties
  <2> QED BY <1>1, <2>2
<1>5. BodyOf(m) = [i \in DOMAIN body |-> Unquoted(body[i])]
  BY DEF BodyOf, gap, body
<1> HIDE DEF body
<1>6. DOMAIN body = 1 .. Len(e)
  BY <1>4
<1>7. \A i \in 1 .. Len(e) : Unquoted(body[i]) = e[i]
  BY <1>1, <1>2, <1>4
<1>8. e = [i \in 1 .. Len(e) |-> e[i]]
  BY <1>2
<1> QED BY <1>5, <1>6, <1>7, <1>8 DEF m, e

\* How many records have started up to line i.
Rank(lines, i) == Cardinality({j \in RecordStarts(lines) : j <= i})

\* Records start at lines of the spool, and their ranks order them.
LEMMA Ranks ==
  ASSUME NEW lines \in Seq(SpoolLine)
  PROVE  /\ RecordStarts(lines) \subseteq 1 .. Len(lines) /\ Len(lines) \in Nat
         /\ IsFiniteSet(RecordStarts(lines)) /\ Cardinality(RecordStarts(lines)) \in Nat
         /\ \A i \in RecordStarts(lines) :
              Rank(lines, i) \in Nat /\ Rank(lines, i) <= Cardinality(RecordStarts(lines))
         /\ \A i, j \in RecordStarts(lines) : i < j => Rank(lines, i) < Rank(lines, j)
<1> DEFINE S == RecordStarts(lines)
           Upto(i) == {j \in S : j <= i}
<1>1. S \subseteq 1 .. Len(lines) /\ Len(lines) \in Nat
  BY DEF RecordStarts
<1>2. IsFiniteSet(S) /\ Cardinality(S) \in Nat
  <2>1. IsFiniteSet(1 .. Len(lines))
    BY <1>1, FS_Interval
  <2>2. IsFiniteSet(S)
    BY <1>1, <2>1, FS_Subset
  <2> QED BY <2>2, FS_CardinalityType
<1> HIDE DEF S
<1>3. ASSUME NEW i \in S
      PROVE  IsFiniteSet(Upto(i)) /\ Cardinality(Upto(i)) \in Nat /\ Cardinality(Upto(i)) <= Cardinality(S)
  <2>1. Upto(i) \in SUBSET S
    OBVIOUS
  <2>2. IsFiniteSet(Upto(i)) /\ Cardinality(Upto(i)) <= Cardinality(S)
    BY <1>2, <2>1, FS_Subset
  <2> QED BY <2>2, FS_CardinalityType
<1>4. ASSUME NEW i \in S, NEW j \in S, i < j
      PROVE  Cardinality(Upto(i)) < Cardinality(Upto(j))
  <2>0. i \in Int /\ j \in Int /\ \A k \in S : k \in Int
    BY <1>1
  <2>1. Upto(i) \subseteq Upto(j)
    <3> SUFFICES ASSUME NEW k \in S, k <= i PROVE k <= j
      OBVIOUS
    <3> QED BY <1>4, <2>0
  <2>2. Upto(i) # Upto(j)
    <3>1. j \in Upto(j) /\ ~(j <= i)
      BY <1>4, <2>0
    <3> QED BY <3>1
  <2>3. IsFiniteSet(Upto(j)) /\ Cardinality(Upto(i)) \in Nat /\ Cardinality(Upto(j)) \in Nat
    BY <1>3
  <2> HIDE DEF Upto
  <2>4. /\ Cardinality(Upto(i)) <= Cardinality(Upto(j))
        /\ Cardinality(Upto(j)) = Cardinality(Upto(i)) => Upto(j) = Upto(i)
    BY <2>1, <2>3, FS_Subset
  <2> QED BY <2>2, <2>3, <2>4
<1> QED BY <1>1, <1>2, <1>3, <1>4 DEF S, Rank

\* Every rank up to the number of records is taken.
Ranked(lines) ==
  \A k \in 1 .. Cardinality(RecordStarts(lines)) : \E i \in RecordStarts(lines) : Rank(lines, i) = k

\* The k-th record starts where k records have started.
LEMMA StartOfRank ==
  ASSUME NEW lines \in Seq(SpoolLine), Ranked(lines)
  PROVE  /\ \A k \in 1 .. Cardinality(RecordStarts(lines)) :
              RecordStart(lines, k) \in RecordStarts(lines) /\ Rank(lines, RecordStart(lines, k)) = k
         /\ \A k \in 1 .. Cardinality(RecordStarts(lines)), i \in RecordStarts(lines) :
              Rank(lines, i) = k => RecordStart(lines, k) = i
<1>1. ASSUME NEW k \in 1 .. Cardinality(RecordStarts(lines))
      PROVE  RecordStart(lines, k) \in RecordStarts(lines) /\ Rank(lines, RecordStart(lines, k)) = k
  <2>1. \E i \in RecordStarts(lines) : Cardinality({j \in RecordStarts(lines) : j <= i}) = k
    BY DEF Ranked, Rank
  <2> QED BY <2>1 DEF RecordStart, Rank
<1>2. ASSUME NEW i \in RecordStarts(lines), NEW j \in RecordStarts(lines),
             Rank(lines, i) = Rank(lines, j)
      PROVE  i = j
  <2>1. i \in Int /\ j \in Int
    BY Ranks
  <2>2. ~(i < j) /\ ~(j < i)
    BY <1>2, Ranks
  <2> QED BY <2>1, <2>2
<1> QED BY <1>1, <1>2

\* Appending a record adds one start, the last; the others keep their ranks.
LEMMA StartsAppended ==
  ASSUME NEW old \in Seq(SpoolLine), NEW m \in Seq(SpoolLine), Len(m) >= 1,
         m[1] = Separator, \A i \in 2 .. Len(m) : m[i] # Separator
  PROVE  LET lines == old \o m
             new == Len(old) + 1
             count == Cardinality(RecordStarts(old))
         IN  /\ RecordStarts(lines) = RecordStarts(old) \cup {new}
             /\ Cardinality(RecordStarts(lines)) = count + 1
             /\ \A i \in RecordStarts(old) : Rank(lines, i) = Rank(old, i)
             /\ Rank(lines, new) = count + 1
<1> DEFINE lines == old \o m
           new == Len(old) + 1
           count == Cardinality(RecordStarts(old))
           S == RecordStarts(old)
           T == RecordStarts(lines)
<1>1. /\ Len(old) \in Nat /\ Len(m) \in Nat /\ DOMAIN old = 1 .. Len(old)
      /\ DOMAIN m = 1 .. Len(m)
  BY LenProperties
<1>2. /\ lines \in Seq(SpoolLine) /\ Len(lines) = Len(old) + Len(m)
      /\ \A i \in 1 .. Len(old) + Len(m) : lines[i] = IF i <= Len(old) THEN old[i] ELSE m[i - Len(old)]
  BY ConcatProperties
<1>3. DOMAIN lines = 1 .. Len(old) + Len(m)
  BY <1>2, LenProperties
<1>4. S \subseteq 1 .. Len(old) /\ IsFiniteSet(S) /\ count \in Nat
  BY Ranks
<1> HIDE DEF lines
<1>5. T = S \cup {new}
  <2>1. ASSUME NEW i \in 1 .. Len(old) + Len(m)
        PROVE  lines[i] = Separator <=> i \in S \/ i = new
    <3>1. CASE i <= Len(old)
      <4>1. i \in 1 .. Len(old) /\ lines[i] = old[i] /\ i # new
        BY <1>1, <1>2, <3>1
      <4> QED BY <1>1, <4>1 DEF RecordStarts
    <3>2. CASE i = new
      BY <1>1, <1>2, <3>2
    <3>3. CASE i > new
      <4>1. i - Len(old) \in 2 .. Len(m) /\ lines[i] = m[i - Len(old)] /\ i # new
            /\ i \notin 1 .. Len(old)
        BY <1>1, <1>2, <3>3
      <4> QED BY <1>4, <4>1
    <3> QED BY <1>1, <3>1, <3>2, <3>3
  <2>2. new \in 1 .. Len(old) + Len(m) /\ S \subseteq 1 .. Len(old) + Len(m)
    BY <1>1, <1>4
  <2>3. T = {i \in 1 .. Len(old) + Len(m) : lines[i] = Separator}
    BY <1>3 DEF RecordStarts
  <2> HIDE DEF T, S, new
  <2> QED BY <2>1, <2>2, <2>3
<1>6. new \notin S /\ new \in Int /\ \A i \in S : i \in Int /\ i < new
  BY <1>1, <1>4
<1> HIDE DEF S, T, new
<1>7. Cardinality(T) = Cardinality(S) + 1
  BY <1>4, <1>5, <1>6, FS_AddElement
<1>8. ASSUME NEW i \in S
      PROVE  Rank(lines, i) = Rank(old, i)
  <2>1. {j \in T : j <= i} = {j \in S : j <= i}
    BY <1>5, <1>6
  <2> QED BY <2>1 DEF Rank, S, T
<1>9. Rank(lines, new) = Cardinality(T)
  <2>1. {j \in T : j <= new} = T
    BY <1>5, <1>6
  <2> QED BY <2>1 DEF Rank, T
<1> QED BY <1>5, <1>7, <1>8, <1>9 DEF S, T, new, lines

\* So the ranks stay without a gap, and the starts of the earlier records stay.
LEMMA RankedAppended ==
  ASSUME NEW old \in Seq(SpoolLine), NEW m \in Seq(SpoolLine), Len(m) >= 1,
         m[1] = Separator, \A i \in 2 .. Len(m) : m[i] # Separator, Ranked(old)
  PROVE  LET lines == old \o m
             count == Cardinality(RecordStarts(old))
         IN  /\ lines \in Seq(SpoolLine) /\ Ranked(lines)
             /\ \A k \in 1 .. count : RecordStart(lines, k) = RecordStart(old, k)
             /\ RecordStart(lines, count + 1) = Len(old) + 1
<1> DEFINE lines == old \o m
           new == Len(old) + 1
           count == Cardinality(RecordStarts(old))
<1>1. lines \in Seq(SpoolLine)
  BY ConcatProperties
<1>2. /\ RecordStarts(lines) = RecordStarts(old) \cup {new}
      /\ Cardinality(RecordStarts(lines)) = count + 1
      /\ \A i \in RecordStarts(old) : Rank(lines, i) = Rank(old, i)
      /\ Rank(lines, new) = count + 1
  BY StartsAppended
<1>3. count \in Nat
  BY Ranks
<1> HIDE DEF lines, new
<1>4. Ranked(lines)
  <2> SUFFICES ASSUME NEW k \in 1 .. count + 1
               PROVE  \E i \in RecordStarts(lines) : Rank(lines, i) = k
    BY <1>2 DEF Ranked
  <2>1. CASE k = count + 1
    BY <1>2, <2>1
  <2>2. CASE k # count + 1
    <3>1. k \in 1 .. count
      BY <1>3, <2>2
    <3> QED BY <1>2, <3>1 DEF Ranked
  <2> QED BY <2>1, <2>2
<1>5. ASSUME NEW k \in 1 .. count
      PROVE  RecordStart(lines, k) = RecordStart(old, k)
  <2>1. RecordStart(old, k) \in RecordStarts(old) /\ Rank(old, RecordStart(old, k)) = k
    BY StartOfRank
  <2>2. RecordStart(old, k) \in RecordStarts(lines) /\ Rank(lines, RecordStart(old, k)) = k
        /\ k \in 1 .. Cardinality(RecordStarts(lines))
    BY <1>2, <1>3, <2>1
  <2> QED BY <1>1, <1>4, <2>2, StartOfRank
<1>6. RecordStart(lines, count + 1) = new
  <2>1. new \in RecordStarts(lines) /\ count + 1 \in 1 .. Cardinality(RecordStarts(lines))
    BY <1>2, <1>3
  <2> QED BY <1>1, <1>2, <1>4, <2>1, StartOfRank
<1> QED BY <1>1, <1>4, <1>5, <1>6 DEF lines, new

\* The reader of the longer spool finds the earlier records where they were, and the
\* new one after them.
LEMMA RecordsAppended ==
  ASSUME NEW old \in Seq(SpoolLine), NEW m \in Seq(SpoolLine), Len(m) >= 1,
         m[1] = Separator, \A i \in 2 .. Len(m) : m[i] # Separator, Ranked(old)
  PROVE  LET lines == old \o m
             count == Cardinality(RecordStarts(old))
         IN  /\ \A k \in 1 .. count : RecordLines(lines, k) = RecordLines(old, k)
             /\ RecordLines(lines, count + 1) = m
<1> DEFINE lines == old \o m
           count == Cardinality(RecordStarts(old))
<1>1. /\ lines \in Seq(SpoolLine) /\ Ranked(lines)
      /\ \A k \in 1 .. count : RecordStart(lines, k) = RecordStart(old, k)
      /\ RecordStart(lines, count + 1) = Len(old) + 1
  BY RankedAppended
<1>2. Cardinality(RecordStarts(lines)) = count + 1
  BY StartsAppended
<1>3. /\ count \in Nat /\ Len(old) \in Nat /\ Len(m) \in Nat
      /\ RecordStarts(old) \subseteq 1 .. Len(old)
  BY Ranks, LenProperties
<1>4. Len(lines) = Len(old) + Len(m)
  BY ConcatProperties
<1>5. ASSUME NEW k \in 1 .. count
      PROVE  RecordLines(lines, k) = RecordLines(old, k)
  <2> DEFINE a == RecordStart(old, k)
             z == IF k = count THEN Len(old) ELSE RecordStart(old, k + 1) - 1
  <2>1. a \in 1 .. Len(old) /\ a \in RecordStarts(old) /\ Rank(old, a) = k
    BY <1>3, StartOfRank
  <2>2. z \in 1 .. Len(old)
    <3>1. CASE k = count
      BY <1>3, <2>1, <3>1
    <3>2. CASE k # count
      <4> DEFINE b == RecordStart(old, k + 1)
      <4>1. k + 1 \in 1 .. count
        BY <1>3, <3>2
      <4>2. b \in RecordStarts(old) /\ Rank(old, b) = k + 1
        BY <4>1, StartOfRank
      <4>3. b \in 1 .. Len(old)
        BY <1>3, <4>2
      <4> HIDE DEF a, b
      <4>4. ~(b < a) /\ b # a
        <5>1. b < a => k + 1 < k
          BY <2>1, <4>2, Ranks
        <5>2. b # a
          BY <2>1, <4>2
        <5> QED BY <5>1, <5>2
      <4>5. b - 1 \in 1 .. Len(old)
        BY <1>3, <2>1, <4>3, <4>4
      <4> QED BY <3>2, <4>5 DEF b
    <3> QED BY <3>1, <3>2
  <2>3. RecordLines(old, k) = SubSeq(old, a, z)
    BY DEF RecordLines
  <2>4. RecordLines(lines, k) = SubSeq(lines, a, z)
    <3>1. k # count + 1 /\ RecordStart(lines, k) = a
      BY <1>1, <1>3
    <3>2. RecordStart(lines, k + 1) - 1 = z
      <4>1. CASE k = count
        BY <1>1, <1>3, <4>1
      <4>2. CASE k # count
        <5>1. k + 1 \in 1 .. count
          BY <1>3, <4>2
        <5> QED BY <1>1, <4>2, <5>1
      <4> QED BY <4>1, <4>2
    <3> HIDE DEF a, z, lines, count
    <3> QED BY <1>2, <3>1, <3>2 DEF RecordLines
  <2> HIDE DEF a, z
  <2>5. SubSeq(old \o m, a, z) = SubSeq(old, a, z)
    BY <2>1, <2>2, SubSeqOfConcat1
  <2> QED BY <2>3, <2>4, <2>5
<1>6. RecordLines(lines, count + 1) = m
  <2>1. RecordLines(lines, count + 1) = SubSeq(lines, Len(old) + 1, Len(lines))
    <3> HIDE DEF lines, count
    <3> QED BY <1>1, <1>2 DEF RecordLines
  <2>2. Len(old) + 1 \in Len(old) + 1 .. Len(old) + Len(m)
        /\ Len(old) + Len(m) \in Len(old) + 1 .. Len(old) + Len(m)
    BY <1>3
  <2>3. SubSeq(old \o m, Len(old) + 1, Len(old) + Len(m))
          = SubSeq(m, Len(old) + 1 - Len(old), Len(old) + Len(m) - Len(old))
    BY <2>2, SubSeqOfConcat2
  <2>4. Len(old) + 1 - Len(old) = 1 /\ Len(old) + Len(m) - Len(old) = Len(m)
    BY <1>3
  <2>5. SubSeq(m, 1, Len(m)) = m
    BY SubSeqFull
  <2> QED BY <1>4, <2>1, <2>3, <2>4, <2>5
<1> QED BY <1>5, <1>6

\* A record holds one line a reader takes for a separator: its first.
LEMMA OneSeparator ==
  ASSUME NEW s \in Subjects, NEW b \in Bodies
  PROVE  LET m == FormatMessage(s, b)
         IN  /\ m \in Seq(SpoolLine) /\ Len(m) >= 1 /\ m[1] = Separator
             /\ \A i \in 2 .. Len(m) : m[i] # Separator
<1> DEFINE m == FormatMessage(s, b)
           e == Ended(b)
<1>1. /\ m \in Seq(SpoolLine) /\ Len(m) = Len(e) + 9 /\ Len(e) \in Nat
      /\ m[1] = Separator /\ m[8] = Blank
      /\ \A i \in 2 .. 7 : m[i] = Header
      /\ \A i \in 1 .. Len(e) : m[i + 8] = EscapeMboxrd(e)[i]
      /\ m[Len(m)] = Blank
  BY MessageShape
<1>2. \A i \in 1 .. Len(e) : EscapeMboxrd(e)[i] # Separator
  BY EndedBody, EscapedBody
<1> HIDE DEF m, e
<1>3. ASSUME NEW i \in 2 .. Len(m)
      PROVE  m[i] # Separator
  <2>1. CASE i \in 2 .. 7
    BY <1>1, <2>1, FixedLines
  <2>2. CASE i = 8 \/ i = Len(m)
    BY <1>1, <2>2, FixedLines
  <2>3. CASE i >= 9 /\ i < Len(m)
    <3>1. i - 8 \in 1 .. Len(e) /\ (i - 8) + 8 = i
      BY <1>1, <2>3
    <3>2. m[(i - 8) + 8] = EscapeMboxrd(e)[i - 8]
      BY <1>1, <3>1
    <3> QED BY <1>2, <3>1, <3>2
  <2> QED BY <1>1, <2>1, <2>2, <2>3
<1> QED BY <1>1, <1>3 DEF m

\* A field within its limits.
Fits(field) == Len(field.name) <= FIELD_NAME_LENGTH /\ Len(field.value) <= FIELD_VALUE_LENGTH

\* What the fields of an embed must be, for a run of so many jobs.
Tells(fields, jobs) ==
  /\ Len(fields) <= FIELD_COUNT
  /\ \A i \in DOMAIN fields : Fits(fields[i]) /\ fields[i].stands \subseteq 1 .. jobs
  /\ \A j \in 1 .. jobs : \E i \in DOMAIN fields :
        \A k \in DOMAIN fields : j \in fields[k].stands <=> k = i

\* A truncated text fits.
LEMMA TruncatedFits ==
  ASSUME NEW t \in Seq(1 .. 4), NEW max \in Nat \ {0}
  PROVE  Truncated(t, max) \in Seq(1 .. 4) /\ Len(Truncated(t, max)) <= max
<1>1. CASE Len(t) <= max
  BY <1>1 DEF Truncated
<1>2. CASE ~(Len(t) <= max)
  <2> DEFINE kept == SubSeq(t, 1, max - 1)
  <2>1. kept \in Seq(1 .. 4) /\ Len(kept) = max - 1
    <3>1. max - 1 \in Nat /\ max - 1 <= Len(t) /\ Len(t) \in Nat
      BY <1>2
    <3>2. \A k \in 1 .. max - 1 : t[k] \in 1 .. 4
      BY <3>1
    <3> QED BY <3>1, <3>2, SubSeqProperties
  <2>2. Ellipsis \in Seq(1 .. 4) /\ Len(Ellipsis) = 1
    BY DEF Ellipsis
  <2>3. Truncated(t, max) = kept \o Ellipsis
    BY <1>2 DEF Truncated
  <2> HIDE DEF kept
  <2>4. kept \o Ellipsis \in Seq(1 .. 4) /\ Len(kept \o Ellipsis) = Len(kept) + Len(Ellipsis)
    BY <2>1, <2>2, ConcatProperties
  <2>5. Len(Truncated(t, max)) = max
    BY <2>1, <2>2, <2>3, <2>4
  <2> QED BY <2>3, <2>4, <2>5
<1> QED BY <1>1, <1>2

\* Every field of an embed is built within its limits.
LEMMA FieldFits ==
  ASSUME NEW name \in Seq(1 .. 4), NEW value \in Seq(1 .. 4), NEW jobs
  PROVE  Fits(Field(name, value, jobs)) /\ Field(name, value, jobs).stands = jobs
BY TruncatedFits, TextAssumption DEF Fits, Field

\* The fixed texts are texts.
LEMMA FixedTexts == Ellipsis \in Seq(1 .. 4) /\ Wording \in Seq(1 .. 4)
BY DEF Ellipsis, Wording

\* build_collapsed_fields tells of every job, in one field.
LEMMA CollapsedTells ==
  ASSUME NEW jobs \in Nat, NEW value \in Rendered
  PROVE  Tells(CollapsedFields(jobs, value), jobs)
<1> DEFINE f == CollapsedFields(jobs, value)
<1>1. value \in Seq(1 .. 4) /\ FIELD_COUNT \in Nat /\ FIELD_COUNT >= 1
  BY TextAssumption
<1>2. Fits(Field(Wording, value, 1 .. jobs)) /\ Field(Wording, value, 1 .. jobs).stands = 1 .. jobs
  BY <1>1, FixedTexts, FieldFits
<1>3. DOMAIN f = {1} /\ Len(f) = 1 /\ f[1] = Field(Wording, value, 1 .. jobs)
  BY DEF CollapsedFields
<1> HIDE DEF f
<1>4. Len(f) <= FIELD_COUNT
  BY <1>1, <1>3
<1>5. \A i \in DOMAIN f : Fits(f[i]) /\ f[i].stands \subseteq 1 .. jobs
  BY <1>2, <1>3
<1>6. \A j \in 1 .. jobs : \E i \in DOMAIN f : \A k \in DOMAIN f : j \in f[k].stands <=> k = i
  BY <1>2, <1>3
<1> QED BY <1>4, <1>5, <1>6 DEF Tells, f

\* build_expanded_fields tells of every job once, at most FIELD_COUNT of them by name.
LEMMA ExpandedTells ==
  ASSUME NEW jobs \in Nat, NEW name \in Rendered, NEW value \in Rendered
  PROVE  Tells(ExpandedFields(jobs, name, value), jobs)
<1> DEFINE f == ExpandedFields(jobs, name, value)
           one(i) == Field(name, value, {i})
           n == ShownJobs(jobs)
           g == [i \in 1 .. n |-> one(i)]
           rest == Field(Ellipsis, Wording, Cap(jobs) + 1 .. jobs)
           F == {one(i) : i \in 1 .. n} \cup {rest}
<1>1. /\ name \in Seq(1 .. 4) /\ value \in Seq(1 .. 4)
      /\ FIELD_COUNT \in Nat /\ FIELD_COUNT >= 1
  BY TextAssumption
<1>2. \A i : Fits(one(i)) /\ one(i).stands = {i}
  BY <1>1, FieldFits
<1>3. Cap(jobs) \in Nat
  BY <1>1 DEF Cap
<1>4. n \in Nat /\ n <= jobs
  BY <1>3 DEF ShownJobs
<1>5. g \in Seq(F) /\ Len(g) = n /\ \A i \in 1 .. n : g[i] = one(i)
  <2>1. \A i \in 1 .. n : one(i) \in F
    OBVIOUS
  <2>2. g \in [1 .. n -> F]
    BY <2>1
  <2> HIDE DEF g, F, n
  <2>3. g \in Seq(F) /\ Len(g) = n
    BY <1>4, <2>2
  <2> QED BY <2>3 DEF g
<1>6. CASE ~(jobs > FIELD_COUNT)
  <2>1. n = jobs
    BY <1>1, <1>6 DEF ShownJobs, Cap
  <2>2. f = g
    <3>1. f = g \o <<>>
      BY <1>6 DEF ExpandedFields
    <3> HIDE DEF f, g
    <3> QED BY <1>5, <3>1, ConcatEmptySeq
  <2>3. DOMAIN f = 1 .. jobs /\ Len(f) = jobs
        /\ \A i \in 1 .. jobs : f[i] = one(i)
    <3> HIDE DEF f, g, n, one
    <3> QED BY <1>5, <2>1, <2>2
  <2> HIDE DEF f
  <2>4. Len(f) <= FIELD_COUNT
    BY <1>1, <1>6, <2>3
  <2>5. \A i \in DOMAIN f : Fits(f[i]) /\ f[i].stands \subseteq 1 .. jobs
    <3> HIDE DEF one
    <3> QED BY <1>2, <2>3
  <2>6. ASSUME NEW j \in 1 .. jobs
        PROVE  \E i \in DOMAIN f : \A k \in DOMAIN f : j \in f[k].stands <=> k = i
    <3>1. ASSUME NEW k \in DOMAIN f
          PROVE  j \in f[k].stands <=> k = j
      <4>1. f[k].stands = {k}
        BY <1>2, <2>3
      <4> QED BY <4>1
    <3>2. j \in DOMAIN f
      BY <2>3
    <3> QED BY <3>1, <3>2
  <2> QED BY <2>4, <2>5, <2>6 DEF Tells, f
<1>7. CASE jobs > FIELD_COUNT
  <2>1. Cap(jobs) = FIELD_COUNT - 1 /\ n = FIELD_COUNT - 1
    BY <1>1, <1>7 DEF ShownJobs, Cap
  <2>2. f = g \o <<rest>>
    BY <1>7 DEF ExpandedFields
  <2>3. rest \in F /\ Fits(rest) /\ rest.stands = FIELD_COUNT .. jobs
    <3>1. Cap(jobs) + 1 = FIELD_COUNT
      BY <1>1, <2>1
    <3>2. Fits(rest) /\ rest.stands = Cap(jobs) + 1 .. jobs
      BY FixedTexts, FieldFits
    <3> HIDE DEF rest
    <3> QED BY <3>1, <3>2
  <2> HIDE DEF f, g, rest, F, one
  <2>4. /\ f \in Seq(F) /\ Len(f) = FIELD_COUNT
        /\ \A i \in 1 .. FIELD_COUNT : f[i] = IF i <= FIELD_COUNT - 1 THEN g[i] ELSE rest
    <3>1. <<rest>> \in Seq(F) /\ Len(<<rest>>) = 1 /\ <<rest>>[1] = rest
      BY <2>3
    <3>2. /\ f \in Seq(F) /\ Len(f) = n + 1
          /\ \A i \in 1 .. n + 1 : f[i] = IF i <= n THEN g[i] ELSE <<rest>>[i - n]
      <4> HIDE DEF n
      <4>1. f = g \o <<rest>> /\ g \in Seq(F) /\ <<rest>> \in Seq(F) /\ Len(g) = n /\ Len(<<rest>>) = 1
        BY <1>5, <2>2, <3>1
      <4> QED BY <4>1, ConcatProperties
    <3> HIDE DEF n
    <3> QED BY <1>1, <2>1, <3>1, <3>2
  <2>5. DOMAIN f = 1 .. FIELD_COUNT
    BY <1>1, <2>4
  <2>6. \A i \in 1 .. FIELD_COUNT - 1 : Fits(f[i]) /\ f[i].stands = {i}
    <3> SUFFICES ASSUME NEW i \in 1 .. FIELD_COUNT - 1
                 PROVE  Fits(f[i]) /\ f[i].stands = {i}
      OBVIOUS
    <3>1. i \in 1 .. FIELD_COUNT /\ i <= FIELD_COUNT - 1
      BY <1>1
    <3>2. f[i] = g[i]
      BY <2>4, <3>1
    <3>3. g[i] = one(i)
      BY <1>5, <2>1
    <3> QED BY <1>2, <3>2, <3>3
  <2>7. Fits(f[FIELD_COUNT]) /\ f[FIELD_COUNT].stands = FIELD_COUNT .. jobs
    BY <1>1, <2>3, <2>4
  <2>8. \A i \in DOMAIN f : i = FIELD_COUNT \/ i \in 1 .. FIELD_COUNT - 1
    BY <1>1, <2>5
  <2>9. \A i \in DOMAIN f : Fits(f[i]) /\ f[i].stands \subseteq 1 .. jobs
    <3>1. \A i \in 1 .. FIELD_COUNT - 1 : {i} \subseteq 1 .. jobs
      BY <1>1, <1>7
    <3>2. FIELD_COUNT .. jobs \subseteq 1 .. jobs
      BY <1>1
    <3> QED BY <2>6, <2>7, <2>8, <3>1, <3>2
  <2>10. ASSUME NEW j \in 1 .. jobs
         PROVE  \E i \in DOMAIN f : \A k \in DOMAIN f : j \in f[k].stands <=> k = i
    <3>1. CASE j < FIELD_COUNT
      <4>1. j \in DOMAIN f /\ j \notin FIELD_COUNT .. jobs /\ j # FIELD_COUNT
        BY <1>1, <2>5, <3>1
      <4>2. ASSUME NEW k \in DOMAIN f
            PROVE  j \in f[k].stands <=> k = j
        <5>1. CASE k = FIELD_COUNT
          BY <2>7, <4>1, <5>1
        <5>2. CASE k \in 1 .. FIELD_COUNT - 1
          <6>1. f[k].stands = {k}
            BY <2>6, <5>2
          <6> QED BY <6>1
        <5> QED BY <2>8, <5>1, <5>2
      <4> QED BY <4>1, <4>2
    <3>2. CASE j >= FIELD_COUNT
      <4>1. FIELD_COUNT \in DOMAIN f /\ j \in FIELD_COUNT .. jobs
            /\ \A k \in 1 .. FIELD_COUNT - 1 : k # j /\ k # FIELD_COUNT
        BY <1>1, <2>5, <3>2
      <4>2. ASSUME NEW k \in DOMAIN f
            PROVE  j \in f[k].stands <=> k = FIELD_COUNT
        <5>1. CASE k = FIELD_COUNT
          BY <2>7, <4>1, <5>1
        <5>2. CASE k \in 1 .. FIELD_COUNT - 1
          <6>1. f[k].stands = {k}
            BY <2>6, <5>2
          <6> QED BY <4>1, <5>2, <6>1
        <5> QED BY <2>8, <5>1, <5>2
      <4> QED BY <4>1, <4>2
    <3> QED BY <1>1, <3>1, <3>2
  <2>11. Len(f) <= FIELD_COUNT
    BY <1>1, <2>4
  <2> QED BY <2>9, <2>10, <2>11 DEF Tells, f
<1> QED BY <1>6, <1>7

\* The spool is made of records with ranks in order, as many as mails were delivered.
TextInv ==
  /\ mailed \in Seq(Bodies)
  /\ mbox \in Seq(SpoolLine) /\ Ranked(mbox)
  /\ MessagesReadBack

\* An appended record leaves the spool readable.
LEMMA RecordStep ==
  ASSUME TextInv, NEW s \in Subjects, NEW b \in Bodies, Mail(s, b)
  PROVE  mailed' \in Seq(Bodies) /\ mbox' \in Seq(SpoolLine) /\ Ranked(mbox)' /\ SpoolReadsBack'
<1> DEFINE m == FormatMessage(s, b)
           lines == mbox \o m
           count == Cardinality(RecordStarts(mbox))
<1>1. mailed' = Append(mailed, b) /\ mbox' = lines
  BY DEF Mail
<1>2. mailed \in Seq(Bodies) /\ mbox \in Seq(SpoolLine) /\ Ranked(mbox)
      /\ ReadSpool(mbox) = [k \in DOMAIN mailed |-> Ended(mailed[k])]
  BY DEF TextInv, MessagesReadBack, SpoolReadsBack
<1>3. /\ m \in Seq(SpoolLine) /\ Len(m) >= 1 /\ m[1] = Separator
      /\ \A i \in 2 .. Len(m) : m[i] # Separator
  BY OneSeparator
<1>4. BodyOf(m) = Ended(b)
  BY BodyReadsBack
<1> HIDE DEF m
<1>5. lines \in Seq(SpoolLine) /\ Ranked(lines)
  BY <1>2, <1>3, RankedAppended
<1>6. Cardinality(RecordStarts(lines)) = count + 1
  BY <1>2, <1>3, StartsAppended
<1>7. /\ \A k \in 1 .. count : RecordLines(lines, k) = RecordLines(mbox, k)
      /\ RecordLines(lines, count + 1) = m
  BY <1>2, <1>3, RecordsAppended
<1>8. count \in Nat
  BY <1>2, Ranks
<1>9. /\ mailed' \in Seq(Bodies) /\ Len(mailed) \in Nat
      /\ DOMAIN mailed = 1 .. Len(mailed) /\ DOMAIN mailed' = 1 .. Len(mailed) + 1
      /\ \A k \in 1 .. Len(mailed) : mailed'[k] = mailed[k]
      /\ mailed'[Len(mailed) + 1] = b
  BY <1>1, <1>2, AppendProperties, LenProperties
<1> HIDE DEF lines, count
<1>10. count = Len(mailed)
  <2>1. DOMAIN ReadSpool(mbox) = 1 .. count
    BY DEF ReadSpool, count
  <2>2. 1 .. count = 1 .. Len(mailed)
    BY <1>2, <1>9, <2>1
  <2>3. \A x, y \in Nat : 1 .. x = 1 .. y => x = y
    <3> SUFFICES ASSUME NEW x \in Nat, NEW y \in Nat, 1 .. x = 1 .. y PROVE x = y
      OBVIOUS
    <3>1. x > 0 => x \in 1 .. y
      OBVIOUS
    <3>2. y > 0 => y \in 1 .. x
      OBVIOUS
    <3> QED BY <3>1, <3>2
  <2>4. Len(mailed) \in Nat
    BY <1>9
  <2> QED BY <1>8, <2>2, <2>3, <2>4
<1>11. ASSUME NEW k \in 1 .. count + 1
       PROVE  BodyOf(RecordLines(lines, k)) = Ended(mailed'[k])
  <2>1. CASE k = count + 1
    BY <1>4, <1>7, <1>9, <1>10, <2>1
  <2>2. CASE k # count + 1
    <3>1. k \in 1 .. count /\ k \in DOMAIN mailed
      BY <1>8, <1>9, <1>10, <2>2
    <3>2. ReadSpool(mbox)[k] = BodyOf(RecordLines(mbox, k))
      BY <3>1 DEF ReadSpool, count
    <3>3. ReadSpool(mbox)[k] = Ended(mailed[k])
      BY <1>2, <3>1
    <3> QED BY <1>7, <1>9, <3>1, <3>2, <3>3
  <2> QED BY <2>1, <2>2
<1>12. ReadSpool(lines) = [k \in 1 .. count + 1 |-> BodyOf(RecordLines(lines, k))]
  BY <1>6 DEF ReadSpool
<1>13. ReadSpool(lines) = [k \in DOMAIN mailed' |-> Ended(mailed'[k])]
  BY <1>9, <1>10, <1>11, <1>12
<1> QED BY <1>1, <1>5, <1>9, <1>13 DEF SpoolReadsBack

\* An embed tells of every job, whatever was posted before.
LEMMA PostStep ==
  ASSUME NEW jobs \in Nat, NEW collapse \in BOOLEAN, NEW text \in Rendered,
         NEW name \in Rendered, NEW value \in Rendered, Post(jobs, collapse, text, name, value)
  PROVE  EmbedIsComplete'
<1>1. embed' = [jobs |-> jobs, text |-> Truncated(text, TEXT_LENGTH),
                fields |-> IF collapse THEN CollapsedFields(jobs, value)
                           ELSE ExpandedFields(jobs, name, value)]
  BY DEF Post, Embed
<1>2. Tells(embed'.fields, embed'.jobs)
  <2>1. embed'.jobs = jobs
        /\ \/ embed'.fields = CollapsedFields(jobs, value)
           \/ embed'.fields = ExpandedFields(jobs, name, value)
    BY <1>1
  <2> QED BY <2>1, CollapsedTells, ExpandedTells
<1>3. Len(embed'.text) <= TEXT_LENGTH
  <2>1. text \in Seq(1 .. 4) /\ TEXT_LENGTH \in Nat \ {0}
    BY TextAssumption
  <2>2. embed'.text = Truncated(text, TEXT_LENGTH)
    BY <1>1
  <2> QED BY <2>1, <2>2, TruncatedFits
<1> QED BY <1>2, <1>3 DEF Tells, Fits, EmbedIsComplete

\* The text invariant holds at the start and every step keeps it.
LEMMA TextInvInit == TextInit => TextInv
<1> SUFFICES ASSUME TextInit PROVE TextInv
  OBVIOUS
<1>1. mailed = <<>> /\ mbox = <<>> /\ embed = [jobs |-> 0, text |-> <<>>, fields |-> <<>>] /\ posted = FALSE
  BY DEF TextInit
<1>2. mailed \in Seq(Bodies) /\ mbox \in Seq(SpoolLine)
  BY <1>1
<1>3. RecordStarts(mbox) = {}
  BY <1>1 DEF RecordStarts
<1>4. Cardinality(RecordStarts(mbox)) = 0
  BY <1>3, FS_EmptySet
<1>5. Ranked(mbox)
  BY <1>4 DEF Ranked
<1>6. SpoolReadsBack
  <2>1. ReadSpool(mbox) = [k \in {} |-> BodyOf(RecordLines(mbox, k))]
    BY <1>4 DEF ReadSpool
  <2>2. DOMAIN mailed = {}
    BY <1>1
  <2> QED BY <2>1, <2>2 DEF SpoolReadsBack
<1>7. EmbedIsComplete
  <2>1. embed.jobs = 0 /\ embed.text = <<>> /\ embed.fields = <<>>
    BY <1>1
  <2>2. Len(embed.text) = 0 /\ Len(embed.fields) = 0 /\ DOMAIN embed.fields = {} /\ 1 .. embed.jobs = {}
    BY <2>1
  <2> QED BY <2>1, <2>2, TextAssumption DEF EmbedIsComplete
<1> QED BY <1>2, <1>5, <1>6, <1>7 DEF TextInv, MessagesReadBack

LEMMA TextInvStep == TextInv /\ [TextNext]_textVars => TextInv'
<1> SUFFICES ASSUME TextInv, [TextNext]_textVars PROVE TextInv'
  OBVIOUS
<1>1. ASSUME NEW s \in Subjects, NEW b \in Bodies, Mail(s, b)
      PROVE  TextInv'
  <2>1. mailed' \in Seq(Bodies) /\ mbox' \in Seq(SpoolLine) /\ Ranked(mbox)' /\ SpoolReadsBack'
    BY <1>1, RecordStep
  <2>2. embed' = embed /\ posted' = posted
    BY <1>1 DEF Mail
  <2>3. EmbedIsComplete'
    BY <2>2 DEF EmbedIsComplete, TextInv, MessagesReadBack
  <2> QED BY <2>1, <2>3 DEF TextInv, MessagesReadBack
<1>2. ASSUME NEW jobs \in 0 .. MaxJobs, NEW collapse \in BOOLEAN, NEW text \in Rendered,
             NEW name \in Rendered, NEW value \in Rendered, Post(jobs, collapse, text, name, value)
      PROVE  TextInv'
  <2>1. EmbedIsComplete'
    BY <1>2, PostStep, TextAssumption
  <2>2. mailed' = mailed /\ mbox' = mbox
    BY <1>2 DEF Post
  <2>3. SpoolReadsBack' /\ Ranked(mbox)'
    BY <2>2 DEF SpoolReadsBack, TextInv, MessagesReadBack
  <2> QED BY <2>1, <2>2, <2>3 DEF TextInv, MessagesReadBack
<1>3. CASE UNCHANGED textVars
  <2>1. mailed' = mailed /\ mbox' = mbox /\ embed' = embed /\ posted' = posted
    BY <1>3 DEF textVars
  <2> QED BY <2>1 DEF TextInv, MessagesReadBack, SpoolReadsBack, EmbedIsComplete
<1> QED BY <1>1, <1>2, <1>3 DEF TextNext, MailSome, PostSome

\* THEOREM.  Whatever subject and body the templates render, a reader of the mbox spool
\* finds the delivered mails and no others, and an embed tells of every job of its run
\* once, with no part over the limit Discord has for it.
THEOREM MessagesCorrect == TextSpec => []MessagesReadBack
<1>1. TextInv => MessagesReadBack
  BY DEF TextInv
<1> QED BY <1>1, TextInvInit, TextInvStep, PTL DEF TextSpec

=============================================================================
