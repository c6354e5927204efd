----------------------------- MODULE MailSpool -----------------------------
(***************************************************************************)
(* LocalMailNotifier::on_run_complete for several notifiers that append to *)
(* one spool.  Each call is an async caller that waits, with a deadline    *)
(* and a cancellation, for a blocking helper thread that opens the spool,  *)
(* takes the flock, says so on a oneshot channel, writes, syncs and        *)
(* releases.  The helper cannot be cancelled: it goes on after its caller  *)
(* has given up.  A mail delivery agent takes the same lock.               *)
(***************************************************************************)
EXTENDS Integers, Sequences, FiniteSets

CONSTANTS
    Mailers,    \* local_mail notifiers, all with the same user
    Listening,  \* notifiers whose fire_on holds run_complete
    Agent,      \* the mail delivery agent
    Nothing     \* an absent value

ASSUME MailAssumption ==
    /\ Agent \notin Mailers /\ Nothing \notin Mailers \cup {Agent}
    /\ Nothing \notin {"Sent", "Transient", "Permanent"}

VARIABLES
    cancel,  \* the flow's CancellationToken
    caller,  \* where on_run_complete_inner of each notifier is
    result,  \* what it returned
    helper,  \* where write_with_lock of each notifier is
    fault,   \* what map_io_error makes of the io::Error it ended with
    phase,   \* the oneshot channel: open, signalled, dropped
    holder,  \* who holds the flock
    spool,   \* the fragments in /var/mail/<user>
    synced   \* how many of them an fsync has covered

mailVars == <<caller, result, helper, fault, phase, holder, spool, synced>>

CallerPoints == {"idle", "await", "polled", "join", "done"}
HelperPoints == {"idle", "open", "lock", "signal", "head", "tail", "sync", "unlock", "ok", "err"}
Results == {"Sent", "Skipped", "Transient", "Permanent"}

\* io::ErrorKind or errno, as far as map_io_error tells them apart.
PermanentIo == {"NotFound", "PermissionDenied", "ELOOP", "EISDIR", "EINVAL"}
IoErrors == PermanentIo \cup {"Other"}
MapIoError(e) == IF e \in PermanentIo THEN "Permanent" ELSE "Transient"

Fragment == [by : Mailers \cup {Agent}, part : {"head", "tail"}]

MailTypeOK ==
    /\ cancel \in BOOLEAN
    /\ caller \in [Mailers -> CallerPoints]
    /\ result \in [Mailers -> Results \cup {Nothing}]
    /\ helper \in [Mailers -> HelperPoints]
    /\ fault \in [Mailers -> {"Transient", "Permanent", Nothing}]
    /\ phase \in [Mailers -> {"open", "signalled", "dropped"}]
    /\ holder \in Mailers \cup {Agent, Nothing}
    /\ spool \in Seq(Fragment)
    /\ synced \in 0..Len(spool)

MailInit ==
    /\ cancel = FALSE
    /\ caller = [n \in Mailers |-> "idle"]
    /\ result = [n \in Mailers |-> Nothing]
    /\ helper = [n \in Mailers |-> "idle"]
    /\ fault = [n \in Mailers |-> Nothing]
    /\ phase = [n \in Mailers |-> "open"]
    /\ holder = Nothing
    /\ spool = <<>> /\ synced = 0

-----------------------------------------------------------------------------
(* The caller. *)

Return(n, r) ==
    /\ caller' = [caller EXCEPT ![n] = "done"]
    /\ result' = [result EXCEPT ![n] = r]

\* on_run_complete_inner up to spawn_blocking: fire_on, the cancellation that has
\* already happened, rendering and the body cap.
StartMail(n) ==
    /\ caller[n] = "idle"
    /\ \/ n \notin Listening /\ Return(n, "Skipped") /\ UNCHANGED helper
       \/ n \in Listening /\ cancel /\ Return(n, "Transient") /\ UNCHANGED helper
       \/ /\ n \in Listening /\ ~cancel
          /\ \/ Return(n, "Permanent") /\ UNCHANGED helper
             \/ /\ caller' = [caller EXCEPT ![n] = "await"]
                /\ helper' = [helper EXCEPT ![n] = "open"]
                /\ UNCHANGED result
    /\ UNCHANGED <<cancel, fault, phase, holder, spool, synced>>

\* A poll of the biased select looks at the channel first.  A poll that finds
\* nothing ready leaves no trace; one that goes on to give up is two steps, since
\* the helper runs on while it looks.
PollPhase(n) ==
    /\ caller[n] = "await"
    /\ caller' = [caller EXCEPT ![n] = IF phase[n] = "open" THEN "polled" ELSE "join"]
    /\ UNCHANGED <<cancel, result, helper, fault, phase, holder, spool, synced>>

\* LOCK_WAIT_DEADLINE has passed, or the flow was cancelled.
GiveUp(n) ==
    /\ caller[n] = "polled" /\ Return(n, "Transient")
    /\ UNCHANGED <<cancel, helper, fault, phase, holder, spool, synced>>

\* blocking.await: unbounded, the bytes have to finish.
JoinHelperEarly(n) ==
    /\ caller[n] = "join"
    /\ Return(n, IF helper[n] = "err" THEN fault[n] ELSE "Sent")
    /\ UNCHANGED <<cancel, helper, fault, phase, holder, spool, synced>>

JoinHelper(n) ==
    /\ caller[n] = "join" /\ helper[n] \in {"ok", "err"}
    /\ Return(n, IF helper[n] = "ok" THEN "Sent" ELSE fault[n])
    /\ UNCHANGED <<cancel, helper, fault, phase, holder, spool, synced>>

-----------------------------------------------------------------------------
(* The helper: write_with_lock. *)

\* An error drops the oneshot sender, and with it the guard and the file.
Fails(n, e) ==
    /\ helper' = [helper EXCEPT ![n] = "err"]
    /\ fault' = [fault EXCEPT ![n] = MapIoError(e)]
    /\ phase' = [phase EXCEPT ![n] = IF @ = "open" THEN "dropped" ELSE @]
    /\ holder' = IF holder = n THEN Nothing ELSE holder

Advance(n, from, to) == helper[n] = from /\ helper' = [helper EXCEPT ![n] = to]

OpenSpool(n) ==
    /\ \/ Advance(n, "open", "lock") /\ UNCHANGED <<fault, phase, holder>>
       \/ helper[n] = "open" /\ \E e \in IoErrors : Fails(n, e)
    /\ UNCHANGED <<cancel, caller, result, spool, synced>>

\* flock(LOCK_EX) blocks for as long as somebody else holds it, and may fail.
TakeLock(n) ==
    /\ \/ Advance(n, "lock", "signal") /\ holder = Nothing /\ holder' = n /\ UNCHANGED <<fault, phase>>
       \/ helper[n] = "lock" /\ \E e \in IoErrors : Fails(n, e)
    /\ UNCHANGED <<cancel, caller, result, spool, synced>>

\* phase_tx.send(()): ignored when the caller has gone.
SignalPhase(n) ==
    /\ Advance(n, "signal", "head") /\ phase' = [phase EXCEPT ![n] = "signalled"]
    /\ UNCHANGED <<cancel, caller, result, fault, holder, spool, synced>>

\* write_all may take several write(2) calls, and any of them may fail.
WriteSome(n) ==
    /\ \/ \E part \in {"head", "tail"} :
             /\ Advance(n, part, IF part = "head" THEN "tail" ELSE "sync")
             /\ spool' = Append(spool, [by |-> n, part |-> part])
             /\ UNCHANGED <<fault, phase, holder>>
       \/ helper[n] \in {"head", "tail"} /\ (\E e \in IoErrors : Fails(n, e)) /\ UNCHANGED spool
    /\ UNCHANGED <<cancel, caller, result, synced>>

SyncSpool(n) ==
    /\ \/ Advance(n, "sync", "unlock") /\ synced' = Len(spool) /\ UNCHANGED <<fault, phase, holder>>
       \/ helper[n] = "sync" /\ (\E e \in IoErrors : Fails(n, e)) /\ UNCHANGED synced
    /\ UNCHANGED <<cancel, caller, result, spool>>

Unlock(n) ==
    /\ Advance(n, "unlock", "ok") /\ holder' = Nothing
    /\ UNCHANGED <<cancel, caller, result, fault, phase, spool, synced>>

-----------------------------------------------------------------------------
(* The delivery agent: takes the lock, delivers a message or none, and may *)
(* keep the lock for as long as it likes.                                  *)

AgentTakes ==
    /\ holder = Nothing /\ holder' = Agent
    /\ UNCHANGED <<cancel, caller, result, helper, fault, phase, spool, synced>>

AgentDelivers ==
    /\ holder = Agent /\ \A i \in DOMAIN spool : spool[i].by # Agent
    /\ spool' = spool \o <<[by |-> Agent, part |-> "head"], [by |-> Agent, part |-> "tail"]>>
    /\ UNCHANGED <<cancel, caller, result, helper, fault, phase, holder, synced>>

AgentReleases ==
    /\ holder = Agent /\ holder' = Nothing
    /\ UNCHANGED <<cancel, caller, result, helper, fault, phase, spool, synced>>

CancelMail ==
    /\ ~cancel /\ cancel' = TRUE /\ UNCHANGED mailVars

CallerStep(n) == PollPhase(n) \/ GiveUp(n) \/ JoinHelper(n)
HelperStep(n) ==
    OpenSpool(n) \/ TakeLock(n) \/ SignalPhase(n) \/ WriteSome(n) \/ SyncSpool(n) \/ Unlock(n)
AgentStep == AgentTakes \/ AgentDelivers \/ AgentReleases

MailNext ==
    \/ \E n \in Mailers : StartMail(n) \/ CallerStep(n) \/ HelperStep(n)
    \/ AgentStep \/ CancelMail

MailSpec == MailInit /\ [][MailNext]_<<cancel, mailVars>>

-----------------------------------------------------------------------------
(* Properties. *)

\* A record is broken off in the spool only by a write of its own that failed: no
\* other notifier's and no other program's bytes get into it, although helpers go
\* on after their callers have left.
RecordsNotInterleaved ==
    \A i \in 1..(Len(spool) - 1) :
       (spool[i].part = "head" /\ spool[i + 1].by # spool[i].by) => helper[spool[i].by] = "err"

\* Sent is only ever reported for a record that is complete and synced.
SentIsDurable ==
    \A n \in Mailers : result[n] = "Sent" =>
       \E i \in 1..synced : spool[i] = [by |-> n, part |-> "tail"]

\* A permanent failure, which tells the operator to repair something, is final: no
\* helper is left that may yet write the message, and none that keeps the spool locked.
\* The spool is untouched if the helper never signalled its lock; a write or a sync
\* that is refused (EPERM, EINVAL) is reported the same way with bytes left behind.
PermanentIsFinal ==
    \A n \in Mailers : result[n] = "Permanent" =>
       /\ helper[n] \in {"idle", "err"} /\ holder # n
       /\ phase[n] # "signalled" => \A i \in DOMAIN spool : spool[i].by # n

\* The spool after any interleaving of callers that give up, helpers that go on, write
\* errors and a delivery agent: whole records, and results that are true of them.
SpoolIsSound == RecordsNotInterleaved /\ SentIsDurable /\ PermanentIsFinal

\* notifier.rs, on the biased select: cancel only wins when the lock is not yet
\* acquired and no bytes have been written.
CancelWinsBeforeLock ==
    [][\A n \in Mailers : (caller[n] = "polled" /\ caller'[n] = "done") =>
          helper[n] \in {"open", "lock", "err"}]_<<cancel, mailVars>>

=============================================================================
