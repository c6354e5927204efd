------------------------ MODULE GithubDispatchProofs ------------------------
(***************************************************************************)
(* One execute() keeps to its retry schedule, never posts before an        *)
(* announced reset, never dispatches twice by itself, never starts a scan  *)
(* after the drain deadline and never reports an unrelated run, for any    *)
(* schedule, any deadlines, any quota, any pages and any number of runs.   *)
(***************************************************************************)
EXTENDS GithubDispatch, SequenceTheorems, WellFoundedInduction, TLAPS

History == [failures : Nat, ambiguous : BOOLEAN, accepted : Nat, holdoff : Nat,
            sinceDrain : Nat, quota403 : BOOLEAN]

\* An answer of /rate_limit is there while it is being applied, and the page count
\* of a scan stays below its limit.
TypeInv ==
    /\ TypeOK
    /\ hist \in History
    /\ poller.pc = "apply" => poller.seen \in Quota
    /\ page < MaxPages

-----------------------------------------------------------------------------
(* The operators on errors, the snapshot and pages. *)

\* classify(): a status without quota headers is one of the error kinds, and a reset
\* it carries is one minute away.
LEMMA ClassifyType ==
  ASSUME NEW status \in Nat, NEW namesInput \in BOOLEAN
  PROVE  Classify(status, namesInput) \in GithubError
BY RateLimitAssumption
   DEF Classify, ClassifyStatus, Error, RateLimited, ResolveReset, GithubError,
       GithubErrorKind, PermanentKinds, TransientKinds

\* reclassify_403_via_snapshot: an error stays an error.
LEMMA ReclassifyType ==
  ASSUME NEW e \in GithubError, NEW s \in Snapshot
  PROVE  Reclassify403ViaSnapshot(e, s) \in GithubError
BY RateLimitAssumption
   DEF Reclassify403ViaSnapshot, RateLimited, ResolveReset, GithubError, Snapshot,
       GithubErrorKind, PermanentKinds, TransientKinds

\* RateLimitState::observe_headers and the failed poll keep the snapshot a snapshot.
LEMMA SnapshotType ==
  ASSUME NEW s \in Snapshot
  PROVE  /\ ClampPessimistic(s) \in Snapshot
         /\ Aged(s) \in Snapshot
         /\ \A q \in Quota :
               ObserveFull(IF q.open THEN 1 ELSE 0, q.reset) \in Snapshot
<1>1. ClampPessimistic(s) \in Snapshot
  BY RateLimitAssumption DEF ClampPessimistic, Snapshot
<1>2. Aged(s) \in Snapshot
  <2>1. Elapse(s.reset) \in {None} \cup 0..MaxReset
    BY RateLimitAssumption DEF Elapse, Snapshot
  <2>2. (IF s.age = None \/ s.age > 2 * PollInterval THEN s.age ELSE s.age + 1)
           \in {None} \cup 0..(2 * PollInterval + 1)
    BY RateLimitAssumption DEF Snapshot
  <2> QED
    BY <2>1, <2>2 DEF Aged, Snapshot
<1>3. \A q \in Quota :
        ObserveFull(IF q.open THEN 1 ELSE 0, q.reset) \in Snapshot
  BY RateLimitAssumption DEF ObserveFull, Snapshot, Quota
<1> QED
  BY <1>1, <1>2, <1>3

\* Observing the headers of a response to gcit's own request (observe_headers).
LEMMA HeadersType ==
  ASSUME snap \in Snapshot, quota \in Quota
  PROVE  ObserveHeaders(snap, Headers) \in Snapshot
BY RateLimitAssumption DEF ObserveHeaders, Headers, Snapshot, Quota

\* should_defer waits for no more than the longest reset.
LEMMA ShouldDeferType ==
  ASSUME NEW s \in Snapshot
  PROVE  ShouldDefer(s) \in 0..MaxReset
BY RateLimitAssumption DEF ShouldDefer, Snapshot

\* The delay of the next attempt: a number of ticks, at least the reset GitHub
\* announced, and none only when the schedule is used up (.adjust()).
LEMMA DelayBound ==
  ASSUME TypeOK, NEW e \in GithubError
  PROVE  LET d == Adjust(RetryAfter(e), NextDelay)
         IN  /\ d \in {None} \cup 0..MaxReset
             /\ e.kind = "RateLimited" => d # None /\ d >= e.reset
             /\ (e.kind # "RateLimited" /\ d # None) => tries < MaxAttempts
BY SMTT(30), RateLimitAssumption, DispatchAssumption
   DEF TypeOK, Adjust, RetryAfter, NextDelay, Larger, GithubError

\* A set of indices that is not empty has a least one.
LEMMA LeastIndex ==
  ASSUME NEW T, T \subseteq Nat, T # {}
  PROVE  Min(T) \in T
<1> DEFINE R == OpToRel(<, Nat)
<1>1. IsWellFoundedOn(R, Nat)
  BY NatLessThanWellFounded
<1>2. PICK x \in T : \A y \in T : <<y, x>> \notin R
  <2> HIDE DEF R
  <2> QED BY <1>1, WFMin
<1>3. \A y \in T : ~(y < x)
  BY <1>2 DEF OpToRel
<1>4. \A y \in T : x =< y
  BY <1>3
<1> QED
  BY <1>4 DEF Min

\* A page of the listing (list_runs_page) is a sequence of runs no longer than it.
LEMMA PageType ==
  ASSUME TypeOK, NEW n \in Nat \ {0}
  PROVE  /\ PageOf(n) \in Seq(Run)
         /\ Len(PageOf(n)) <= Len(runs)
<1> DEFINE m == (n - 1) * PageSize + 1
           k == Smaller(n * PageSize, Len(runs))
<1>1. Len(runs) \in Nat /\ runs \in Seq(Run)
  BY DEF TypeOK
<1>2. m \in Nat /\ m >= 1 /\ n * PageSize \in Nat
  <2>1. (n - 1) \in Nat /\ PageSize \in Nat
    BY DispatchAssumption
  <2>2. \A a, b \in Nat : a * b \in Nat
    OBVIOUS
  <2> QED
    BY <2>1, <2>2
<1>3. k \in Nat /\ k <= Len(runs)
  BY <1>1, <1>2 DEF Smaller
<1> HIDE DEF m, k
<1>4. SubSeq(runs, m, k) \in Seq(Run) /\ Len(SubSeq(runs, m, k)) <= Len(runs)
  BY <1>1, <1>2, <1>3, SubSeqProperties
<1> QED
  BY <1>4 DEF PageOf, m, k

\* The runs a page adds to the matches are matches of that page.
LEMMA MatchesType ==
  ASSUME TypeInv, NEW n, n = page + 1
  PROVE  MatchesIn(n, PageOf(n)) \subseteq Match
<1>1. n \in Nat \ {0} /\ n \in 1..MaxPages
  BY DispatchAssumption DEF TypeInv, TypeOK
<1>2. PageOf(n) \in Seq(Run) /\ Len(PageOf(n)) <= MaxRuns
  <2>1. PageOf(n) \in Seq(Run) /\ Len(PageOf(n)) <= Len(runs)
    BY <1>1, PageType DEF TypeInv
  <2> QED
    BY <2>1, DispatchAssumption DEF TypeInv, TypeOK
<1> DEFINE s == PageOf(n)
<1>3. ASSUME NEW i \in DOMAIN s
      PROVE  [page |-> n, index |-> i, id |-> s[i].id] \in Match
  <2>1. i \in 1..MaxRuns
    BY <1>2, <1>3, DispatchAssumption
  <2>2. s[i] \in Run
    BY <1>2, <1>3
  <2> QED
    BY <1>1, <2>1, <2>2 DEF Match, Run
<1> QED
  BY <1>3 DEF MatchesIn

\* The run the fallback takes from a page is one of the listing, with the commit and an
\* age the dispatch allows.
LEMMA CandidateRun ==
  ASSUME TypeOK, NEW n, Candidates(ShaPage(n)) # {}
  PROVE  LET i == Min(Candidates(ShaPage(n)))
         IN  i \in DOMAIN runs /\ runs[i].id \in 1..MaxRuns /\ runs[i].sha /\ runs[i].fresh
<1> DEFINE places == Candidates(ShaPage(n))
           i == Min(places)
<1>1. /\ places \subseteq DOMAIN runs
      /\ \A j \in places : runs[j].sha /\ runs[j].fresh
  BY DEF Candidates, ShaPage
<1>2. runs \in Seq(Run) /\ DOMAIN runs \subseteq Nat
  BY DEF TypeOK
<1> HIDE DEF places
<1>3. i \in places
  BY <1>1, <1>2, LeastIndex DEF places
<1>4. i \in DOMAIN runs /\ runs[i].sha /\ runs[i].fresh
  BY <1>1, <1>3
<1> HIDE DEF i
<1>5. runs[i].id \in 1..MaxRuns
  <2>1. runs[i] \in Run
    BY <1>2, <1>4
  <2> QED
    BY <2>1 DEF Run
<1> QED
  BY <1>4, <1>5 DEF i, places

-----------------------------------------------------------------------------
(* Type correctness, action by action. *)

\* What the steps write into the history keeps its type.
LEMMA HistoryKept ==
  ASSUME hist \in History, answer \in GithubError,
         \/ PostAccepted \/ PostRefused \/ PostLost \/ Retry
         \/ LoopHead \/ ScanFails \/ Tick
  PROVE  hist' \in History
<1>1. CASE PostAccepted
  <2>1. \A n \in Nat :
           [hist EXCEPT !.accepted = n, !.holdoff = 0, !.failures = 0] \in History
    BY DEF History
  <2>2. hist.accepted + 1 \in Nat
    BY DEF History
  <2> QED
    BY <1>1, <2>1, <2>2 DEF PostAccepted
<1>2. CASE PostRefused
  <2>1. \A b \in BOOLEAN : [hist EXCEPT !.holdoff = 0, !.quota403 = b] \in History
    BY DEF History
  <2>2. (~quota.open) \in BOOLEAN
    OBVIOUS
  <2> QED
    BY <1>2, <2>1, <2>2 DEF PostRefused
<1>3. CASE PostLost
  <2>1. [hist EXCEPT !.holdoff = 0] \in History
    BY DEF History
  <2>2. \A n \in Nat :
           [hist EXCEPT !.accepted = n, !.ambiguous = TRUE, !.holdoff = 0] \in History
    BY DEF History
  <2>3. hist.accepted + 1 \in Nat
    BY DEF History
  <2> QED
    BY <1>3, <2>1, <2>2, <2>3 DEF PostLost
<1>4. CASE Retry
  <2> DEFINE f == IF answer.kind = "RateLimited" THEN hist.failures
                  ELSE Smaller(hist.failures + 1, MaxAttempts + 2)
             h == IF answer.kind = "RateLimited" THEN answer.reset ELSE 0
  <2>1. \A n, m \in Nat :
           [hist EXCEPT !.failures = n, !.holdoff = m, !.quota403 = FALSE] \in History
    BY DEF History
  <2>2. f \in Nat
    BY DispatchAssumption DEF Smaller, History
  <2>3. h \in Nat
    BY RateLimitAssumption DEF GithubError
  <2>4. hist' = [hist EXCEPT !.failures = f, !.holdoff = h, !.quota403 = FALSE]
    BY <1>4 DEF Retry
  <2> HIDE DEF f, h
  <2> QED
    BY <2>1, <2>2, <2>3, <2>4
<1>5. CASE LoopHead
  BY <1>5 DEF LoopHead, History
<1>6. CASE ScanFails
  <2>1. \A b \in BOOLEAN : [hist EXCEPT !.quota403 = b] \in History
    BY DEF History
  <2>2. (~quota.open) \in BOOLEAN
    OBVIOUS
  <2> QED
    BY <1>6, <2>1, <2>2 DEF ScanFails
<1>7. CASE Tick
  <2> DEFINE h == Less(hist.holdoff)
             s == IF drain = None \/ hist.sinceDrain > DrainTimeout THEN hist.sinceDrain
                  ELSE hist.sinceDrain + 1
  <2>1. \A n, m \in Nat : [hist EXCEPT !.holdoff = n, !.sinceDrain = m] \in History
    BY DEF History
  <2>2. h \in Nat /\ s \in Nat
    BY DEF Less, History
  <2>3. hist' = [hist EXCEPT !.holdoff = h, !.sinceDrain = s]
    BY <1>7 DEF Tick
  <2> HIDE DEF h, s
  <2> QED
    BY <2>1, <2>2, <2>3
<1> QED
  BY <1>1, <1>2, <1>3, <1>4, <1>5, <1>6, <1>7

\* The poller's own state: an answer of /rate_limit is there while it is being applied.
LEMMA PollerKept ==
  ASSUME poller \in PollerState, quota \in Quota,
         poller.pc = "apply" => poller.seen \in Quota,
         PollSend \/ PollApply \/ PollSleepEnds \/ Tick \/ PostAccepted
  PROVE  poller' \in PollerState /\ (poller'.pc = "apply" => poller'.seen \in Quota)
<1> USE RateLimitAssumption
<1>1. CASE PollSend
  BY <1>1 DEF PollSend, PollerState
<1>2. CASE PollApply
  BY <1>2 DEF PollApply, PollerState
<1>3. CASE PollSleepEnds
  <2>1. \A p \in {"stopped", "send"}, t \in 0..PollInterval :
           [poller EXCEPT !.pc = p, !.timer = t] \in PollerState
    BY DEF PollerState
  <2>2. [poller EXCEPT !.pc = "send"] \in PollerState /\ 0 \in 0..PollInterval
    BY DEF PollerState
  <2> QED
    BY <1>3, <2>1, <2>2 DEF PollSleepEnds, PollerState
<1>4. CASE Tick
  <2>1. \A t \in 0..PollInterval : [poller EXCEPT !.timer = t] \in PollerState
    BY DEF PollerState
  <2>2. Less(poller.timer) \in 0..PollInterval
    BY DEF Less, PollerState
  <2>3. poller' = [poller EXCEPT !.timer = Less(poller.timer)]
    BY <1>4 DEF Tick
  <2>4. poller'.pc = poller.pc /\ poller'.seen = poller.seen
    BY <2>3 DEF PollerState
  <2> QED
    BY <2>1, <2>2, <2>3, <2>4
<1>5. CASE PostAccepted
  BY <1>5 DEF PostAccepted, Parked, PollerState
<1> QED
  BY <1>1, <1>2, <1>3, <1>4, <1>5

\* A page that fails, fails with one of the error kinds.
LEMMA ScanErrorType ==
  ScanError \subseteq GithubError
<1>1. \A k \in GithubErrorKind : Error(k) \in GithubError
  BY RateLimitAssumption DEF Error, GithubError
<1>2. {"Unauthorized", "BodyTooLarge", "ServerError", "Timeout"} \subseteq GithubErrorKind
  BY DEF GithubErrorKind, PermanentKinds, TransientKinds
<1>3. Classify(403, FALSE) \in GithubError /\ Classify(429, FALSE) \in GithubError
  BY RateLimitAssumption
   DEF Classify, ClassifyStatus, Error, RateLimited, ResolveReset, GithubError,
       GithubErrorKind, PermanentKinds, TransientKinds
<1>4. {Error(k) : k \in {"Unauthorized", "BodyTooLarge", "ServerError", "Timeout"}}
         \subseteq GithubError
  BY <1>1, <1>2
<1> DEFINE a == Classify(403, FALSE)
           b == Classify(429, FALSE)
<1>5. a \in GithubError /\ b \in GithubError
  BY <1>3
<1>6. ScanError \subseteq
         {Error(k) : k \in {"Unauthorized", "BodyTooLarge", "ServerError", "Timeout"}}
            \cup {a, b}
  BY ZenonT(30) DEF ScanError
<1> HIDE DEF a, b
<1> QED
  BY <1>4, <1>5, <1>6

\* What the listing holds when it is first read.
LEMMA OlderRunsType ==
  OlderRuns \subseteq Seq(Run)
<1>1. [id : {1}, ours : {FALSE}, sha : BOOLEAN, fresh : BOOLEAN] \subseteq Run
  <2>1. {1} \subseteq 1..MaxRuns
    BY DispatchAssumption
  <2>2. {FALSE} \subseteq BOOLEAN
    OBVIOUS
  <2>3. \A A, B : A \subseteq 1..MaxRuns /\ B \subseteq BOOLEAN =>
           [id : A, ours : B, sha : BOOLEAN, fresh : BOOLEAN] \subseteq Run
    BY DEF Run
  <2> QED
    BY <2>1, <2>2, <2>3
<1>2. <<>> \in Seq(Run) /\ \A r \in Run : <<r>> \in Seq(Run)
  OBVIOUS
<1> QED
  BY <1>1, <1>2 DEF OlderRuns

\* The poller of /rate_limit.
LEMMA PollerType ==
  ASSUME TypeInv, PollerStep
  PROVE  TypeInv'
<1>1. poller' \in PollerState /\ (poller'.pc = "apply" => poller'.seen \in Quota)
  BY PollerKept DEF TypeInv, TypeOK, PollerStep
<1>2. snap' \in Snapshot
  <2>1. CASE PollApply
    BY <2>1, SnapshotType DEF PollApply, TypeInv, TypeOK
  <2> QED
    BY <2>1 DEF PollerStep, PollSend, PollSleepEnds, TypeInv, TypeOK
<1>3. UNCHANGED <<cancel, dispatchVars, correlateVars, outcome, githubVars, hist>>
  BY DEF PollerStep, PollSend, PollApply, PollSleepEnds
<1> QED
  BY <1>1, <1>2, <1>3 DEF TypeInv, TypeOK, dispatchVars, correlateVars, githubVars

\* dispatch(), up to the classified answer.
LEMMA DispatchType ==
  ASSUME TypeInv,
         Gate \/ DeferEnds \/ AcquireBucket \/ PostRefused \/ PostLost \/ ClassifyAnswer
           \/ BackoffEnds
  PROVE  TypeInv'
<1> USE DEF TypeInv, TypeOK, dispatchVars, correlateVars, githubVars, GatePoints
<1>1. CASE Gate
  BY <1>1, ShouldDeferType DEF Gate
<1>2. CASE DeferEnds
  <2>1. Error("Cancelled") \in GithubError
    BY RateLimitAssumption DEF Error, GithubError, GithubErrorKind, PermanentKinds
  <2> QED
    BY <1>2, <2>1 DEF DeferEnds
<1>3. CASE AcquireBucket
  BY <1>3 DEF AcquireBucket
<1>4. CASE PostRefused
  <2>1. answer' \in GithubError
    <3>1. PICK status \in RefusalStatuses \cup {403, 429}, namesInput \in BOOLEAN :
             answer' = Classify(status, namesInput)
      BY <1>4 DEF PostRefused
    <3>2. status \in Nat
      BY DEF RefusalStatuses
    <3> QED
      BY <3>1, <3>2, ClassifyType
  <2>2. hist' \in History
    BY <1>4, HistoryKept
  <2>3. snap' \in Snapshot
    BY <1>4, HeadersType DEF PostRefused
  <2> QED
    BY <1>4, <2>1, <2>2, <2>3 DEF PostRefused
<1>5. CASE PostLost
  <2>1. answer' \in GithubError
    BY <1>5, RateLimitAssumption
       DEF PostLost, Error, GithubError, GithubErrorKind, TransientKinds
  <2>2. hist' \in History
    BY <1>5, HistoryKept
  <2>3. unlisted' \in 0..MaxRuns /\ Len(runs) + unlisted' <= MaxRuns
    BY SMTT(30), <1>5, DispatchAssumption DEF PostLost, Accept
  <2> QED
    BY <1>5, <2>1, <2>2, <2>3 DEF PostLost
<1>6. CASE ClassifyAnswer
  BY <1>6, ReclassifyType DEF ClassifyAnswer
<1>7. CASE BackoffEnds
  BY <1>7 DEF BackoffEnds
<1> QED
  BY <1>1, <1>2, <1>3, <1>4, <1>5, <1>6, <1>7

\* The accepted post: the listing is read for the first time.
LEMMA AcceptedType ==
  ASSUME TypeInv, PostAccepted
  PROVE  TypeInv'
<1> USE DEF TypeInv, TypeOK, dispatchVars, correlateVars, githubVars
<1>1. runs' \in Seq(Run) /\ Len(runs') + unlisted' <= MaxRuns /\ unlisted' \in 0..MaxRuns
  <2>1. unlisted' \in 0..MaxRuns /\ Len(runs') + unlisted' <= MaxRuns /\ runs' \in OlderRuns
    BY SMTT(30), DispatchAssumption DEF PostAccepted, Accept
  <2> QED
    BY <2>1, OlderRunsType
<1>2. hist' \in History
  BY HistoryKept
<1>3. snap' \in Snapshot
  BY HeadersType DEF PostAccepted
<1>4. poller' \in PollerState /\ (poller'.pc = "apply" => poller'.seen \in Quota)
  BY PollerKept
<1> QED
  BY SMTT(30), <1>1, <1>2, <1>3, <1>4, DispatchAssumption DEF PostAccepted, ScanPoints

\* The retry decision.
LEMMA RetryType ==
  ASSUME TypeInv, Retry
  PROVE  TypeInv'
<1> USE DEF TypeInv, TypeOK, correlateVars, githubVars
<1> DEFINE delay == Adjust(RetryAfter(answer), NextDelay)
<1>1. delay \in {None} \cup 0..MaxReset
  BY DelayBound
<1> HIDE DEF delay
<1>2. answer' \in GithubError
  BY RateLimitAssumption
     DEF Retry, NoError, Error, GithubError, GithubErrorKind, TransientKinds
<1>3. hist' \in History
  BY HistoryKept
<1>4. timer' \in 0..MaxReset /\ tries' \in 0..MaxAttempts + 1
  BY SMTT(30), <1>1, DispatchAssumption DEF Retry, delay
<1>5. pc' \in GatePoints \cup {"done"} /\ outcome' \in Outcomes
  BY DEF Retry, Finish, Outcomes, GithubError, GatePoints
<1> QED
  BY <1>2, <1>3, <1>4, <1>5 DEF Retry

\* The deadlines are numbers of ticks.
LEMMA DeadlineType ==
  ASSUME TypeOK
  PROVE  /\ EffectiveDeadline \in Nat
         /\ DrainOnset \in 0..DrainTimeout
         /\ Smaller(1, EffectiveDeadline) \in 0..MaxReset
<1>1. DrainOnset \in 0..DrainTimeout
  BY DispatchAssumption DEF TypeOK, DrainOnset
<1>2. EffectiveDeadline \in Nat
  BY <1>1, DispatchAssumption DEF TypeOK, EffectiveDeadline, Smaller
<1>3. Smaller(1, EffectiveDeadline) \in 0..MaxReset
  BY <1>2, RateLimitAssumption DEF Smaller
<1> QED
  BY <1>1, <1>2, <1>3

\* correlate().
LEMMA CorrelateType ==
  ASSUME TypeInv, CorrelateStep
  PROVE  TypeInv'
<1> USE DEF TypeInv, TypeOK, correlateVars, githubVars
<1>1. CASE LoopHead
  <2>1. drain' \in {None} \cup 0..DrainTimeout
    BY <1>1, DeadlineType DEF LoopHead
  <2>2. hist' \in History
    BY <1>1, HistoryKept
  <2>3. outcome' \in Outcomes
    BY <1>1 DEF LoopHead, Finish, Outcomes
  <2> QED
    BY <1>1, <2>1, <2>2, <2>3, DispatchAssumption DEF LoopHead, Finish, ScanPoints
<1>2. CASE ScanNamePage
  <2>1. PICK n : n = page + 1
    OBVIOUS
  <2> DEFINE found == matches \cup MatchesIn(n, PageOf(n))
             last == n >= MaxPages \/ ~HasNext(n)
  <2>2. found \subseteq Match
    BY <2>1, MatchesType
  <2> HIDE DEF found
  <2>3. /\ page' = (IF last THEN 0 ELSE n)
        /\ matches' = (IF last THEN {} ELSE found)
        /\ \/ ~last /\ UNCHANGED <<pc, outcome>>
           \/ last /\ found = {} /\ pc' = "fallback" /\ UNCHANGED outcome
           \/ last /\ \E m \in found : found = {m} /\ Finish("Success", m.id)
           \/ last /\ (\E m, k \in found : m # k) /\ Finish("DuplicateMatch", None)
    BY <1>2, <2>1 DEF ScanNamePage, found
  <2>4. page' \in 0..MaxPages /\ page' < MaxPages /\ matches' \subseteq Match
    BY <2>1, <2>2, <2>3, DispatchAssumption
  <2>5. outcome' \in Outcomes /\ pc' \in ScanPoints \cup {"done"}
    BY <1>2, <2>2, <2>3 DEF ScanNamePage, Finish, Outcomes, Match, ScanPoints
  <2>6. snap' \in Snapshot
    BY <1>2, HeadersType DEF ScanNamePage
  <2> QED
    BY <1>2, <2>4, <2>5, <2>6 DEF ScanNamePage
<1>3. CASE ScanFallbackPage
  <2>1. PICK n : n = page + 1
    OBVIOUS
  <2> DEFINE eligible == Candidates(ShaPage(n))
             best == IF newest = None /\ eligible # {} THEN runs[Min(eligible)].id
                     ELSE newest
             last == n >= MaxPages \/ ~ShaHasNext(n)
  <2>2. best \in {None} \cup 1..MaxRuns
    BY CandidateRun
  <2> HIDE DEF best, eligible
  <2>3. /\ page' = (IF last THEN 0 ELSE n)
        /\ newest' = (IF last THEN None ELSE best)
        /\ \/ ~last /\ UNCHANGED <<pc, outcome>>
           \/ last /\ best = None /\ pc' = "sleep" /\ UNCHANGED outcome
           \/ last /\ best # None /\ Finish("Success", best)
    BY <1>3, <2>1 DEF ScanFallbackPage, best, eligible
  <2>4. page' \in 0..MaxPages /\ page' < MaxPages /\ newest' \in {None} \cup 1..MaxRuns
    BY <2>1, <2>2, <2>3, DispatchAssumption
  <2>5. outcome' \in Outcomes /\ pc' \in ScanPoints \cup {"done"}
    BY <1>3, <2>2, <2>3 DEF ScanFallbackPage, Finish, Outcomes, ScanPoints
  <2>6. snap' \in Snapshot
    BY <1>3, HeadersType DEF ScanFallbackPage
  <2>7. timer' \in 0..MaxReset
    BY <1>3, DeadlineType DEF ScanFallbackPage
  <2> QED
    BY <1>3, <2>4, <2>5, <2>6, <2>7 DEF ScanFallbackPage
<1>4. CASE ScanFails
  <2>1. hist' \in History
    BY <1>4, HistoryKept
  <2>2. ScanError \subseteq GithubError
    BY ScanErrorType
  <2>3. outcome' \in Outcomes /\ pc' \in ScanPoints \cup {"done"}
    BY <1>4, <2>2 DEF ScanFails, Finish, Outcomes, GithubError, ScanPoints
  <2>4. timer' \in 0..MaxReset
    BY <1>4, DeadlineType DEF ScanFails
  <2> QED
    BY <1>4, <2>1, <2>3, <2>4, DispatchAssumption DEF ScanFails
<1>5. CASE ScanSleepEnds
  BY <1>5, RateLimitAssumption DEF ScanSleepEnds, ScanPoints
<1> QED
  BY <1>1, <1>2, <1>3, <1>4, <1>5 DEF CorrelateStep

\* One tick: every countdown stays in its range.
LEMMA TickType ==
  ASSUME TypeInv, Tick
  PROVE  TypeInv'
<1>1. \A n \in Nat : \A m \in 0..n : Less(m) \in 0..n
  BY DEF Less
<1>2. snap' \in Snapshot
  BY SnapshotType DEF Tick, TypeInv, TypeOK
<1>3. poller' \in PollerState /\ (poller'.pc = "apply" => poller'.seen \in Quota)
  BY PollerKept DEF TypeInv, TypeOK
<1>4. timer' \in 0..MaxReset
  BY <1>1, RateLimitAssumption DEF Tick, TypeInv, TypeOK
<1>5. deadline' \in 0..NormalTimeout
  BY <1>1, DispatchAssumption DEF Tick, TypeInv, TypeOK
<1>6. answer' \in GithubError
  <2>1. answer \in GithubError /\ answer' = [answer EXCEPT !.reset = Less(answer.reset)]
    BY DEF Tick, TypeInv, TypeOK
  <2>2. Less(answer.reset) \in 0..MaxReset
    BY <1>1, <2>1, RateLimitAssumption DEF GithubError
  <2> QED
    BY <2>1, <2>2 DEF GithubError
<1>7. drain' \in {None} \cup 0..DrainTimeout
  <2>1. drain \in {None} \cup 0..DrainTimeout /\ drain' = Elapse(drain)
    BY DEF Tick, TypeInv, TypeOK
  <2> QED
    BY <2>1, RateLimitAssumption, DispatchAssumption DEF Elapse
<1>8. quota' \in Quota
  <2>1. quota \in Quota
    BY DEF TypeInv, TypeOK
  <2>2. \/ quota' = [open |-> TRUE, reset |-> MaxReset]
        \/ quota.reset # 0 /\ quota' = [quota EXCEPT !.reset = quota.reset - 1]
    BY DEF Tick
  <2>3. \A n \in 0..MaxReset : [quota EXCEPT !.reset = n] \in Quota
    BY <2>1 DEF Quota
  <2>4. quota.reset # 0 => quota.reset - 1 \in 0..MaxReset
    BY <2>1, RateLimitAssumption DEF Quota
  <2>5. [open |-> TRUE, reset |-> MaxReset] \in Quota
    BY RateLimitAssumption DEF Quota
  <2> QED
    BY <2>2, <2>3, <2>4, <2>5
<1>9. hist' \in History
  BY HistoryKept DEF TypeInv, TypeOK
<1>10. UNCHANGED <<cancel, pc, tries, page, matches, newest, outcome, named, runs, unlisted>>
  BY DEF Tick
<1> QED
  BY <1>2, <1>3, <1>4, <1>5, <1>6, <1>7, <1>8, <1>9, <1>10 DEF TypeInv, TypeOK

\* GitHub, the cancellation and time.
LEMMA EnvironmentType ==
  ASSUME TypeInv, Environment
  PROVE  TypeInv'
<1> USE DEF TypeInv, TypeOK, dispatchVars, correlateVars, githubVars
<1>1. ASSUME NEW r \in Run, AddRun(r)
      PROVE  runs' \in Seq(Run) /\ Len(runs') = Len(runs) + 1
  BY <1>1 DEF AddRun
<1>2. CASE RunListed
  <2>1. PICK sha \in BOOLEAN, fresh \in BOOLEAN :
          AddRun([id |-> Len(runs) + 1, ours |-> TRUE, sha |-> sha, fresh |-> fresh])
    BY <1>2 DEF RunListed
  <2>2. [id |-> Len(runs) + 1, ours |-> TRUE, sha |-> sha, fresh |-> fresh] \in Run
    BY <1>2, DispatchAssumption DEF RunListed, Run
  <2>3. runs' \in Seq(Run) /\ Len(runs') = Len(runs) + 1
    BY <1>1, <2>1, <2>2
  <2>4. unlisted' \in 0..MaxRuns /\ Len(runs') + unlisted' <= MaxRuns
    BY <1>2, <2>3, DispatchAssumption DEF RunListed
  <2> QED
    BY <1>2, <2>3, <2>4 DEF RunListed
<1>3. CASE OtherRunListed
  <2>1. PICK sha \in BOOLEAN :
          AddRun([id |-> Len(runs) + 1, ours |-> FALSE, sha |-> sha, fresh |-> TRUE])
    BY <1>3 DEF OtherRunListed
  <2>2. [id |-> Len(runs) + 1, ours |-> FALSE, sha |-> sha, fresh |-> TRUE] \in Run
    BY <1>3, DispatchAssumption DEF OtherRunListed, Run
  <2>3. runs' \in Seq(Run) /\ Len(runs') = Len(runs) + 1
    BY <1>1, <2>1, <2>2
  <2>4. Len(runs') + unlisted' <= MaxRuns
    BY <1>3, <2>3, DispatchAssumption DEF OtherRunListed
  <2> QED
    BY <1>3, <2>3, <2>4 DEF OtherRunListed
<1>4. CASE QuotaSpent
  <2>1. quota' \in Quota
    BY <1>4 DEF QuotaSpent, Quota
  <2> QED
    BY <1>4, <2>1 DEF QuotaSpent
<1>5. CASE Cancel
  BY <1>5 DEF Cancel
<1>6. CASE Tick
  BY <1>6, TickType
<1> QED
  BY <1>2, <1>3, <1>4, <1>5, <1>6 DEF Environment

\* Every step keeps the types.
LEMMA NextType == TypeInv /\ [Next]_vars => TypeInv'
<1> SUFFICES ASSUME TypeInv, [Next]_vars PROVE TypeInv'
  OBVIOUS
<1>1. CASE DispatchStep \/ ClassifyAnswer
  BY <1>1, DispatchType, AcceptedType, RetryType DEF DispatchStep
<1>2. CASE CorrelateStep
  BY <1>2, CorrelateType
<1>3. CASE PollerStep
  BY <1>3, PollerType
<1>4. CASE Environment
  BY <1>4, EnvironmentType
<1>5. CASE UNCHANGED vars
  BY <1>5 DEF vars, dispatchVars, correlateVars, githubVars, TypeInv, TypeOK
<1> QED
  BY <1>1, <1>2, <1>3, <1>4, <1>5 DEF Next

LEMMA InitType == Init => TypeInv
<1> SUFFICES ASSUME Init PROVE TypeInv
  OBVIOUS
<1>1. snap \in Snapshot
  BY RateLimitAssumption DEF Init, NewSnapshot, Snapshot
<1>2. poller \in PollerState /\ poller.pc # "apply"
  BY RateLimitAssumption DEF Init, PollerState
<1>3. answer \in GithubError
  BY RateLimitAssumption
     DEF Init, NoError, Error, GithubError, GithubErrorKind, TransientKinds
<1>4. outcome \in Outcomes
  BY DEF Init, Pending, Outcomes
<1>5. quota \in Quota
  BY RateLimitAssumption DEF Init, Quota
<1>6. hist \in History
  BY DEF Init, History
<1>7. runs \in Seq(Run) /\ Len(runs) = 0
  BY DEF Init
<1>8. /\ timer \in 0..MaxReset /\ tries \in 0..MaxAttempts + 1
      /\ deadline \in 0..NormalTimeout /\ page \in 0..MaxPages /\ page < MaxPages
      /\ unlisted = 0 /\ unlisted \in 0..MaxRuns
  BY RateLimitAssumption, DispatchAssumption DEF Init
<1>9. Len(runs) + unlisted <= MaxRuns
  BY <1>7, <1>8, DispatchAssumption
<1>10. pc \in GatePoints /\ cancel \in BOOLEAN /\ named \in BOOLEAN /\ drain = None
       /\ newest = None /\ matches \subseteq Match
  BY DEF Init, GatePoints
<1> QED
  BY <1>1, <1>2, <1>3, <1>4, <1>5, <1>6, <1>7, <1>8, <1>9, <1>10 DEF TypeInv, TypeOK

-----------------------------------------------------------------------------
(* The retry schedule. *)

\* Every counted failure has used up a delay of the schedule, which .adjust() overrides
\* only for rate-limited answers.
BudgetInv ==
    /\ pc # "done" => hist.failures <= tries /\ hist.failures <= MaxAttempts
    /\ hist.failures <= MaxAttempts + 1

\* An announced reset still to come is spent in the backoff sleep.
HoldoffInv ==
    /\ pc \in GatePoints \ {"backoff"} => hist.holdoff = 0
    /\ pc = "backoff" => hist.holdoff <= timer

\* The steps that touch neither the schedule nor the history.
LEMMA ScheduleKept ==
  ASSUME TypeInv, BudgetInv, HoldoffInv,
         UNCHANGED <<tries, hist>>,
         \/ UNCHANGED <<pc, timer>>
         \/ pc' \in GatePoints \ {"backoff"} /\ pc \in GatePoints \ {"backoff"}
         \/ pc' \in GatePoints \ {"backoff"} /\ pc = "backoff" /\ timer = 0
         \/ pc' \in ScanPoints \cup {"done"} /\ pc \in ScanPoints
  PROVE  BudgetInv' /\ HoldoffInv'
BY DEF TypeInv, TypeOK, BudgetInv, HoldoffInv, GatePoints, ScanPoints, History

\* The retry decision: a delay of the schedule is used up for each counted failure, and
\* the backoff covers the announced reset (dispatch_with_retry).
LEMMA RetryKeepsSchedule ==
  ASSUME TypeInv, BudgetInv, Retry
  PROVE  BudgetInv' /\ HoldoffInv'
<1> DEFINE d == Adjust(RetryAfter(answer), NextDelay)
           f == IF answer.kind = "RateLimited" THEN hist.failures
                ELSE Smaller(hist.failures + 1, MaxAttempts + 2)
           h == IF answer.kind = "RateLimited" THEN answer.reset ELSE 0
<1>1. /\ d \in {None} \cup 0..MaxReset
      /\ answer.kind = "RateLimited" => d # None /\ d >= answer.reset
      /\ (answer.kind # "RateLimited" /\ d # None) => tries < MaxAttempts
  BY DelayBound DEF TypeInv, TypeOK
<1>2. hist.failures \in Nat /\ tries \in Nat /\ answer.reset \in Nat
  BY RateLimitAssumption, DispatchAssumption DEF TypeInv, TypeOK, History, GithubError
<1>3. hist.failures <= tries /\ hist.failures <= MaxAttempts
  BY DEF Retry, BudgetInv
<1>4. hist'.failures = f /\ hist'.holdoff = h
  <2>1. hist \in History
    BY DEF TypeInv
  <2>2. hist' = [hist EXCEPT !.failures = f, !.holdoff = h, !.quota403 = FALSE]
    BY DEF Retry
  <2> HIDE DEF f, h
  <2> QED
    BY <2>1, <2>2 DEF History
<1>5. \/ pc' = "done"
      \/ /\ d # None /\ pc' = "backoff" /\ timer' = d
         /\ tries' = IF tries > MaxAttempts THEN tries ELSE tries + 1
  BY DEF Retry, Finish
<1> HIDE DEF d
<1>6. f \in Nat /\ f <= hist.failures + 1
  BY <1>2, DispatchAssumption DEF Smaller
<1>7. CASE pc' = "done"
  BY <1>2, <1>3, <1>4, <1>6, <1>7, DispatchAssumption DEF BudgetInv, HoldoffInv, GatePoints
<1>8. CASE /\ d # None /\ pc' = "backoff" /\ timer' = d
           /\ tries' = IF tries > MaxAttempts THEN tries ELSE tries + 1
  <2>1. h <= timer'
    BY <1>1, <1>2, <1>8, RateLimitAssumption
  <2>2. f <= tries' /\ f <= MaxAttempts
    BY <1>1, <1>2, <1>3, <1>6, <1>8, DispatchAssumption
  <2> QED
    BY <1>4, <1>6, <1>8, <2>1, <2>2, DispatchAssumption DEF BudgetInv, HoldoffInv, GatePoints
<1> QED
  BY <1>5, <1>7, <1>8

LEMMA NextSchedule ==
  ASSUME TypeInv, BudgetInv, HoldoffInv, [Next]_vars
  PROVE  BudgetInv' /\ HoldoffInv'
<1>1. CASE Gate \/ DeferEnds \/ AcquireBucket \/ ClassifyAnswer \/ BackoffEnds
  BY <1>1, ScheduleKept
     DEF Gate, DeferEnds, AcquireBucket, ClassifyAnswer, BackoffEnds, GatePoints
<1>2. CASE PostAccepted
  <2>1. hist'.failures = 0 /\ tries' = 0 /\ pc' = "head"
    BY <1>2 DEF PostAccepted, TypeInv, History
  <2> QED
    BY <2>1, DispatchAssumption DEF BudgetInv, HoldoffInv, GatePoints
<1>3. CASE PostRefused \/ PostLost
  <2>1. hist'.failures = hist.failures /\ hist'.holdoff = 0
    <3>1. CASE PostRefused
      BY <3>1 DEF PostRefused, TypeInv, History
    <3>2. CASE PostLost
      BY <3>2 DEF PostLost, TypeInv, History
    <3> QED
      BY <1>3, <3>1, <3>2
  <2>2. UNCHANGED tries /\ pc # "done" /\ pc' \in GatePoints \ {"backoff"}
    BY <1>3 DEF PostRefused, PostLost, GatePoints
  <2> QED
    BY <2>1, <2>2 DEF BudgetInv, HoldoffInv, GatePoints
<1>4. CASE Retry
  BY <1>4, RetryKeepsSchedule
<1>5. CASE CorrelateStep
  <2>1. hist'.failures = hist.failures /\ UNCHANGED tries /\ pc # "done"
    BY <1>5 DEF CorrelateStep, LoopHead, ScanNamePage, ScanFallbackPage, ScanFails,
                ScanSleepEnds, TypeInv, History
  <2>2. pc' \in ScanPoints \cup {"done"}
    BY <1>5 DEF CorrelateStep, LoopHead, ScanNamePage, ScanFallbackPage, ScanFails,
                ScanSleepEnds, Finish, ScanPoints
  <2> QED
    BY <2>1, <2>2 DEF BudgetInv, HoldoffInv, GatePoints, ScanPoints
<1>6. CASE PollerStep \/ RunListed \/ OtherRunListed \/ QuotaSpent \/ Cancel
  BY <1>6, ScheduleKept
     DEF PollerStep, PollSend, PollApply, PollSleepEnds, RunListed, OtherRunListed,
         QuotaSpent, Cancel, dispatchVars
<1>7. CASE Tick
  <2>1. hist'.failures = hist.failures /\ hist'.holdoff = Less(hist.holdoff)
        /\ UNCHANGED <<tries, pc>> /\ timer' = Less(timer)
    BY <1>7 DEF Tick, TypeInv, History
  <2>2. hist.holdoff \in Nat /\ timer \in Nat
    BY DEF TypeInv, TypeOK, History
  <2> QED
    BY <2>1, <2>2 DEF BudgetInv, HoldoffInv, Less
<1>8. CASE UNCHANGED vars
  BY <1>8, ScheduleKept DEF vars, dispatchVars
<1> QED
  BY <1>1, <1>2, <1>3, <1>4, <1>5, <1>6, <1>7, <1>8 DEF Next, DispatchStep, Environment

\* The retry loop keeps to its schedule for any schedule and any quota: at most one
\* failure more than it has delays, and no post before the reset of a rate-limited
\* answer (dispatch_with_retry, its .adjust() and the sleeps between the attempts).
THEOREM RetryCorrect == Spec => []RetryDiscipline
<1>1. Init => BudgetInv /\ HoldoffInv
  BY DispatchAssumption DEF Init, BudgetInv, HoldoffInv
<1>2. TypeInv /\ BudgetInv /\ HoldoffInv /\ [Next]_vars => BudgetInv' /\ HoldoffInv'
  BY NextSchedule
<1>3. TypeInv /\ BudgetInv /\ HoldoffInv => RetryDiscipline
  BY DEF TypeInv, BudgetInv, HoldoffInv, RetryDiscipline, RetryBudget, NoPostBeforeReset,
         GatePoints
<1> QED
  BY <1>1, <1>2, <1>3, InitType, NextType, PTL DEF Spec

-----------------------------------------------------------------------------
(* Duplicate runs. *)

\* While the retry loop runs, no answer but a lost one hid an accepted post.
DuplicateInv ==
    ~hist.ambiguous => /\ pc \in GatePoints => hist.accepted = 0
                       /\ hist.accepted <= 1

LEMMA NextDuplicate ==
  ASSUME TypeInv, DuplicateInv, [Next]_vars
  PROVE  DuplicateInv'
<1> USE DEF DuplicateInv, GatePoints
<1>1. CASE PostAccepted
  <2>1. /\ hist'.accepted = hist.accepted + 1 /\ hist'.ambiguous = hist.ambiguous
        /\ pc = "post" /\ pc' = "head" /\ hist.accepted \in Nat
    BY <1>1 DEF PostAccepted, TypeInv, History
  <2> QED
    BY <2>1
<1>2. CASE PostLost
  <2>1. \/ hist'.ambiguous = TRUE
        \/ hist'.accepted = hist.accepted /\ hist'.ambiguous = hist.ambiguous
    BY <1>2 DEF PostLost, TypeInv, History
  <2> QED
    BY <1>2, <2>1 DEF PostLost
<1>3. CASE PostRefused \/ Retry
  <2>1. hist'.accepted = hist.accepted /\ hist'.ambiguous = hist.ambiguous
    BY ZenonT(30), <1>3 DEF PostRefused, Retry, TypeInv, History
  <2> QED
    BY <1>3, <2>1 DEF PostRefused, Retry
<1>4. CASE Gate \/ DeferEnds \/ AcquireBucket \/ ClassifyAnswer \/ BackoffEnds
  BY <1>4 DEF Gate, DeferEnds, AcquireBucket, ClassifyAnswer, BackoffEnds
<1>5. CASE CorrelateStep
  <2>1. hist'.accepted = hist.accepted /\ hist'.ambiguous = hist.ambiguous
    BY <1>5 DEF CorrelateStep, LoopHead, ScanNamePage, ScanFallbackPage, ScanFails,
                ScanSleepEnds, TypeInv, History
  <2>2. pc' \notin GatePoints
    BY <1>5 DEF CorrelateStep, LoopHead, ScanNamePage, ScanFallbackPage, ScanFails,
                ScanSleepEnds, Finish
  <2> QED
    BY <2>1, <2>2
<1>6. CASE PollerStep \/ RunListed \/ OtherRunListed \/ QuotaSpent \/ Cancel
  BY <1>6 DEF PollerStep, PollSend, PollApply, PollSleepEnds, RunListed, OtherRunListed,
              QuotaSpent, Cancel, dispatchVars
<1>7. CASE Tick
  <2>1. hist'.accepted = hist.accepted /\ hist'.ambiguous = hist.ambiguous /\ UNCHANGED pc
    BY <1>7 DEF Tick, TypeInv, History
  <2> QED
    BY <2>1
<1>8. CASE UNCHANGED vars
  BY <1>8 DEF vars, dispatchVars
<1> QED
  BY <1>1, <1>2, <1>3, <1>4, <1>5, <1>6, <1>7, <1>8 DEF Next, DispatchStep, Environment

\* Whatever GitHub answers and however often execute() retries, a second run of one
\* trigger means that the answer to an accepted post was lost (dispatch_with_retry).
THEOREM DuplicateCorrect == Spec => []DuplicateRunsOnlyAfterAmbiguousPost
<1>1. Init => DuplicateInv
  BY DEF Init, DuplicateInv
<1>2. TypeInv /\ DuplicateInv /\ [Next]_vars => DuplicateInv'
  BY NextDuplicate
<1>3. TypeInv /\ DuplicateInv => DuplicateRunsOnlyAfterAmbiguousPost
  BY DEF DuplicateInv, DuplicateRunsOnlyAfterAmbiguousPost, TypeInv, History
<1> QED
  BY <1>1, <1>2, <1>3, InitType, NextType, PTL DEF Spec

-----------------------------------------------------------------------------
(* The drain deadline. *)

\* What is left of the drain and the time since its onset add up to no more than
\* DRAIN_TIMEOUT: the onset is captured once.
DrainInv == (drain # None /\ drain > 0) => hist.sinceDrain + drain <= DrainTimeout

LEMMA NextDrain ==
  ASSUME TypeInv, DrainInv, [Next]_vars
  PROVE  DrainInv'
<1> USE DEF DrainInv
<1>1. CASE PostAccepted
  BY <1>1 DEF PostAccepted
<1>2. CASE LoopHead
  <2>1. CASE cancel /\ drain = None
    <3>1. hist'.sinceDrain = 0 /\ drain' = DrainTimeout
      BY <1>2, <2>1 DEF LoopHead, DrainOnset, TypeInv, History
    <3> QED
      BY <3>1, DispatchAssumption
  <2>2. CASE ~(cancel /\ drain = None)
    <3>1. hist'.sinceDrain = hist.sinceDrain /\ drain' = drain
      BY <1>2, <2>2 DEF LoopHead, DrainOnset, TypeInv, History
    <3> QED
      BY <3>1
  <2> QED
    BY <2>1, <2>2
<1>3. CASE Tick
  <2>1. /\ drain' = Elapse(drain)
        /\ hist'.sinceDrain = IF drain = None \/ hist.sinceDrain > DrainTimeout
                              THEN hist.sinceDrain ELSE hist.sinceDrain + 1
    BY <1>3 DEF Tick, TypeInv, History
  <2>2. hist.sinceDrain \in Nat /\ drain \in {None} \cup 0..DrainTimeout
    BY DEF TypeInv, TypeOK, History
  <2> QED
    BY <2>1, <2>2, RateLimitAssumption, DispatchAssumption DEF Elapse
<1>4. CASE PostRefused \/ PostLost \/ Retry \/ ScanFails
  <2>1. UNCHANGED drain
    BY <1>4 DEF PostRefused, PostLost, Retry, ScanFails, correlateVars
  <2>2. hist'.sinceDrain = hist.sinceDrain
    <3>1. CASE PostRefused
      BY <3>1 DEF PostRefused, TypeInv, History
    <3>2. CASE PostLost
      BY <3>2 DEF PostLost, TypeInv, History
    <3>3. CASE Retry
      BY <3>3 DEF Retry, TypeInv, History
    <3>4. CASE ScanFails
      BY <3>4 DEF ScanFails, TypeInv, History
    <3> QED
      BY <1>4, <3>1, <3>2, <3>3, <3>4
  <2> QED
    BY <2>1, <2>2
<1>5. CASE \/ Gate \/ DeferEnds \/ AcquireBucket \/ ClassifyAnswer \/ BackoffEnds
           \/ ScanNamePage \/ ScanFallbackPage \/ ScanSleepEnds \/ PollerStep
           \/ RunListed \/ OtherRunListed \/ QuotaSpent \/ Cancel \/ UNCHANGED vars
  <2>1. UNCHANGED <<hist, drain>>
    BY <1>5 DEF Gate, DeferEnds, AcquireBucket, ClassifyAnswer, BackoffEnds, ScanNamePage,
                ScanFallbackPage, ScanSleepEnds, PollerStep, PollSend, PollApply,
                PollSleepEnds, RunListed, OtherRunListed, QuotaSpent, Cancel, correlateVars,
                vars
  <2> QED
    BY <2>1
<1> QED
  BY <1>1, <1>2, <1>3, <1>4, <1>5 DEF Next, DispatchStep, CorrelateStep, Environment

\* A scan starts only in the head of correlate()'s loop, and after a cancellation only
\* before the drain deadline.
LEMMA ScanStart ==
  ASSUME TypeInv, DrainInv, [Next]_vars, pc = "head", pc' = "name", cancel
  PROVE  hist'.sinceDrain < DrainTimeout
<1>1. LoopHead
  BY DEF Next, DispatchStep, CorrelateStep, Environment, PollerStep, Gate, DeferEnds,
         AcquireBucket, PostAccepted, PostRefused, PostLost, ClassifyAnswer, Retry,
         BackoffEnds, ScanNamePage, ScanFallbackPage, ScanFails, ScanSleepEnds, PollSend,
         PollApply, PollSleepEnds, RunListed, OtherRunListed, QuotaSpent, Cancel, Tick,
         vars, dispatchVars, GatePoints
<1>2. EffectiveDeadline # 0
  BY <1>1 DEF LoopHead, Finish
<1>3. drain \in {None} \cup 0..DrainTimeout /\ deadline \in Nat /\ hist.sinceDrain \in Nat
  BY DispatchAssumption DEF TypeInv, TypeOK, History
<1>4. DrainOnset # 0
  BY <1>2, <1>3, DispatchAssumption, RateLimitAssumption
     DEF EffectiveDeadline, DrainOnset, Smaller
<1>5. hist'.sinceDrain = IF drain = None THEN 0 ELSE hist.sinceDrain
  BY <1>1 DEF LoopHead, TypeInv, History
<1> QED
  BY <1>3, <1>4, <1>5, DispatchAssumption DEF DrainOnset, DrainInv

\* No scan starts DRAIN_TIMEOUT or more after the cancellation was seen, for any
\* deadlines and however long the scans take (correlate, compute_effective_deadline).
THEOREM DrainCorrect == Spec => DrainStopsScans
<1>1. Init => DrainInv
  BY DEF Init, DrainInv
<1>2. TypeInv /\ DrainInv /\ [Next]_vars => DrainInv'
  BY NextDrain
<1>3. TypeInv /\ DrainInv /\ [Next]_vars =>
         [(pc = "head" /\ pc' = "name" /\ cancel) => hist'.sinceDrain < DrainTimeout]_vars
  BY ScanStart
<1> QED
  BY <1>1, <1>2, <1>3, InitType, NextType, PTL DEF Spec, DrainStopsScans

-----------------------------------------------------------------------------
(* The correlated run. *)

\* The run of that id is listed, with the name of the dispatch.
NamedRun(id) == \E i \in DOMAIN runs : runs[i].id = id /\ NameMatches(runs[i])

\* The run of that id is listed, with its commit and young enough.
RecentRun(id) == \E i \in DOMAIN runs : runs[i].id = id /\ runs[i].sha /\ runs[i].fresh

\* What was read of the listing is still there: a match has its name, a candidate its
\* commit and age, and a place further down than the first means that there are two runs.
ScanInv ==
    /\ pc # "done" => outcome = Pending
    /\ pc # "name" => matches = {}
    /\ pc # "fallback" => newest = None
    /\ \A m \in matches : /\ NamedRun(m.id) /\ m.page <= page
                          /\ (m.page > 1 \/ m.index > 1) => Len(runs) > 1
    /\ \A m, k \in matches : m.page = k.page /\ m.index = k.index => m = k
    /\ newest # None => RecentRun(newest)
    /\ pc \in ScanPoints => hist.accepted > 0

CorrelateInv == ScanInv /\ CorrelatedRunIsPlausible

\* A page of the listing holds runs of it, and a second page means a second run.
LEMMA PageOfRuns ==
  ASSUME TypeOK, NEW n \in Nat \ {0}, NEW i \in DOMAIN PageOf(n)
  PROVE  /\ \E j \in DOMAIN runs : PageOf(n)[i] = runs[j]
         /\ i \in Nat \ {0} /\ i <= Len(runs)
         /\ n > 1 => Len(runs) > 1
<1> DEFINE m == (n - 1) * PageSize + 1
           k == Smaller(n * PageSize, Len(runs))
<1>1. Len(runs) \in Nat /\ runs \in Seq(Run) /\ DOMAIN runs = 1 .. Len(runs)
  BY DEF TypeOK
<1>2. m \in Nat /\ m >= 1 /\ n * PageSize \in Nat /\ (n > 1 => m > 1)
  <2>1. (n - 1) \in Nat /\ PageSize \in Nat /\ PageSize > 0
    BY DispatchAssumption
  <2>2. \A a, b \in Nat : a * b \in Nat /\ (a > 0 /\ b > 0 => a * b > 0)
    OBVIOUS
  <2>3. (n - 1) * PageSize \in Nat /\ (n > 1 => (n - 1) * PageSize > 0) /\ n * PageSize \in Nat
    BY <2>1, <2>2
  <2> QED
    BY <2>3
<1>3. k \in Nat /\ k <= Len(runs)
  BY <1>1, <1>2 DEF Smaller
<1> HIDE DEF m, k
<1>4. PageOf(n) = SubSeq(runs, m, k)
  BY DEF PageOf, m, k
<1>5. \A j \in m .. k : runs[j] \in Run
  BY <1>1, <1>2, <1>3
<1>6. /\ SubSeq(runs, m, k) \in Seq(Run)
      /\ Len(SubSeq(runs, m, k)) = IF m <= k THEN k - m + 1 ELSE 0
      /\ \A j \in 1 .. k - m + 1 : SubSeq(runs, m, k)[j] = runs[m + j - 1]
  BY <1>2, <1>3, <1>5, SubSeqProperties
<1>7. i \in 1 .. k - m + 1 /\ m <= k
  <2>1. DOMAIN SubSeq(runs, m, k) = 1 .. Len(SubSeq(runs, m, k))
    BY <1>6
  <2> QED
    BY <1>2, <1>3, <1>4, <1>6, <2>1
<1>8. m + i - 1 \in DOMAIN runs
  BY <1>1, <1>2, <1>3, <1>7
<1>9. PageOf(n)[i] = runs[m + i - 1]
  BY <1>4, <1>6, <1>7
<1>10. i \in Nat \ {0} /\ i <= Len(runs)
  BY <1>2, <1>3, <1>7
<1>11. n > 1 => Len(runs) > 1
  BY <1>1, <1>2, <1>3, <1>7
<1> QED
  BY <1>8, <1>9, <1>10, <1>11

\* A run that is added leaves the others in the listing.
LEMMA AddedRun ==
  ASSUME TypeOK, NEW r, AddRun(r), r \in Run
  PROVE  Len(runs') = Len(runs) + 1 /\ \A i \in DOMAIN runs : i + 1 \in DOMAIN runs' /\ runs'[i + 1] = runs[i]
<1>1. runs \in Seq(Run) /\ Len(runs) \in Nat /\ DOMAIN runs = 1 .. Len(runs)
  BY DEF TypeOK
<1>2. <<r>> \in Seq(Run) /\ Len(<<r>>) = 1
  OBVIOUS
<1>3. /\ <<r>> \o runs \in Seq(Run) /\ Len(<<r>> \o runs) = 1 + Len(runs)
      /\ \A i \in 1 .. 1 + Len(runs) : (<<r>> \o runs)[i] = IF i <= 1 THEN <<r>>[i] ELSE runs[i - 1]
  <2>1. /\ <<r>> \o runs \in Seq(Run) /\ Len(<<r>> \o runs) = Len(<<r>>) + Len(runs)
        /\ \A i \in 1 .. Len(<<r>>) + Len(runs) :
              (<<r>> \o runs)[i] = IF i <= Len(<<r>>) THEN <<r>>[i] ELSE runs[i - Len(<<r>>)]
    BY <1>1, <1>2, ConcatProperties
  <2> QED
    BY <1>2, <2>1
<1>4. runs' = <<r>> \o runs
  BY DEF AddRun
<1>5. runs' \in Seq(Run) /\ Len(runs') = 1 + Len(runs)
      /\ \A i \in 1 .. 1 + Len(runs) : i > 1 => runs'[i] = runs[i - 1]
  BY <1>1, <1>3, <1>4
<1> QED
  BY <1>1, <1>5

\* What was read stays true while runs are added.
LEMMA ListingGrows ==
  ASSUME TypeInv, CorrelateInv, RunListed \/ OtherRunListed
  PROVE  CorrelateInv'
<1>1. PICK r \in Run : AddRun(r)
  <2>1. CASE RunListed
    <3>1. PICK sha \in BOOLEAN, fresh \in BOOLEAN :
             AddRun([id |-> Len(runs) + 1, ours |-> TRUE, sha |-> sha, fresh |-> fresh])
      BY <2>1 DEF RunListed
    <3>2. Len(runs) + 1 \in 1 .. MaxRuns
      BY <2>1, DispatchAssumption DEF RunListed, TypeInv, TypeOK
    <3> QED
      BY <3>1, <3>2 DEF Run
  <2>2. CASE OtherRunListed
    <3>1. PICK sha \in BOOLEAN :
             AddRun([id |-> Len(runs) + 1, ours |-> FALSE, sha |-> sha, fresh |-> TRUE])
      BY <2>2 DEF OtherRunListed
    <3>2. Len(runs) + 1 \in 1 .. MaxRuns
      BY <2>2, DispatchAssumption DEF OtherRunListed, TypeInv, TypeOK
    <3> QED
      BY <3>1, <3>2 DEF Run
  <2> QED
    BY <2>1, <2>2
<1>2. Len(runs') = Len(runs) + 1 /\ Len(runs) \in Nat
      /\ \A i \in DOMAIN runs : i + 1 \in DOMAIN runs' /\ runs'[i + 1] = runs[i]
  BY <1>1, AddedRun DEF TypeInv, TypeOK
<1>3. UNCHANGED <<pc, matches, newest, page, outcome, named, hist>>
  BY DEF RunListed, OtherRunListed, dispatchVars, correlateVars
<1>4. \A id : NamedRun(id) => NamedRun(id)'
  BY <1>2, <1>3 DEF NamedRun, NameMatches
<1>5. \A id : RecentRun(id) => RecentRun(id)'
  BY <1>2 DEF RecentRun
<1>6. ScanInv'
  BY <1>2, <1>3, <1>4, <1>5 DEF CorrelateInv, ScanInv
<1>7. CorrelatedRunIsPlausible'
  BY <1>2, <1>3 DEF CorrelateInv, CorrelatedRunIsPlausible, NameMatches
<1> QED
  BY <1>6, <1>7 DEF CorrelateInv

\* One page of the search by name.
LEMMA NamePageRead ==
  ASSUME TypeInv, CorrelateInv, ScanNamePage
  PROVE  CorrelateInv'
<1>1. PICK n : n = page + 1
  OBVIOUS
<1> DEFINE s == PageOf(n)
           new == MatchesIn(n, s)
           found == matches \cup new
           last == n >= MaxPages \/ ~HasNext(n)
<1>2. n \in Nat \ {0} /\ page \in Nat /\ Len(runs) \in Nat
  BY <1>1, DispatchAssumption DEF TypeInv, TypeOK
<1>3. /\ page' = (IF last THEN 0 ELSE n)
      /\ matches' = (IF last THEN {} ELSE found)
      /\ \/ ~last /\ UNCHANGED <<pc, outcome>>
         \/ last /\ found = {} /\ pc' = "fallback" /\ UNCHANGED outcome
         \/ last /\ \E m \in found : found = {m} /\ Finish("Success", m.id)
         \/ last /\ (\E m, k \in found : m # k) /\ Finish("DuplicateMatch", None)
  BY <1>1 DEF ScanNamePage
<1>4. pc = "name" /\ newest = None /\ UNCHANGED <<newest, runs, named, hist>> /\ hist.accepted > 0
  BY DEF ScanNamePage, CorrelateInv, ScanInv, ScanPoints, githubVars
<1>5. ASSUME NEW m \in new
      PROVE  /\ NamedRun(m.id) /\ m.page = n /\ m.index \in Nat
             /\ (m.page > 1 \/ m.index > 1) => Len(runs) > 1
  <2>1. PICK i \in DOMAIN s : NameMatches(s[i]) /\ m = [page |-> n, index |-> i, id |-> s[i].id]
    BY DEF MatchesIn
  <2> HIDE DEF s
  <2>2. /\ \E j \in DOMAIN runs : s[i] = runs[j]
        /\ i \in Nat \ {0} /\ i <= Len(runs)
        /\ n > 1 => Len(runs) > 1
    BY <1>2, PageOfRuns DEF s, TypeInv
  <2>3. m.page = n /\ m.index = i /\ m.id = s[i].id
    BY <2>1
  <2>4. NamedRun(m.id)
    BY <2>1, <2>2, <2>3 DEF NamedRun
  <2>5. m.index > 1 => Len(runs) > 1
    BY <1>2, <2>2, <2>3
  <2> QED
    BY <2>2, <2>3, <2>4, <2>5
<1>6. \A m, k \in new : m.index = k.index => m = k
  BY DEF MatchesIn
<1> HIDE DEF new, s
<1>7. \A m \in found : /\ NamedRun(m.id) /\ m.page <= n
                       /\ (m.page > 1 \/ m.index > 1) => Len(runs) > 1
  <2>1. ASSUME NEW m \in matches
        PROVE  NamedRun(m.id) /\ m.page <= n /\ ((m.page > 1 \/ m.index > 1) => Len(runs) > 1)
    <3>1. m.page \in Nat
      BY DispatchAssumption DEF TypeInv, TypeOK, Match
    <3> QED
      BY <1>1, <1>2, <3>1 DEF CorrelateInv, ScanInv
  <2> QED
    BY <1>2, <1>5, <2>1
<1>8. \A m, k \in found : m.page = k.page /\ m.index = k.index => m = k
  <2>1. \A m \in matches : m.page # n
    <3>1. \A m \in matches : m.page \in Nat /\ m.page <= page
      BY DispatchAssumption DEF CorrelateInv, ScanInv, TypeInv, TypeOK, Match
    <3> QED
      BY <1>1, <1>2, <3>1
  <2>2. \A m, k \in matches : m.page = k.page /\ m.index = k.index => m = k
    BY DEF CorrelateInv, ScanInv
  <2> QED
    BY <1>5, <1>6, <2>1, <2>2
<1>9. \A m \in found : m.page \in Nat \ {0} /\ m.index \in Nat \ {0}
  <2>1. \A m \in matches : m.page \in Nat \ {0} /\ m.index \in Nat \ {0}
    BY DispatchAssumption DEF TypeInv, TypeOK, Match
  <2>2. new \subseteq Match
    BY <1>1, MatchesType DEF new, s
  <2>3. \A m \in new : m.page \in Nat \ {0} /\ m.index \in Nat \ {0}
    BY <2>2, DispatchAssumption DEF Match
  <2> QED
    BY <2>1, <2>3
<1> HIDE DEF found, last
<1>10. ScanInv'
  <2>1. pc' # "name" => matches' = {}
    BY <1>3, <1>4
  <2>2. newest' = None
    BY <1>4
  <2>3. \A m \in matches' : NamedRun(m.id)' /\ m.page <= page'
                            /\ ((m.page > 1 \/ m.index > 1) => Len(runs') > 1)
    BY <1>3, <1>4, <1>7 DEF NamedRun, NameMatches
  <2>4. \A m, k \in matches' : m.page = k.page /\ m.index = k.index => m = k
    BY <1>3, <1>8
  <2>5. (pc # "done" => outcome = Pending)'
    BY <1>3, <1>4 DEF Finish, CorrelateInv, ScanInv
  <2> QED
    BY <1>4, <2>1, <2>2, <2>3, <2>4, <2>5 DEF ScanInv
<1>11. CorrelatedRunIsPlausible'
  <2>1. CASE UNCHANGED outcome
    BY <1>4, <2>1 DEF CorrelateInv, CorrelatedRunIsPlausible, NameMatches
  <2>2. ASSUME NEW m \in found, Finish("Success", m.id)
        PROVE  CorrelatedRunIsPlausible'
    <3>1. outcome'.kind = "Success" /\ outcome'.run = m.id
      BY <2>2 DEF Finish
    <3>2. \E i \in DOMAIN runs' : runs'[i].id = m.id /\ NameMatches(runs[i])'
      BY <1>4, <1>7 DEF NamedRun, NameMatches
    <3> QED
      BY <1>4, <3>1, <3>2 DEF CorrelatedRunIsPlausible, NameMatches
  <2>3. ASSUME NEW m \in found, NEW k \in found, m # k, Finish("DuplicateMatch", None)
        PROVE  CorrelatedRunIsPlausible'
    <3>1. outcome'.kind = "DuplicateMatch"
      BY <2>3 DEF Finish
    <3>2. m.page # k.page \/ m.index # k.index
      BY <1>8, <2>3
    <3>3. Len(runs) > 1
      <4>1. m.page > 1 \/ m.index > 1 \/ k.page > 1 \/ k.index > 1
        BY <1>9, <3>2
      <4> QED
        BY <1>7, <4>1
    <3>4. \E i \in DOMAIN runs : NameMatches(runs[i])
      BY <1>7 DEF NamedRun
    <3> QED
      BY <1>4, <3>1, <3>3, <3>4 DEF CorrelatedRunIsPlausible, NameMatches
  <2> QED
    BY <1>3, <2>1, <2>2, <2>3
<1> QED
  BY <1>10, <1>11 DEF CorrelateInv

\* One page of the search by commit and age.
LEMMA FallbackPageRead ==
  ASSUME TypeInv, CorrelateInv, ScanFallbackPage
  PROVE  CorrelateInv'
<1>1. PICK n : n = page + 1
  OBVIOUS
<1> DEFINE eligible == Candidates(ShaPage(n))
           best == IF newest = None /\ eligible # {} THEN runs[Min(eligible)].id ELSE newest
           last == n >= MaxPages \/ ~ShaHasNext(n)
<1>3. /\ newest' = (IF last THEN None ELSE best)
      /\ \/ ~last /\ UNCHANGED <<pc, outcome>>
         \/ last /\ best = None /\ pc' = "sleep" /\ UNCHANGED outcome
         \/ last /\ best # None /\ Finish("Success", best)
  BY <1>1 DEF ScanFallbackPage
<1>4. pc = "fallback" /\ matches = {} /\ UNCHANGED <<matches, runs, named, hist>> /\ hist.accepted > 0
  BY DEF ScanFallbackPage, CorrelateInv, ScanInv, ScanPoints, githubVars
<1>6. eligible # {} => RecentRun(runs[Min(eligible)].id)
  BY CandidateRun DEF TypeInv, RecentRun
<1>7. best # None => RecentRun(best)
  <2> HIDE DEF eligible
  <2> QED
    BY <1>6 DEF CorrelateInv, ScanInv
<1> HIDE DEF best, last, eligible
<1>8. ScanInv'
  <2>1. pc' # "fallback" => newest' = None
    BY <1>3, <1>4
  <2>2. (newest # None => RecentRun(newest))'
    BY <1>3, <1>4, <1>7 DEF RecentRun
  <2>3. (pc # "done" => outcome = Pending)'
    BY <1>3, <1>4 DEF Finish, CorrelateInv, ScanInv
  <2> QED
    BY <1>4, <2>1, <2>2, <2>3 DEF ScanInv
<1>9. CorrelatedRunIsPlausible'
  <2>1. CASE UNCHANGED outcome
    BY <1>4, <2>1 DEF CorrelateInv, CorrelatedRunIsPlausible, NameMatches
  <2>2. CASE best # None /\ Finish("Success", best)
    <3>1. outcome'.kind = "Success" /\ outcome'.run = best
      BY <2>2 DEF Finish
    <3> QED
      BY <1>4, <1>7, <2>2, <3>1 DEF CorrelatedRunIsPlausible, RecentRun
  <2> QED
    BY <1>3, <2>1, <2>2
<1> QED
  BY <1>8, <1>9 DEF CorrelateInv

\* Every other step leaves the listing and what was read of it alone, or starts over.
LEMMA NextCorrelate ==
  ASSUME TypeInv, CorrelateInv, [Next]_vars
  PROVE  CorrelateInv'
<1>1. CASE ScanNamePage
  BY <1>1, NamePageRead
<1>2. CASE ScanFallbackPage
  BY <1>2, FallbackPageRead
<1>3. CASE RunListed \/ OtherRunListed
  BY <1>3, ListingGrows
<1>4. CASE PostAccepted
  <2>1. hist'.accepted = hist.accepted + 1 /\ hist.accepted \in Nat
    BY <1>4 DEF PostAccepted, TypeInv, History
  <2>2. matches' = {} /\ newest' = None
    BY <1>4 DEF PostAccepted, CorrelateInv, ScanInv
  <2>3. outcome' = Pending
    BY <1>4 DEF PostAccepted, CorrelateInv, ScanInv
  <2>4. outcome'.kind \notin {"Success", "DuplicateMatch"}
    BY <2>3 DEF Pending
  <2> QED
    BY <2>1, <2>2, <2>3, <2>4 DEF CorrelateInv, ScanInv, CorrelatedRunIsPlausible
<1>5. CASE LoopHead \/ ScanFails \/ Retry
  <2>1. hist'.accepted = hist.accepted
    <3>1. CASE LoopHead
      BY <3>1 DEF LoopHead, TypeInv, History
    <3>2. CASE ScanFails
      BY <3>2 DEF ScanFails, TypeInv, History
    <3>3. CASE Retry
      BY <3>3 DEF Retry, TypeInv, History
    <3> QED
      BY <1>5, <3>1, <3>2, <3>3
  <2>2. pc \notin {"done"} /\ (pc \notin ScanPoints => pc' \notin ScanPoints)
    BY <1>5 DEF LoopHead, ScanFails, Retry, Finish, ScanPoints
  <2>3. matches' = {} /\ newest' = None
    BY <1>5 DEF LoopHead, ScanFails, Retry, Finish, correlateVars, CorrelateInv, ScanInv
  <2>4. outcome = Pending
    BY <2>2 DEF CorrelateInv, ScanInv
  <2>5. outcome' = Pending \/ (pc' = "done" /\ outcome'.kind \notin {"Success", "DuplicateMatch"})
    <3>1. {"Success", "DuplicateMatch"} \cap GithubErrorKind = {}
      BY DEF GithubErrorKind, PermanentKinds, TransientKinds
    <3>2. CASE LoopHead
      BY <2>4, <3>2 DEF LoopHead, Finish
    <3>3. CASE ScanFails
      <4>1. PICK e \in ScanError : UNCHANGED outcome \/ Finish(e.kind, None)
        BY <3>3 DEF ScanFails
      <4>2. e.kind \in GithubErrorKind
        BY ScanErrorType DEF GithubError
      <4>3. CASE UNCHANGED outcome
        BY <2>4, <4>3
      <4>4. CASE Finish(e.kind, None)
        <5>1. pc' = "done" /\ outcome'.kind = e.kind
          BY <4>4 DEF Finish
        <5> QED
          BY <3>1, <4>2, <5>1
      <4> QED
        BY <4>1, <4>3, <4>4
    <3>4. CASE Retry
      <4>1. UNCHANGED outcome \/ Finish(answer.kind, None)
        BY <3>4 DEF Retry
      <4>2. answer.kind \in GithubErrorKind
        BY DEF TypeInv, TypeOK, GithubError
      <4>3. CASE UNCHANGED outcome
        BY <2>4, <4>3
      <4>4. CASE Finish(answer.kind, None)
        <5>1. pc' = "done" /\ outcome'.kind = answer.kind
          BY <4>4 DEF Finish
        <5> QED
          BY <3>1, <4>2, <5>1
      <4> QED
        BY <4>1, <4>3, <4>4
    <3> QED
      BY <1>5, <3>2, <3>3, <3>4
  <2>6. outcome'.kind \notin {"Success", "DuplicateMatch"}
    BY <2>5 DEF Pending
  <2>7. CorrelatedRunIsPlausible'
    BY <2>6 DEF CorrelatedRunIsPlausible
  <2>8. ScanInv'
    BY <2>1, <2>2, <2>3, <2>5 DEF CorrelateInv, ScanInv
  <2> QED
    BY <2>7, <2>8 DEF CorrelateInv
<1>6. CASE PostRefused \/ PostLost
  <2>1. UNCHANGED <<matches, newest, outcome>> /\ pc = "post" /\ pc' \in {"classify", "retry"}
    BY <1>6 DEF PostRefused, PostLost, correlateVars
  <2>2. matches' = {} /\ newest' = None /\ outcome' = Pending
    BY <2>1 DEF CorrelateInv, ScanInv
  <2>3. CorrelatedRunIsPlausible'
    BY <2>2 DEF Pending, CorrelatedRunIsPlausible
  <2> QED
    BY <2>1, <2>2, <2>3 DEF CorrelateInv, ScanInv, ScanPoints
<1>7. CASE \/ Gate \/ DeferEnds \/ AcquireBucket \/ ClassifyAnswer \/ BackoffEnds
           \/ ScanSleepEnds \/ PollerStep \/ QuotaSpent \/ Cancel \/ Tick \/ UNCHANGED vars
  <2>1. UNCHANGED <<matches, newest, page, outcome, runs, named>>
    BY <1>7 DEF Gate, DeferEnds, AcquireBucket, ClassifyAnswer, BackoffEnds, ScanSleepEnds,
                PollerStep, PollSend, PollApply, PollSleepEnds, QuotaSpent, Cancel, Tick,
                correlateVars, githubVars, vars
  <2>2. hist'.accepted = hist.accepted
    <3>1. CASE Tick
      BY <3>1 DEF Tick, TypeInv, History
    <3>2. CASE ~Tick
      <4>1. UNCHANGED hist
        BY <1>7, <3>2 DEF Gate, DeferEnds, AcquireBucket, ClassifyAnswer, BackoffEnds,
              ScanSleepEnds, PollerStep, PollSend, PollApply, PollSleepEnds, QuotaSpent,
              Cancel, vars
      <4> QED
        BY <4>1
    <3> QED
      BY <3>1, <3>2
  <2>3. \/ UNCHANGED pc
        \/ pc \in GatePoints /\ pc' \in GatePoints
        \/ pc = "sleep" /\ pc' = "head"
    BY <1>7 DEF Gate, DeferEnds, AcquireBucket, ClassifyAnswer, BackoffEnds, ScanSleepEnds,
                PollerStep, PollSend, PollApply, PollSleepEnds, QuotaSpent, Cancel, Tick,
                dispatchVars, vars, GatePoints
  <2>4. \A id : NamedRun(id)' = NamedRun(id) /\ RecentRun(id)' = RecentRun(id)
    BY <2>1 DEF NamedRun, RecentRun, NameMatches
  <2>5. ScanInv'
    BY <2>1, <2>2, <2>3, <2>4 DEF CorrelateInv, ScanInv, ScanPoints, GatePoints
  <2>6. CorrelatedRunIsPlausible'
    BY <2>1, <2>2 DEF CorrelateInv, CorrelatedRunIsPlausible, NameMatches
  <2> QED
    BY <2>5, <2>6 DEF CorrelateInv
<1> QED
  BY <1>1, <1>2, <1>3, <1>4, <1>5, <1>6, <1>7 DEF Next, DispatchStep, CorrelateStep, Environment

\* For any page size, page limit and any runs that others add between two pages, what
\* correlate() reports is a listed run that has the name of the dispatch, or its commit
\* and an age it allows; a duplicate needs more than the one run of gcit
\* (scan_runs_for_match, scan_runs_for_fallback).
THEOREM CorrelationCorrect == Spec => []CorrelatedRunIsPlausible
<1>1. Init => CorrelateInv
  BY DEF Init, CorrelateInv, ScanInv, CorrelatedRunIsPlausible, Pending, ScanPoints
<1>2. TypeInv /\ CorrelateInv /\ [Next]_vars => CorrelateInv'
  BY NextCorrelate
<1>3. CorrelateInv => CorrelatedRunIsPlausible
  BY DEF CorrelateInv
<1> QED
  BY <1>1, <1>2, <1>3, InitType, NextType, PTL DEF Spec

=============================================================================
