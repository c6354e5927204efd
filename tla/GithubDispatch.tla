--------------------------- MODULE GithubDispatch ---------------------------
(***************************************************************************)
(* One execute() of a flow's dispatcher: dispatch_with_retry posts the     *)
(* workflow_dispatch behind the rate-limit snapshot and the pacing bucket, *)
(* retries what is transient, and correlate() then looks for the run the   *)
(* post created, page by page, until a deadline that a cancellation        *)
(* shortens.  Beside it: the /rate_limit poller of the credential, GitHub  *)
(* (its quota, and a list of runs that other people add to while gcit is   *)
(* reading it), the cancellation, and time.                                *)
(***************************************************************************)
EXTENDS GithubErrors, Sequences, FiniteSetsExt

CONSTANTS
    MaxAttempts,    \* retries of the backoff schedule (DISPATCH_MAX_ATTEMPTS)
    NormalTimeout,  \* correlation deadline in ticks (NORMAL_TIMEOUT)
    DrainTimeout,   \* the same once cancelled (DRAIN_TIMEOUT)
    PageSize,       \* runs per page of the listing
    MaxPages,       \* MAX_PAGES_PER_POLL
    MaxRuns         \* bound: runs the workflow ever gets

ASSUME DispatchAssumption ==
    /\ MaxAttempts \in Nat
    /\ NormalTimeout \in Nat /\ DrainTimeout \in Nat
    /\ 0 < DrainTimeout /\ DrainTimeout < NormalTimeout
    /\ PageSize \in Nat \ {0} /\ MaxPages \in Nat \ {0} /\ MaxRuns \in Nat \ {0}

VARIABLES
    cancel,    \* the flow's CancellationToken
    snap,      \* RateLimitState of the credential, shared with the poller
    poller,    \* the /rate_limit poll_loop: [pc, timer, seen]
    pc,        \* where execute() is
    timer,     \* ticks left of the sleep it is in
    tries,     \* backoff.next() calls so far
    answer,    \* the answer being classified, or the error being reported
    deadline,  \* ticks left of normal_deadline
    drain,     \* ticks left of drain_start + DRAIN_TIMEOUT, None before
    page,      \* pages of the current scan read so far
    matches,   \* listed runs whose name matched, each with the place it was read at
    newest,    \* best fallback candidate of the current scan, or None
    outcome,   \* ExecuteOutcome once done
    named,     \* the workflow that ran declares run-name: gcit-${{ inputs.gcit_run_id }}
    quota,     \* GitHub's truth: [open, reset]
    runs,      \* GitHub's listing, newest first
    unlisted,  \* posts GitHub accepted whose run is not listed yet
    hist       \* history: failures, ambiguous and accepted posts, hold-off

dispatchVars == <<pc, timer, tries, answer>>
correlateVars == <<deadline, drain, page, matches, newest>>
githubVars == <<named, quota, runs, unlisted>>
vars == <<cancel, snap, poller, dispatchVars, correlateVars, outcome, githubVars, hist>>

-----------------------------------------------------------------------------
Run == [id : 1..MaxRuns, ours : BOOLEAN, sha : BOOLEAN, fresh : BOOLEAN]

\* The name of a listed run contains the needle "gcit-<uuid>".
NameMatches(r) == named /\ r.ours

\* A run that shifts from one page to the next is read, and counted, twice.
Match == [page : 1..MaxPages, index : 1..MaxRuns, id : 1..MaxRuns]

Pending == [kind |-> "Pending", run |-> None]
Outcomes == [kind : {"Pending", "Success", "DuplicateMatch", "CorrelationTimeout"}
                        \cup GithubErrorKind, run : {None} \cup 1..MaxRuns]

GatePoints == {"gate", "defer", "bucket", "post", "classify", "retry", "backoff"}
ScanPoints == {"head", "name", "fallback", "sleep"}

Quota == [open : BOOLEAN, reset : 0..MaxReset]
PollerState == [pc : {"send", "apply", "sleep", "stopped"}, timer : 0..PollInterval,
                seen : {None} \cup Quota]

TypeOK ==
    /\ cancel \in BOOLEAN /\ named \in BOOLEAN
    /\ snap \in Snapshot
    /\ poller \in PollerState
    /\ pc \in GatePoints \cup ScanPoints \cup {"done"}
    /\ timer \in 0..MaxReset
    /\ tries \in 0..MaxAttempts + 1
    /\ answer \in GithubError
    /\ deadline \in 0..NormalTimeout
    /\ drain \in {None} \cup 0..DrainTimeout
    /\ page \in 0..MaxPages
    /\ matches \subseteq Match
    /\ newest \in {None} \cup 1..MaxRuns
    /\ outcome \in Outcomes
    /\ quota \in Quota
    /\ runs \in Seq(Run) /\ unlisted \in 0..MaxRuns /\ Len(runs) + unlisted <= MaxRuns

NoError == Error("Unknown")

Init ==
    /\ cancel = FALSE
    /\ snap = NewSnapshot
    /\ poller = [pc |-> "send", timer |-> 0, seen |-> None]
    /\ pc = "gate" /\ timer = 0 /\ tries = 0 /\ answer = NoError
    /\ deadline = 0 /\ drain = None /\ page = 0 /\ matches = {} /\ newest = None
    /\ outcome = Pending
    /\ named = FALSE
    /\ quota = [open |-> TRUE, reset |-> MaxReset]
    /\ runs = <<>> /\ unlisted = 0
    /\ hist = [failures |-> 0, ambiguous |-> FALSE, accepted |-> 0, holdoff |-> 0,
               sinceDrain |-> 0, quota403 |-> FALSE]

-----------------------------------------------------------------------------
(* The /rate_limit poller.  The answer is GitHub's quota at the send; it is *)
(* applied later, when other answers may already have been observed.  Nothing *)
(* reads the snapshot during correlation: the poller is parked from then on. *)

Parked == [pc |-> "sleep", timer |-> 0, seen |-> None]

PollSend ==
    /\ poller.pc = "send"
    /\ poller' = [poller EXCEPT !.pc = "apply", !.seen = quota]
    /\ UNCHANGED <<cancel, snap, dispatchVars, correlateVars, outcome, githubVars, hist>>

PollApply ==
    /\ poller.pc = "apply"
    /\ \/ snap' = ObserveFull(IF poller.seen.open THEN 1 ELSE 0, poller.seen.reset)
       \/ snap' = snap                      \* unparseable reset epoch: ignored
       \/ snap' = ClampPessimistic(snap)    \* error or timeout
    /\ poller' = [pc |-> "sleep", timer |-> PollInterval, seen |-> None]
    /\ UNCHANGED <<cancel, dispatchVars, correlateVars, outcome, githubVars, hist>>

PollSleepEnds ==
    /\ poller.pc = "sleep"
    /\ \/ cancel /\ poller' = [poller EXCEPT !.pc = "stopped", !.timer = 0]
       \/ poller.timer = 0 /\ poller' = [poller EXCEPT !.pc = "send"]
    /\ UNCHANGED <<cancel, snap, dispatchVars, correlateVars, outcome, githubVars, hist>>

-----------------------------------------------------------------------------
(* dispatch(): the quota gate, the pacing bucket, the post. *)

Finish(kind, run) ==
    /\ pc' = "done" /\ outcome' = [kind |-> kind, run |-> run]

\* wait_for_rate_limit_or_cancel: the snapshot is consulted once per attempt.
Gate ==
    /\ pc = "gate"
    /\ LET wait == ShouldDefer(snap)
       IN  /\ pc' = IF wait = 0 THEN "bucket" ELSE "defer"
           /\ timer' = wait
    /\ UNCHANGED <<cancel, snap, poller, tries, answer, correlateVars, outcome,
                   githubVars, hist>>

DeferEnds ==
    /\ pc = "defer"
    /\ \/ cancel /\ answer' = Error("Cancelled") /\ pc' = "retry"
       \/ timer = 0 /\ pc' = "bucket" /\ UNCHANGED answer
    /\ UNCHANGED <<cancel, snap, poller, timer, tries, correlateVars, outcome,
                   githubVars, hist>>

\* Faulty variant: the wait is raced against the cancellation and then begun again.
AcquireBucketAgain ==
    /\ pc = "bucket" /\ pc' = IF cancel THEN "gate" ELSE "post"
    /\ UNCHANGED <<cancel, snap, poller, timer, tries, answer, correlateVars, outcome,
                   githubVars, hist>>

\* rate_bucket.acquire(): a bounded wait, not raced against the cancellation.
AcquireBucket ==
    /\ pc = "bucket" /\ pc' = "post"
    /\ UNCHANGED <<cancel, snap, poller, timer, tries, answer, correlateVars, outcome,
                   githubVars, hist>>

Headers == [remaining |-> IF quota.open THEN 1 ELSE 0, reset |-> quota.reset, limit |-> TRUE]

\* Statuses an open quota may be answered with, besides success.  429 with quota left is
\* GitHub's secondary limit, which has nothing to do with the headers.
RefusalStatuses == {401, 403, 404, 422, 429, 500}

Accept == Len(runs) + unlisted < MaxRuns /\ unlisted' = unlisted + 1

\* What the listing may hold when it is first read: runs of somebody else, created
\* before dispatched_at, some of them within the skew buffer.
OlderRuns ==
    {<<>>} \cup {<<r>> : r \in [id : {1}, ours : {FALSE}, sha : BOOLEAN, fresh : BOOLEAN]}

PostAcceptedUnread ==
    /\ pc = "post" /\ quota.open /\ Accept
    /\ snap' = ObserveHeaders(snap, Headers)
    /\ pc' = "retry" /\ answer' = Error("Unknown")
    /\ hist' = [hist EXCEPT !.accepted = @ + 1, !.holdoff = 0]
    /\ UNCHANGED <<cancel, poller, timer, tries, correlateVars, outcome, named, quota, runs>>

\* 2xx: the run exists on GitHub and is listed later.
PostAccepted ==
    /\ pc = "post" /\ quota.open /\ Accept
    /\ named' \in BOOLEAN /\ poller' = Parked
    /\ runs' \in {s \in OlderRuns : Len(s) + unlisted' <= MaxRuns}
    /\ snap' = ObserveHeaders(snap, Headers)
    /\ pc' = "head" /\ deadline' = NormalTimeout /\ drain' = None /\ tries' = 0
    /\ hist' = [hist EXCEPT !.accepted = @ + 1, !.holdoff = 0, !.failures = 0]
    /\ UNCHANGED <<cancel, timer, answer, page, matches, newest, outcome, quota>>

\* A response with an error status; its headers are observed before the body is read.
PostRefused ==
    /\ pc = "post"
    /\ snap' = ObserveHeaders(snap, Headers)
    /\ \E status \in IF quota.open THEN RefusalStatuses ELSE {403, 429} :
          \E namesInput \in BOOLEAN :
             answer' = Classify(status, namesInput)
    /\ pc' = "classify"
    /\ hist' = [hist EXCEPT !.holdoff = 0, !.quota403 = ~quota.open]
    /\ UNCHANGED <<cancel, poller, timer, tries, correlateVars, outcome, githubVars>>

\* No response in time, or a transport failure: GitHub may have accepted the post.
PostLost ==
    /\ pc = "post"
    /\ \/ UNCHANGED unlisted /\ hist' = [hist EXCEPT !.holdoff = 0]
       \/ quota.open /\ Accept
          /\ hist' = [hist EXCEPT !.accepted = @ + 1, !.ambiguous = TRUE, !.holdoff = 0]
    /\ \E kind \in {"Timeout", "Transport"} : answer' = Error(kind)
    /\ pc' = "retry"
    /\ UNCHANGED <<cancel, snap, poller, timer, tries, correlateVars, outcome,
                   named, quota, runs>>

\* map_github_error has read the body, outside the request's timeout and not raced against
\* the cancellation: it may never come.  Then a 403 is looked at again through the snapshot.
ClassifyAnswer ==
    /\ pc = "classify" /\ pc' = "retry"
    /\ answer' = Reclassify403ViaSnapshot(answer, snap)
    /\ UNCHANGED <<cancel, snap, poller, timer, tries, correlateVars, outcome,
                   githubVars, hist>>

-----------------------------------------------------------------------------
(* dispatch_with_retry: backon's schedule with the .adjust() override. *)

\* backoff.next(): None once the schedule is used up.
NextDelay == IF tries < MaxAttempts THEN 1 ELSE None

Larger(a, b) == IF a > b THEN a ELSE b
Smaller(a, b) == IF a < b THEN a ELSE b

\* .adjust(): the reset of a RateLimited answer outlives the schedule.
AdjustEarlier(retryAfter, dur) ==
    CASE retryAfter # None /\ dur # None -> Smaller(retryAfter, dur)
      [] retryAfter # None /\ dur = None -> retryAfter
      [] OTHER -> dur

Adjust(retryAfter, dur) ==
    CASE retryAfter # None /\ dur # None -> Larger(retryAfter, dur)
      [] retryAfter # None /\ dur = None -> retryAfter
      [] OTHER -> dur

Retry ==
    /\ pc = "retry"
    /\ LET delay == Adjust(RetryAfter(answer), NextDelay)
       IN  IF ~IsTransient(answer) \/ delay = None
           THEN /\ Finish(answer.kind, None)
                /\ UNCHANGED <<timer, tries>>
           ELSE /\ pc' = "backoff" /\ timer' = delay
                /\ tries' = IF tries > MaxAttempts THEN tries ELSE tries + 1
                /\ UNCHANGED outcome
    /\ answer' = NoError
    /\ hist' = [hist EXCEPT
                  !.failures = IF answer.kind = "RateLimited" THEN @
                               ELSE Smaller(@ + 1, MaxAttempts + 2),
                  !.holdoff = IF answer.kind = "RateLimited" THEN answer.reset ELSE 0,
                  !.quota403 = FALSE]
    /\ UNCHANGED <<cancel, snap, poller, correlateVars, githubVars>>

\* The backoff sleep is not raced against the cancellation.
BackoffEnds ==
    /\ pc = "backoff" /\ timer = 0 /\ pc' = "gate"
    /\ UNCHANGED <<cancel, snap, poller, timer, tries, answer, correlateVars, outcome,
                   githubVars, hist>>

-----------------------------------------------------------------------------
(* correlate(). *)

\* compute_effective_deadline: the onset is captured once, at the first sight of
\* the cancellation.
DrainOnsetSliding == DrainTimeout

DrainOnset == IF drain = None THEN DrainTimeout ELSE drain
EffectiveDeadline == IF cancel THEN Smaller(deadline, DrainOnset) ELSE deadline

LoopHead ==
    /\ pc = "head"
    /\ drain' = IF cancel THEN DrainOnset ELSE drain
    /\ hist' = [hist EXCEPT !.sinceDrain = IF cancel /\ drain = None THEN 0 ELSE @]
    /\ IF EffectiveDeadline = 0
       THEN Finish("CorrelationTimeout", None) /\ UNCHANGED <<page, matches, newest>>
       ELSE /\ pc' = "name" /\ page' = 0 /\ matches' = {} /\ newest' = None
            /\ UNCHANGED outcome
    /\ UNCHANGED <<cancel, snap, poller, timer, tries, answer, deadline, githubVars>>

\* classified_get answered with a page: its headers are observed.
PageOf(n) == SubSeq(runs, (n - 1) * PageSize + 1, Smaller(n * PageSize, Len(runs)))
HasNext(n) == Len(runs) > n * PageSize
MatchesIn(n, s) ==
    {[page |-> n, index |-> i, id |-> s[i].id] : i \in {j \in DOMAIN s : NameMatches(s[j])}}

\* scan_runs_for_match reads the next page; pages shift when runs are added meanwhile.
ScanNamePage ==
    /\ pc = "name" /\ quota.open
    /\ snap' = ObserveHeaders(snap, Headers)
    /\ LET n == page + 1
           found == matches \cup MatchesIn(n, PageOf(n))
           last == n >= MaxPages \/ ~HasNext(n)
       IN  /\ page' = IF last THEN 0 ELSE n
           /\ matches' = IF last THEN {} ELSE found
           /\ \/ ~last /\ UNCHANGED <<pc, outcome>>
              \/ last /\ found = {} /\ pc' = "fallback" /\ UNCHANGED outcome
              \/ last /\ \E m \in found : found = {m} /\ Finish("Success", m.id)
              \/ last /\ (\E m, k \in found : m # k) /\ Finish("DuplicateMatch", None)
    /\ UNCHANGED <<cancel, poller, timer, tries, answer, deadline, drain, newest,
                   githubVars, hist>>

\* The same listing asked for with &head_sha=: GitHub drops the other runs before it
\* cuts the rest into pages.  A page is the set of the places its runs have in runs.
ShaRank(i) == Cardinality({j \in 1..i : runs[j].sha})
ShaPage(n) ==
    {i \in DOMAIN runs : /\ runs[i].sha
                         /\ ShaRank(i) \in (n - 1) * PageSize + 1 .. n * PageSize}
ShaHasNext(n) == ShaRank(Len(runs)) > n * PageSize

\* Faulty variant: any age will do.
CandidatesOfAnyAge(places) == places

\* Eligible for the fallback: created since dispatched_at less the skew.
Candidates(places) == {i \in places : runs[i].fresh}

\* scan_runs_for_fallback: the newest eligible run.  run_name_configured is always
\* None, so it runs after every name scan that found nothing.
ScanFallbackPage ==
    /\ pc = "fallback" /\ quota.open
    /\ snap' = ObserveHeaders(snap, Headers)
    /\ LET n == page + 1
           eligible == Candidates(ShaPage(n))
           best == IF newest = None /\ eligible # {} THEN runs[Min(eligible)].id ELSE newest
           last == n >= MaxPages \/ ~ShaHasNext(n)
       IN  /\ page' = IF last THEN 0 ELSE n
           /\ newest' = IF last THEN None ELSE best
           /\ \/ ~last /\ UNCHANGED <<pc, outcome>>
              \/ last /\ best = None /\ pc' = "sleep" /\ UNCHANGED outcome
              \/ last /\ best # None /\ Finish("Success", best)
    /\ timer' = IF pc' = "sleep" THEN Smaller(1, EffectiveDeadline) ELSE timer
    /\ UNCHANGED <<cancel, poller, tries, answer, deadline, drain, matches,
                   githubVars, hist>>

\* A page that fails: classified_get neither observes headers nor reclassifies.
ScanError ==
    IF quota.open
    THEN {Error(k) : k \in {"Unauthorized", "BodyTooLarge", "ServerError", "Timeout"}}
    ELSE {Classify(403, FALSE), Classify(429, FALSE)}

ScanFails ==
    /\ pc \in {"name", "fallback"}
    /\ \E e \in ScanError :
          IF ~IsTransient(e)
          THEN Finish(e.kind, None) /\ UNCHANGED timer
          ELSE /\ pc' = IF pc = "name" THEN "fallback" ELSE "sleep"
               /\ timer' = IF pc = "name" THEN timer ELSE Smaller(1, EffectiveDeadline)
               /\ UNCHANGED outcome
    /\ page' = 0 /\ matches' = {} /\ newest' = None
    /\ hist' = [hist EXCEPT !.quota403 = ~quota.open]
    /\ UNCHANGED <<cancel, snap, poller, tries, answer, deadline, drain, githubVars>>

\* sleep_with_cancel_awareness: once cancelled it returns at once.
ScanSleepEnds ==
    /\ pc = "sleep" /\ (timer = 0 \/ cancel)
    /\ pc' = "head" /\ timer' = 0
    /\ UNCHANGED <<cancel, snap, poller, tries, answer, correlateVars, outcome,
                   githubVars, hist>>

-----------------------------------------------------------------------------
(* GitHub, the supervisor and time. *)

AddRun(r) == runs' = <<r>> \o runs

\* A run gcit dispatched shows up at the head of the listing.  One of an earlier,
\* ambiguous post may be too old for the last dispatched_at less the skew.
RunListed ==
    /\ pc \in ScanPoints
    /\ unlisted > 0 /\ unlisted' = unlisted - 1
    /\ \E sha \in BOOLEAN, fresh \in IF hist.ambiguous THEN BOOLEAN ELSE {TRUE} :
          AddRun([id |-> Len(runs) + 1, ours |-> TRUE, sha |-> sha, fresh |-> fresh])
    /\ UNCHANGED <<cancel, snap, poller, dispatchVars, correlateVars, outcome,
                   named, quota, hist>>

\* Somebody else dispatches the same workflow.
OtherRunListed ==
    /\ pc \in ScanPoints
    /\ Len(runs) + unlisted < MaxRuns
    /\ \E sha \in BOOLEAN :
          AddRun([id |-> Len(runs) + 1, ours |-> FALSE, sha |-> sha, fresh |-> TRUE])
    /\ UNCHANGED <<cancel, snap, poller, dispatchVars, correlateVars, outcome,
                   named, quota, unlisted, hist>>

\* Requests of other users of the token exhaust the quota.
QuotaSpent ==
    /\ quota.open /\ quota.reset > 0
    /\ quota' = [quota EXCEPT !.open = FALSE]
    /\ UNCHANGED <<cancel, snap, poller, dispatchVars, correlateVars, outcome,
                   named, runs, unlisted, hist>>

Cancel ==
    /\ ~cancel /\ cancel' = TRUE
    /\ UNCHANGED <<snap, poller, dispatchVars, correlateVars, outcome, githubVars, hist>>

Less(n) == IF n = 0 THEN 0 ELSE n - 1

Tick ==
    /\ snap' = IF pc \in GatePoints THEN Aged(snap) ELSE snap
    /\ poller' = [poller EXCEPT !.timer = Less(@)]
    /\ timer' = Less(timer)
    /\ answer' = [answer EXCEPT !.reset = Less(@)]
    /\ deadline' = Less(deadline)
    /\ drain' = Elapse(drain)
    /\ quota' = IF quota.reset = 0 THEN [open |-> TRUE, reset |-> MaxReset]
                ELSE [quota EXCEPT !.reset = @ - 1]
    /\ hist' = [hist EXCEPT !.holdoff = Less(@),
                            !.sinceDrain = IF drain = None \/ @ > DrainTimeout THEN @ ELSE @ + 1]
    /\ UNCHANGED <<cancel, pc, tries, page, matches, newest, outcome,
                   named, runs, unlisted>>

-----------------------------------------------------------------------------
DispatchStep ==
    \/ Gate \/ DeferEnds \/ AcquireBucket
    \/ PostAccepted \/ PostRefused \/ PostLost
    \/ Retry \/ BackoffEnds

CorrelateStep ==
    LoopHead \/ ScanNamePage \/ ScanFallbackPage \/ ScanFails \/ ScanSleepEnds

PollerStep == PollSend \/ PollApply \/ PollSleepEnds

Environment == RunListed \/ OtherRunListed \/ QuotaSpent \/ Cancel \/ Tick

\* One execute(), until it returns.
Next ==
    \/ DispatchStep \/ ClassifyAnswer \/ CorrelateStep
    \/ pc \in GatePoints /\ PollerStep
    \/ pc # "done" /\ Environment

Spec == Init /\ [][Next]_vars

\* The executor is a task of a running tokio runtime; every wait of it, the requests
\* included, is bounded by a timeout, except the body of a refused post: ClassifyAnswer
\* has no fairness.  Time passes.
FairSpec == Spec /\ WF_vars(DispatchStep) /\ WF_vars(CorrelateStep) /\ WF_vars(pc # "done" /\ Tick)

-----------------------------------------------------------------------------
(* Properties. *)

\* Apart from waits for a quota reset, one execute() fails at most once more than
\* the schedule has delays, although .adjust() may override an exhausted schedule
\* and the two kinds of failure alternate in any order.
RetryBudget == hist.failures <= MaxAttempts + 1

\* Two accepted posts of one trigger mean that GitHub accepted one whose answer
\* was lost: the retry loop by itself never dispatches twice.
DuplicateRunsOnlyAfterAmbiguousPost == hist.accepted > 1 => hist.ambiguous

\* After a rate-limited answer the next post waits for the announced reset, however
\* short the schedule's own delay and whatever the snapshot says by then.
NoPostBeforeReset == pc = "post" => hist.holdoff = 0

\* The retry loop keeps to its schedule: a bounded number of failures, and no post
\* before the reset GitHub announced.
RetryDiscipline == TypeOK /\ RetryBudget /\ NoPostBeforeReset

\* Although the listing grows between the pages of a scan, a run is reported only after
\* an accepted post, and it is a listed one that has the name of the dispatch, or the
\* commit and an age the dispatch allows; a duplicate is reported only for a workflow
\* that names its runs and whose listing holds a run of gcit and another one.  (That the
\* other one is gcit's too is what the error says, and is false: DuplicateMeansTwoRuns.)
CorrelatedRunIsPlausible ==
    /\ outcome.kind = "Success" =>
          /\ hist.accepted > 0
          /\ \E i \in DOMAIN runs :
                runs[i].id = outcome.run /\ (NameMatches(runs[i]) \/ (runs[i].sha /\ runs[i].fresh))
    /\ outcome.kind = "DuplicateMatch" =>
          Len(runs) > 1 /\ \E i \in DOMAIN runs : NameMatches(runs[i])

\* Once the cancellation was seen, no new scan starts DRAIN_TIMEOUT later or
\* later: the onset does not slide with the scans that follow.
DrainStopsScans ==
    [][(pc = "head" /\ pc' = "name" /\ cancel) => hist'.sinceDrain < DrainTimeout]_vars

\* correlate() ends: a scan is repeated until a match, a permanent error or the
\* deadline, and cancellation never keeps it going.
CorrelationEnds == (pc \in ScanPoints) ~> (pc = "done")

\* The dispatch retries end if from some moment on GitHub no longer limits the credential,
\* by its quota or by a 429 that .adjust() retries without a bound, and the bodies of the
\* refusals arrive.
DispatchEnds ==
    (/\ <>[](quota.open /\ answer.kind # "RateLimited")
     /\ []<>(pc # "classify")) => <>(pc = "done")

\* execute() returns: its correlation always, its retries as soon as GitHub lets it.
ExecuteEnds == CorrelationEnds /\ DispatchEnds

\* client.rs: every API call has a request_timeout, so a stuck server does not make a
\* flow's task indefinitely unresponsive.
StalledBodyEnds == (pc = "classify") ~> (pc # "classify")

\* correlator.rs, DuplicateMatch: "Multiple runs carry the same gcit-<uuid>".
DuplicateMeansTwoRuns ==
    outcome.kind = "DuplicateMatch" =>
        \E i, j \in DOMAIN runs : i # j /\ NameMatches(runs[i]) /\ NameMatches(runs[j])

\* rate_limit.rs: the correlator consults the quota and observes every response,
\* so an exhausted quota is waited for and never reported as a permission problem.
QuotaIsNotForbidden == ~(hist.quota403 /\ outcome.kind = "Forbidden")

\* correlator.rs: the fallback is for workflows that do not name their runs, so a
\* workflow that does is never given somebody else's run.
FallbackOnlyWithoutRunName ==
    (named /\ outcome.kind = "Success") =>
        \E i \in DOMAIN runs : runs[i].id = outcome.run /\ runs[i].ours

=============================================================================
