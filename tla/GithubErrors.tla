---------------------------- MODULE GithubErrors ----------------------------
(***************************************************************************)
(* What gcit makes of GitHub's answers: the error kinds, which of them are *)
(* retried, the classification of a status and of a transport failure, the *)
(* per-credential rate-limit snapshot, and the conclusions of runs and     *)
(* jobs.  Pure operators, shared by the dispatch and the monitor models.   *)
(*                                                                         *)
(* Times are relative: a reset is the number of ticks until it, 0 once it  *)
(* has passed; an age is the number of ticks since.                        *)
(***************************************************************************)
EXTENDS Naturals

CONSTANTS
    None,          \* an absent Option<_>
    PollInterval,  \* ticks between two /rate_limit polls (60 s in the code)
    MaxReset       \* the longest reset GitHub announces, in ticks

ASSUME RateLimitAssumption ==
    /\ PollInterval \in Nat \ {0}
    /\ MaxReset \in Nat /\ MaxReset >= PollInterval
    /\ None \notin Nat

-----------------------------------------------------------------------------
(* GithubErrorKind and its retry policy. *)

PermanentKinds ==
    {"Unauthorized", "Forbidden", "WorkflowNotFound", "DispatchInvalid",
     "Cancelled", "BodyTooLarge"}
TransientKinds == {"ServerError", "Timeout", "RateLimited", "Transport", "Unknown"}
GithubErrorKind == PermanentKinds \cup TransientKinds

\* An error with the ticks until the reset it carries (RateLimited only).
Error(kind) == [kind |-> kind, reset |-> 0]
RateLimited(reset) == [kind |-> "RateLimited", reset |-> reset]
GithubError == [kind : GithubErrorKind, reset : 0..MaxReset]

IsTransient(e) == e.kind \in TransientKinds

\* Only RateLimited names the moment the next attempt may fire.
RetryAfter(e) == IF e.kind = "RateLimited" THEN e.reset ELSE None

\* A missing or past reset is replaced by one minute from now.
ResolveReset(reset) ==
    IF reset # None /\ reset > 0 THEN reset ELSE PollInterval

ClassifyStatus(status, namesInput, remaining, reset) ==
    CASE status = 401 -> Error("Unauthorized")
      [] status = 403 -> IF remaining = 0 THEN RateLimited(ResolveReset(reset))
                                          ELSE Error("Forbidden")
      [] status = 404 -> Error("WorkflowNotFound")
      [] status = 422 -> Error(IF namesInput THEN "DispatchInvalid" ELSE "Unknown")
      [] status = 429 -> RateLimited(ResolveReset(reset))
      [] status \in 500..599 -> Error("ServerError")
      [] OTHER -> Error("Unknown")

\* classify() as both callers use it: octocrab has dropped the headers, so no
\* quota header ever reaches the 403 split.
Classify(status, namesInput) == ClassifyStatus(status, namesInput, None, None)

-----------------------------------------------------------------------------
(* RateLimitState: the last thing GitHub said about the credential's quota. *)

Snapshot == [remaining : {None, 0, 1}, reset : {None} \cup 0..MaxReset,
             age : {None} \cup 0..(2 * PollInterval + 1)]

NewSnapshot == [remaining |-> None, reset |-> None, age |-> None]

\* Headers are applied field by field; one parsed field makes it an observation.
ObserveHeaders(s, h) ==
    IF h.remaining = None /\ h.reset = None /\ ~h.limit
    THEN s
    ELSE [remaining |-> IF h.remaining = None THEN s.remaining ELSE h.remaining,
          reset |-> IF h.reset = None THEN s.reset ELSE h.reset,
          age |-> 0]

ObserveFull(remaining, reset) == [remaining |-> remaining, reset |-> reset, age |-> 0]

\* A failed poll clamps the quota to zero only when nothing was ever observed.
ClampPessimistic(s) ==
    IF s.age # None THEN s
    ELSE [remaining |-> 0, reset |-> PollInterval, age |-> 0]

\* How long a caller must wait before its request; 0 means go ahead.
ShouldDefer(s) ==
    CASE s.age = None -> PollInterval
      [] s.age # None /\ s.age > 2 * PollInterval -> PollInterval
      [] OTHER -> IF s.remaining = None THEN PollInterval
                  ELSE IF s.remaining = 0 /\ s.reset # None THEN s.reset ELSE 0

\* A 403 counts as rate limited when the snapshot says the quota is gone.
Reclassify403ViaSnapshot(e, s) ==
    IF e.kind = "Forbidden" /\ s.remaining = 0
    THEN RateLimited(ResolveReset(s.reset))
    ELSE e

\* One tick later.
Elapse(n) == IF n = None \/ n = 0 THEN n ELSE n - 1
Aged(s) ==
    [s EXCEPT !.reset = Elapse(@),
              !.age = IF @ = None \/ @ > 2 * PollInterval THEN @ ELSE @ + 1]

-----------------------------------------------------------------------------
(* Conclusions of runs and jobs, and run statuses, as the API spells them. *)

Conclusions == {"success", "skipped", "neutral", "failure", "timed_out",
                "cancelled", "action_required"}

\* Conclusion::from_api and RunStatus::from_api: anything new is Unknown.
ConclusionFromApi(s) == IF s \in Conclusions THEN s ELSE "unknown"
StatusFromApi(s) ==
    IF s \in {"queued", "in_progress", "completed", "waiting"} THEN s ELSE "unknown"
IsTerminal(status) == status = "completed"
ShouldCollapse(c) == c \in {"success", "skipped", "neutral"}

\* The conclusion RunFinished stores: "unknown" when GitHub reports none.
StoredConclusion(c) == IF c = None THEN "unknown" ELSE c

=============================================================================
