----------------------------- MODULE RunMonitor -----------------------------
(***************************************************************************)
(* One dispatched run from RunStarted to RunFinished: monitor_run polls    *)
(* GitHub (the run, then its jobs) and sends events; run_monitor_with_-    *)
(* source receives them, fans job and run completions out to the           *)
(* notifiers, and queues RunFinished.  The mail notifiers are those of     *)
(* MailSpool; Discord webhooks are modelled here.  The flow may be         *)
(* cancelled, and its dispatcher drop the monitor, at any await.           *)
(***************************************************************************)
EXTENDS MailSpool, GithubErrors, SequencesExt

CONSTANTS
    Webhooks,   \* discord_webhook notifiers
    EventQueue, \* capacity of the event channel (8 in the code)
    JobsCap,    \* MAX_JOBS_PER_RUN
    JobsPages,  \* MAX_JOBS_PAGES
    PerPage,    \* per_page of the job listing (100 in the code)
    JobCount,   \* jobs of one attempt of the run that are listed from its start
    LateJobs,   \* bound: jobs of one attempt that GitHub adds to the listing later
    MaxReruns   \* bound: re-runs on GitHub

ASSUME MonitorAssumption ==
    /\ Webhooks \cap (Mailers \cup {Agent, Nothing}) = {}
    /\ EventQueue \in Nat \ {0} /\ JobsCap \in Nat \ {0}
    /\ JobsPages \in Nat \ {0} /\ PerPage \in Nat \ {0}
    /\ JobCount \in Nat /\ LateJobs \in Nat /\ MaxReruns \in Nat

VARIABLES
    gh,       \* GitHub: [status, conclusion, attempt, jobs]
    drive,    \* monitor_run: [pc, run, list, event, outcome]
    chan,     \* the event channel
    watch,    \* run_monitor_with_source: [pc, event]
    completed,\* completed_jobs
    told,     \* per job id, for each event that told of it: how many fan-outs, and
              \* whether the listing stood still while the event's pages were read
    webhook,  \* where on_run_complete of each webhook is
    verdict,  \* what it returned
    finished  \* conclusions of the RunFinished updates sent

monitorVars == <<gh, drive, chan, watch, completed, told, webhook, verdict, finished>>
vars == <<cancel, mailVars, monitorVars>>

PerAttempt == JobCount + LateJobs
JobIds == 1..(PerAttempt * (MaxReruns + 1))
JobId(attempt, i) == (attempt - 1) * PerAttempt + i
JobsOf(attempt) == [i \in 1..JobCount |-> [id |-> JobId(attempt, i), conclusion |-> None]]

NoEvent == [done |-> FALSE, conclusion |-> None, jobs |-> <<>>, steady |-> TRUE]
\* list_all_jobs before its first page: pages read, first job of the next page, jobs
\* gathered, and (for the properties) the listing its first page was read from.
NoList == [pages |-> 0, next |-> 1, jobs |-> <<>>, from |-> None]

DrivePoints == {"gate", "defer", "run", "jobs", "send", "tick", "ended"}
WatchPoints == {"recv", "jobs", "start", "wait", "finish", "join", "ended", "aborted"}
Job == [id : JobIds, conclusion : {None, "success"}]
Event == [done : BOOLEAN, conclusion : {None, "success"}, jobs : BoundedSeq(Job, JobsCap),
          steady : BOOLEAN]
Telling == [calls : Nat, steady : BOOLEAN]

TypeOK ==
    /\ MailTypeOK
    /\ drive.pc \in DrivePoints /\ drive.event \in Event
    /\ drive.list.pages < JobsPages /\ drive.list.jobs \in BoundedSeq(Job, JobsCap)
    /\ drive.outcome \in {None, "Terminated", "ReceiverDropped", "DrainedMidRun", "Failed"}
    /\ Len(chan) <= EventQueue /\ \A i \in DOMAIN chan : chan[i] \in Event
    /\ watch.pc \in WatchPoints /\ watch.event \in Event
    /\ completed \subseteq JobIds
    /\ told \in [JobIds -> Seq(Telling)]
    /\ webhook \in [Webhooks -> {"idle", "select", "request", "done"}]
    /\ verdict \in [Webhooks -> Results \cup {None}]
    /\ finished \in BoundedSeq({"success", "unknown"}, 1)

Init ==
    /\ MailInit
    /\ gh = [status |-> "queued", conclusion |-> None, attempt |-> 1, jobs |-> JobsOf(1)]
    /\ drive = [pc |-> "gate", run |-> [status |-> "queued", conclusion |-> None],
                list |-> NoList, event |-> NoEvent, outcome |-> None]
    /\ chan = <<>>
    /\ watch = [pc |-> "recv", event |-> NoEvent]
    /\ completed = {} /\ told = [j \in JobIds |-> <<>>]
    /\ webhook = [n \in Webhooks |-> "idle"] /\ verdict = [n \in Webhooks |-> None]
    /\ finished = <<>>

-----------------------------------------------------------------------------
(* GitHub: jobs end, a job is added to the listing (at its head: the jobs *)
(* listed before move to later positions), the run completes, somebody    *)
(* re-runs it, which replaces the listing (filter=latest).  The run and   *)
(* every page of its jobs are requests of their own.                      *)

External == UNCHANGED <<cancel, mailVars, drive, chan, watch, completed, told, webhook,
                        verdict, finished>>

JobEnds ==
    /\ \E i \in DOMAIN gh.jobs :
          gh.jobs[i].conclusion = None /\ gh' = [gh EXCEPT !.jobs[i].conclusion = "success"]
    /\ External

JobAppears ==
    /\ gh.status # "completed" /\ Len(gh.jobs) < PerAttempt
    /\ gh' = [gh EXCEPT !.jobs =
                 <<[id |-> JobId(gh.attempt, Len(@) + 1), conclusion |-> None]>> \o @]
    /\ External

RunCompletes ==
    /\ gh.status # "completed"
    /\ gh' = [gh EXCEPT !.status = "completed", !.conclusion = "success"]
    /\ External

RunIsRerun ==
    /\ gh.status = "completed" /\ gh.attempt <= MaxReruns
    /\ gh' = [status |-> "queued", conclusion |-> None, attempt |-> gh.attempt + 1,
              jobs |-> JobsOf(gh.attempt + 1)]
    /\ External

-----------------------------------------------------------------------------
(* monitor_run. *)

DriveStep(d) ==
    /\ drive' = d
    /\ UNCHANGED <<cancel, mailVars, gh, watch, completed, told, webhook, verdict, finished>>

EndDrive(outcome) ==
    [drive EXCEPT !.pc = "ended", !.outcome = outcome, !.event = NoEvent, !.list = NoList]

\* should_defer(): the snapshot may ask for a wait, which the cancellation ends.
RateGate ==
    /\ drive.pc \in {"gate", "defer"}
    /\ \/ drive.pc = "gate" /\ DriveStep([drive EXCEPT !.pc = "defer"])
       \/ DriveStep([drive EXCEPT !.pc = "run"])
       \/ drive.pc = "defer" /\ cancel /\ DriveStep(EndDrive("DrainedMidRun"))
    /\ UNCHANGED chan

\* A failed request, of any page: permanent ends the monitor, transient waits for the
\* next tick, and the pages read so far are dropped.
PollError ==
    /\ drive.pc \in {"run", "jobs"}
    /\ \E kind \in {"Unauthorized", "ServerError"} :
          IF IsTransient(Error(kind))
          THEN DriveStep([drive EXCEPT !.pc = "tick", !.list = NoList])
          ELSE DriveStep(EndDrive("Failed"))
    /\ UNCHANGED chan

ReadRun ==
    /\ drive.pc = "run"
    /\ DriveStep([drive EXCEPT !.pc = "jobs",
                    !.run = [status |-> StatusFromApi(gh.status),
                             conclusion |-> IF gh.conclusion = None THEN None
                                            ELSE ConclusionFromApi(gh.conclusion)]])
    /\ UNCHANGED chan

Smaller(a, b) == IF a < b THEN a ELSE b

\* The page of the listing that starts with job number k, as GitHub has it now.
JobsPage(k) == SubSeq(gh.jobs, k, Smaller(k + PerPage - 1, Len(gh.jobs)))

\* Two listings with the same attempt and length hold the same jobs in the same order.
Listing == [attempt |-> gh.attempt, length |-> Len(gh.jobs)]

\* list_all_jobs up to its next request: the page's jobs are gathered up to
\* MAX_JOBS_PER_RUN; the last page, MAX_JOBS_PAGES or the cap end the listing, and
\* poll_one makes the summary of what was gathered.
ReadJobsPage ==
    /\ drive.pc = "jobs"
    /\ LET l == drive.list
           all == l.jobs \o JobsPage(l.next)
           out == SubSeq(all, 1, Smaller(JobsCap, Len(all)))
           from == IF l.pages = 0 THEN Listing ELSE l.from
           last == \/ Len(out) = JobsCap \/ l.pages + 1 = JobsPages
                   \/ l.next + PerPage > Len(gh.jobs)
       IN  DriveStep(IF last
                     THEN [drive EXCEPT !.pc = "send", !.list = NoList,
                             !.event = [done |-> IsTerminal(drive.run.status),
                                        conclusion |-> drive.run.conclusion, jobs |-> out,
                                        steady |-> from = Listing]]
                     ELSE [drive EXCEPT !.list = [pages |-> l.pages + 1, next |-> l.next + PerPage,
                                                  jobs |-> out, from |-> from]])
    /\ UNCHANGED chan

ReceiverGone == watch.pc \in {"join", "ended", "aborted"}

SendEventOrDrop ==
    /\ drive.pc = "send"
    /\ chan' = IF ReceiverGone \/ Len(chan) = EventQueue THEN chan ELSE Append(chan, drive.event)
    /\ DriveStep(IF drive.event.done THEN EndDrive("Terminated")
                 ELSE [drive EXCEPT !.pc = "tick", !.event = NoEvent])

\* tx.send(event).await, not raced against the cancellation.
SendEvent ==
    /\ drive.pc = "send"
    /\ \/ /\ ReceiverGone /\ DriveStep(EndDrive("ReceiverDropped")) /\ UNCHANGED chan
       \/ /\ ~ReceiverGone /\ Len(chan) < EventQueue
          /\ chan' = Append(chan, drive.event)
          /\ DriveStep(IF drive.event.done THEN EndDrive("Terminated")
                       ELSE [drive EXCEPT !.pc = "tick", !.event = NoEvent])

IntervalOnly ==
    /\ drive.pc = "tick" /\ DriveStep([drive EXCEPT !.pc = "gate"])
    /\ UNCHANGED chan

\* interval.tick() against the cancellation.
IntervalOrCancel ==
    /\ drive.pc = "tick"
    /\ \/ DriveStep([drive EXCEPT !.pc = "gate"])
       \/ cancel /\ DriveStep(EndDrive("DrainedMidRun"))
    /\ UNCHANGED chan

-----------------------------------------------------------------------------
(* run_monitor_with_source. *)

WatchFrame == UNCHANGED <<cancel, mailVars, gh, drive, webhook, verdict>>

NewlyTerminalAgain(e) == {k \in DOMAIN e.jobs : e.jobs[k].conclusion # None}

\* The entries with a conclusion whose job has not been told of in this run: positions,
\* since an entry that is listed twice passes the filter twice.
NewlyTerminal(e) ==
    {k \in DOMAIN e.jobs : e.jobs[k].conclusion # None /\ e.jobs[k].id \notin completed}

Recv ==
    /\ watch.pc = "recv" /\ chan # <<>>
    /\ watch' = [pc |-> "jobs", event |-> Head(chan)]
    /\ chan' = Tail(chan)
    /\ WatchFrame /\ UNCHANGED <<completed, told, finished>>

\* The source has returned and the channel is empty.
RecvClosed ==
    /\ watch.pc = "recv" /\ chan = <<>> /\ drive.pc = "ended"
    /\ watch' = [watch EXCEPT !.pc = "join"]
    /\ WatchFrame /\ UNCHANGED <<chan, completed, told, finished>>

\* The entries among ks that are about job j.
EntriesOf(e, ks, j) == {k \in ks : e.jobs[k].id = j}

\* fan_out_job_completes, one fan-out per entry: the notifiers' default handlers answer
\* Skipped at once.
FanOutJobCompletes ==
    /\ watch.pc = "jobs"
    /\ LET e == watch.event
           new == NewlyTerminal(e)
       IN  /\ completed' = completed \cup {e.jobs[k].id : k \in new}
           /\ told' = [j \in JobIds |->
                          LET mine == EntriesOf(e, new, j)
                          IN  IF mine = {} THEN told[j]
                              ELSE Append(told[j], [calls |-> Cardinality(mine),
                                                    steady |-> e.steady])]
    /\ watch' = IF watch.event.done THEN [watch EXCEPT !.pc = "start"]
                ELSE [pc |-> "recv", event |-> NoEvent]
    /\ WatchFrame /\ UNCHANGED <<chan, finished>>

\* spawn_fan_out: one detached task per notifier.
FanOutRunComplete ==
    /\ watch.pc = "start" /\ watch' = [watch EXCEPT !.pc = "wait"]
    /\ WatchFrame /\ UNCHANGED <<chan, completed, told, finished>>

\* Every handle of the fan-out has been awaited.
AllReturned ==
    /\ \A n \in Mailers : caller[n] = "done"
    /\ \A n \in Webhooks : webhook[n] = "done"

JoinFanOut ==
    /\ watch.pc = "wait" /\ AllReturned
    /\ watch' = [watch EXCEPT !.pc = "finish"]
    /\ WatchFrame /\ UNCHANGED <<chan, completed, told, finished>>

\* RunFinished is queued whatever the notifiers answered.
SendRunFinished ==
    /\ watch.pc = "finish"
    /\ finished' = Append(finished, StoredConclusion(watch.event.conclusion))
    /\ watch' = [pc |-> "join", event |-> NoEvent]
    /\ WatchFrame /\ UNCHANGED <<chan, completed, told>>

JoinDrive ==
    /\ watch.pc = "join" /\ drive.pc = "ended"
    /\ watch' = [watch EXCEPT !.pc = "ended"]
    /\ WatchFrame /\ UNCHANGED <<chan, completed, told, finished>>

\* After the drain timeout the dispatcher drops its JoinSet: the receiver goes, the
\* fan-out tasks and the drive task stay.
Abort ==
    /\ cancel /\ watch.pc \notin {"ended", "aborted"}
    /\ watch' = [pc |-> "aborted", event |-> NoEvent] /\ chan' = <<>>
    /\ WatchFrame /\ UNCHANGED <<completed, told, finished>>

-----------------------------------------------------------------------------
(* The notifiers' on_run_complete. *)

RunFanOutStarted == watch.pc = "wait"

\* The tasks of the fan-out keep running after an abort; they start with it.
MailStep(n) ==
    /\ \/ RunFanOutStarted /\ StartMail(n)
       \/ CallerStep(n) \/ HelperStep(n)
    /\ UNCHANGED monitorVars

WebhookReturns(n, r) ==
    /\ webhook' = [webhook EXCEPT ![n] = "done"] /\ verdict' = [verdict EXCEPT ![n] = r]

WebhookFrame == UNCHANGED <<cancel, mailVars, gh, drive, chan, watch, completed, told, finished>>

\* fire_on, the embed, its validation.
StartWebhook(n) ==
    /\ RunFanOutStarted /\ webhook[n] = "idle"
    /\ \/ n \notin Listening /\ WebhookReturns(n, "Skipped")
       \/ n \in Listening /\ WebhookReturns(n, "Permanent")
       \/ n \in Listening /\ webhook' = [webhook EXCEPT ![n] = "select"] /\ UNCHANGED verdict
    /\ WebhookFrame

\* classify_twilight_error.
Answers == {"2xx", "400", "401", "403", "404", "410", "429", "5xx", "Validation",
            "RequestTimedOut", "Transport"}
ClassifyTwilightError(a) ==
    CASE a = "2xx" -> "Sent"
      [] a \in {"429", "5xx", "RequestTimedOut", "Transport"} -> "Transient"
      [] OTHER -> "Permanent"

\* The biased select: the cancellation is looked at first, on every poll.
DeliverOrCancel(n) ==
    /\ \/ webhook[n] = "select" /\ ~cancel
          /\ webhook' = [webhook EXCEPT ![n] = "request"] /\ UNCHANGED verdict
       \/ webhook[n] \in {"select", "request"} /\ cancel /\ WebhookReturns(n, "Transient")
       \/ webhook[n] = "request" /\ \E a \in Answers : WebhookReturns(n, ClassifyTwilightError(a))
    /\ WebhookFrame

-----------------------------------------------------------------------------
DriveNext == RateGate \/ PollError \/ ReadRun \/ ReadJobsPage \/ SendEvent \/ IntervalOrCancel
WatchNext == Recv \/ RecvClosed \/ FanOutJobCompletes \/ FanOutRunComplete \/ JoinFanOut
             \/ SendRunFinished \/ JoinDrive

\* GitHub is shown while the monitor reads it, the delivery agent while a helper runs.
Next ==
    \/ drive.pc # "ended" /\ (JobEnds \/ JobAppears \/ RunCompletes \/ RunIsRerun)
    \/ DriveNext \/ WatchNext \/ Abort
    \/ \E n \in Mailers : MailStep(n)
    \/ \E n \in Webhooks : StartWebhook(n) \/ DeliverOrCancel(n)
    \/ (\E n \in Mailers : helper[n] # "idle") /\ AgentStep /\ UNCHANGED monitorVars
    \/ CancelMail /\ UNCHANGED monitorVars

Spec == Init /\ [][Next]_vars

\* The monitor's requests (classified_get) and the lock wait have timeouts and every
\* ready task is polled; a request that can succeed does not fail for ever, for no page,
\* and select! does not pass over a ready cancellation for ever.  Nothing makes the
\* delivery agent let go.
FairSpec ==
    /\ Spec
    /\ WF_vars(DriveNext) /\ WF_vars(WatchNext)
    /\ SF_vars(ReadRun) /\ SF_vars(RateGate /\ drive'.pc = "run")
    /\ \A k \in 0..(JobsPages - 1) : SF_vars(ReadJobsPage /\ drive.list.pages = k)
    /\ SF_vars(IntervalOrCancel /\ drive'.pc = "ended")
    /\ \A n \in Mailers :
          /\ WF_vars(RunFanOutStarted /\ StartMail(n) /\ UNCHANGED monitorVars)
          /\ WF_vars(CallerStep(n) /\ UNCHANGED monitorVars)
          /\ WF_vars(HelperStep(n) /\ UNCHANGED monitorVars)
    /\ \A n \in Webhooks : WF_vars(StartWebhook(n)) /\ WF_vars(DeliverOrCancel(n))

-----------------------------------------------------------------------------
(* Properties. *)

\* A job is told of by one event at most, over any number of polls that repeat it and
\* over re-runs with new jobs; and once only, if the listing did not move while that
\* event's pages were read.
JobToldByOneEvent ==
    \A j \in JobIds :
       /\ Len(told[j]) <= 1
       /\ \A i \in DOMAIN told[j] : told[j][i].steady => told[j][i].calls = 1

\* RunFinished, which moves the run to notified_runs, is sent only after every
\* notifier has answered.
FinishedAfterNotifiers == finished # <<>> => AllReturned

\* What a run tells its notifiers, and when the state is told of them.
RunIsToldInOrder == TypeOK /\ JobToldByOneEvent /\ FinishedAfterNotifiers

\* flow/monitor.rs on fan_out_job_completes: "exactly once per (run, job) pair".
JobToldOnce == \A j \in JobIds : Len(told[j]) <= 1 /\ \A i \in DOMAIN told[j] : told[j][i].calls = 1

\* A run GitHub completed for good is finished in the state too, unless the flow is
\* cancelled or GitHub refuses the credential: transient failures, a busy spool and
\* a full event channel only delay it.
CompletedRunIsFinished ==
    ([]~cancel /\ <>[](gh.status = "completed")) =>
        <>(finished # <<>> \/ drive.outcome = "Failed")

\* A cancelled monitor ends by itself, also while the spool lock is held by somebody
\* who never releases it.
MonitorEnds == cancel ~> (watch.pc \in {"ended", "aborted"})

\* notifiers.md on "spool lock not acquired within 5s": backon will retry on the
\* next supervisor cycle.
TransientIsRetried ==
    \A n \in Mailers : (result[n] = "Transient" /\ ~cancel) ~> (result[n] = "Sent" \/ cancel)

=============================================================================
