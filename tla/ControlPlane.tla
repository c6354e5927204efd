---------------------------- MODULE ControlPlane ----------------------------
(***************************************************************************)
(* The control socket of a daemon: one-shot clients (`gcit status`,        *)
(* `trigger`, `reload`), one server task per connection, the bounded       *)
(* command queue to the supervisor, and the supervisor's loop, which runs  *)
(* one command at a time and, for a manual trigger, waits for room in the  *)
(* flow's trigger queue.  Shutdown cancels the connections and waits for   *)
(* them; nobody receives from the command queue any more by then.          *)
(***************************************************************************)
EXTENDS Integers, Sequences

CONSTANTS
    Clients,    \* CLI processes, one request each
    Nobody,     \* an absent client
    MaxStarts,  \* bound: starts of the daemon
    Asks,       \* what each client may ask for
    QueueCap,   \* CONTROL_COMMAND_QUEUE
    TriggerCap, \* TRIGGER_QUEUE
    Window      \* RELOAD_WINDOW, in ticks

\* "dry_run" stands for a trigger that run_trigger answers without the dispatcher: a
\* dry run, or a flow that is unknown, disabled or without an observed sha;
\* "foreign" for any request under another uid; "status" for `version` as well, both
\* of which the connection answers by itself.
Kinds == {"trigger", "dry_run", "status", "reload", "malformed", "stalled",
          "foreign"}
Commands == {"trigger", "dry_run", "reload"}

ASSUME ControlAssumption ==
    /\ Nobody \notin Clients /\ MaxStarts \in Nat /\ Asks \in [Clients -> SUBSET Kinds]
    /\ QueueCap \in Nat \ {0} /\ TriggerCap \in Nat \ {0} /\ Window \in Nat \ {0}

VARIABLES
    starts,  \* how often the daemon was started
    req,     \* what each client asked for, or "none"
    client,  \* what each client knows
    conn,    \* the server's task for the client's connection
    reply,   \* the answer on its way to the client
    queue,   \* control_cmd_rx
    open,    \* serve's accept loop runs
    sup,     \* where the supervisor is
    cmd,     \* the client whose command it runs
    gate,    \* ticks since a reload was accepted, at most Window
    disp,    \* the flow's dispatcher: "live" or "dead"
    tq,      \* triggers in its queue
    done     \* history: how often each client's command took effect

vars == <<starts, req, client, conn, reply, queue, open, sup, cmd, gate, disp, tq, done>>

TypeOK ==
    /\ starts \in 0..MaxStarts
    /\ req \in [Clients -> Kinds \cup {"none"}]
    /\ client \in [Clients -> {"idle", "waiting", "ok", "error", "transport"}]
    /\ conn \in [Clients -> {"none", "backlog", "reading", "sending", "waiting", "answered"}]
    /\ reply \in [Clients -> {"none", "ok", "error", "nil"}]
    /\ open \in BOOLEAN
    /\ queue \in Seq(Clients) /\ Len(queue) <= QueueCap
    /\ sup \in {"down", "loop", "command", "sighup", "draining", "control", "writer"}
    /\ cmd \in Clients \cup {Nobody}
    /\ gate \in 0..Window
    /\ disp \in {"live", "dead"} /\ tq \in 0..TriggerCap
    /\ done \in [Clients -> 0..1]

Init ==
    /\ starts = 0
    /\ req = [c \in Clients |-> "none"] /\ client = [c \in Clients |-> "idle"]
    /\ conn = [c \in Clients |-> "none"] /\ reply = [c \in Clients |-> "none"]
    /\ queue = <<>> /\ open = FALSE /\ sup = "down" /\ cmd = Nobody
    /\ gate = Window
    /\ disp = "dead" /\ tq = 0
    /\ done = [c \in Clients |-> 0]

Cancelled == sup \in {"draining", "control", "writer"}

-----------------------------------------------------------------------------
(* Start and end of the daemon (DaemonBoot has the details). *)

\* The select! loop starts with fresh queues.
Start ==
    /\ sup = "down" /\ starts < MaxStarts /\ starts' = starts + 1
    /\ sup' = "loop" /\ open' = TRUE /\ disp' = "live"
    /\ UNCHANGED <<req, client, conn, reply, queue, cmd, gate, tq, done>>

\* The process is gone, and with it its sockets and queues: clients read end-of-file.
Wreck ==
    /\ conn' = [c \in Clients |-> "none"] /\ reply' = [c \in Clients |-> "none"]
    /\ client' = [c \in Clients |-> IF client[c] = "waiting" THEN "transport" ELSE client[c]]
    /\ queue' = <<>> /\ open' = FALSE /\ sup' = "down" /\ cmd' = Nobody
    /\ gate' = Window /\ disp' = "dead" /\ tq' = 0
    /\ UNCHANGED <<starts, req, done>>

Kill == sup # "down" /\ Wreck

-----------------------------------------------------------------------------
(* Client::connect and Client::send. *)

Connect(c) ==
    /\ client[c] = "idle"
    /\ \E k \in Asks[c] : req' = [req EXCEPT ![c] = k]
    /\ IF sup # "down"
       THEN /\ conn' = [conn EXCEPT ![c] = "backlog"]
            /\ client' = [client EXCEPT ![c] = "waiting"]
       ELSE client' = [client EXCEPT ![c] = "transport"] /\ UNCHANGED conn
    /\ UNCHANGED <<starts, open, reply, queue, sup, cmd, gate, disp, tq, done>>

\* READ_TIMEOUT_SECS without an answer; the client exits and its socket closes.
ClientTimesOut(c) ==
    /\ client[c] = "waiting" /\ client' = [client EXCEPT ![c] = "transport"]
    /\ UNCHANGED <<starts, open, req, conn, reply, queue, sup, cmd, gate, disp, tq, done>>

-----------------------------------------------------------------------------
(* serve and handle_connection. *)

\* The select! is unbiased: a connection can still be accepted after the cancel.
Accept(c) ==
    /\ open /\ conn[c] = "backlog"
    /\ conn' = [conn EXCEPT ![c] = IF req[c] = "foreign" THEN "none" ELSE "reading"]
    /\ client' = [client EXCEPT ![c] = IF req[c] = "foreign" /\ @ = "waiting" THEN "transport" ELSE @]
    /\ UNCHANGED <<starts, open, req, reply, queue, sup, cmd, gate, disp, tq, done>>

StopAccepting ==
    /\ open /\ Cancelled /\ open' = FALSE
    /\ UNCHANGED <<starts, req, client, conn, reply, queue, sup, cmd, gate, disp, tq, done>>

TryAcquire == gate = Window

Answer(c, r) == /\ conn' = [conn EXCEPT ![c] = "answered"]
                /\ reply' = [reply EXCEPT ![c] = r]

\* A frame is read and dispatched; reload passes the gate first.
Dispatch(c) ==
    /\ conn[c] = "reading" /\ reply[c] = "none"
    /\ \/ req[c] = "malformed" /\ Answer(c, "nil") /\ UNCHANGED gate
       \/ req[c] = "status" /\ (\E r \in {"ok", "error"} : Answer(c, r)) /\ UNCHANGED gate
       \/ /\ req[c] = "reload" /\ ~TryAcquire
          /\ Answer(c, "error") /\ UNCHANGED gate
       \/ /\ req[c] = "reload" /\ TryAcquire /\ gate' = 0
          /\ conn' = [conn EXCEPT ![c] = "sending"] /\ UNCHANGED reply
       \/ /\ req[c] \in Commands \ {"reload"}
          /\ conn' = [conn EXCEPT ![c] = "sending"] /\ UNCHANGED <<reply, gate>>
    /\ UNCHANGED <<starts, open, req, client, queue, sup, cmd, disp, tq, done>>

\* dispatch_cmd: a slot in the command queue, then the reply, neither with a deadline
\* nor raced with the cancel.
SendCommand(c) ==
    /\ conn[c] = "sending" /\ Len(queue) < QueueCap
    /\ queue' = Append(queue, c) /\ conn' = [conn EXCEPT ![c] = "waiting"]
    /\ UNCHANGED <<starts, open, req, client, reply, sup, cmd, gate, disp, tq, done>>

\* send_response has neither a timeout nor a cancellation arm: it ends because an answer
\* fits the socket's buffer or its client reads; the client checks the id of the answer.
SendResponse(c) ==
    /\ conn[c] = "answered" /\ conn' = [conn EXCEPT ![c] = "reading"]
    /\ client' = [client EXCEPT ![c] = IF @ # "waiting" THEN @
                                       ELSE IF reply[c] = "nil" THEN "transport" ELSE reply[c]]
    /\ UNCHANGED <<starts, open, req, reply, queue, sup, cmd, gate, disp, tq, done>>

ReadIgnoresCancel(c) == client[c] # "waiting"

\* What ends a read: the cancel, the end of the stream, or READ_TIMEOUT_SECS.
ReadEnds(c) == Cancelled \/ client[c] # "waiting" \/ req[c] = "stalled"

CloseConnection(c) ==
    /\ conn[c] = "reading" /\ ReadEnds(c)
    /\ conn' = [conn EXCEPT ![c] = "none"] /\ reply' = [reply EXCEPT ![c] = "none"]
    /\ client' = [client EXCEPT ![c] = IF @ = "waiting" THEN "transport" ELSE @]
    /\ UNCHANGED <<starts, open, req, queue, sup, cmd, gate, disp, tq, done>>

-----------------------------------------------------------------------------
(* The supervisor's loop. *)

TakeCommand ==
    /\ sup = "loop" /\ queue # <<>>
    /\ sup' = "command" /\ cmd' = Head(queue) /\ queue' = Tail(queue)
    /\ UNCHANGED <<starts, open, req, client, conn, reply, gate, disp, tq, done>>

\* The command is over: its oneshot is filled.
Finish(r) ==
    /\ sup' = "loop" /\ cmd' = Nobody
    /\ conn' = [conn EXCEPT ![cmd] = "answered"]
    /\ reply' = [reply EXCEPT ![cmd] = r]

RefuseTriggerUnlessDead ==
    /\ sup = "command" /\ req[cmd] = "dry_run" /\ \E r \in {"ok", "error"} : Finish(r)
    /\ UNCHANGED <<starts, open, req, client, queue, gate, disp, tq, done>>

\* run_trigger returns early, or its send fails because the receiver is gone.
RefuseTrigger ==
    /\ sup = "command"
    /\ \/ req[cmd] = "dry_run" /\ \E r \in {"ok", "error"} : Finish(r)
       \/ req[cmd] = "trigger" /\ disp = "dead" /\ Finish("error")
    /\ UNCHANGED <<starts, open, req, client, queue, gate, disp, tq, done>>

EnqueueOrDrop ==
    /\ sup = "command" /\ req[cmd] = "trigger" /\ disp = "live"
    /\ IF tq < TriggerCap THEN tq' = tq + 1 /\ done' = [done EXCEPT ![cmd] = @ + 1]
       ELSE UNCHANGED <<tq, done>>
    /\ Finish("ok")
    /\ UNCHANGED <<starts, open, req, client, queue, gate, disp>>

\* trigger_tx.send(..).await inside the select! arm: the supervisor waits for room.
EnqueueTrigger ==
    /\ sup = "command" /\ req[cmd] = "trigger" /\ disp = "live"
    /\ tq < TriggerCap /\ tq' = tq + 1
    /\ done' = [done EXCEPT ![cmd] = @ + 1]
    /\ Finish("ok")
    /\ UNCHANGED <<starts, open, req, client, queue, gate, disp>>

\* run_reload: the flow is kept (also when the new configuration is rejected),
\* respawned, or gone; the answer is Ok in any case.
AfterReload == \/ UNCHANGED <<disp, tq>>
               \/ disp' \in {"live", "dead"} /\ tq' = 0

ReloadDone ==
    /\ sup = "command" /\ req[cmd] = "reload"
    /\ done' = [done EXCEPT ![cmd] = @ + 1]
    /\ AfterReload /\ Finish("ok")
    /\ UNCHANGED <<starts, open, req, client, queue, gate>>

Sighup ==
    /\ sup = "loop" /\ sup' = "sighup"
    /\ UNCHANGED <<starts, open, req, client, conn, reply, queue, cmd, gate, disp, tq, done>>

SighupDone ==
    /\ sup = "sighup" /\ sup' = "loop" /\ AfterReload
    /\ UNCHANGED <<starts, open, req, client, conn, reply, queue, cmd, gate, done>>

\* The flow's poll task is the other sender of the trigger queue.
PollOffers ==
    /\ disp = "live" /\ tq < TriggerCap /\ tq' = tq + 1
    /\ UNCHANGED <<starts, open, req, client, conn, reply, queue, sup, cmd, gate, disp, done>>

\* The dispatcher takes a trigger and is busy for as long as the next one waits.
DispatcherTakes ==
    /\ disp = "live" /\ tq > 0 /\ tq' = tq - 1
    /\ UNCHANGED <<starts, open, req, client, conn, reply, queue, sup, cmd, gate, disp, done>>

\* It panics: the receiver is dropped, and a send that waits fails.
DispatcherDies ==
    /\ disp = "live" /\ disp' = "dead" /\ tq' = 0
    /\ UNCHANGED <<starts, open, req, client, conn, reply, queue, sup, cmd, gate, done>>

Respawn ==
    /\ sup = "loop" /\ disp = "dead" /\ disp' = "live"
    /\ UNCHANGED <<starts, open, req, client, conn, reply, queue, sup, cmd, gate, tq, done>>

Tick ==
    /\ gate < Window /\ gate' = gate + 1
    /\ UNCHANGED <<starts, open, req, client, conn, reply, queue, sup, cmd, disp, tq, done>>

-----------------------------------------------------------------------------
(* Shutdown. *)

\* SIGTERM or SIGINT, seen when the loop is back at its select!.
BreakLoop ==
    /\ sup = "loop" /\ sup' = "draining"
    /\ UNCHANGED <<starts, open, req, client, conn, reply, queue, cmd, gate, disp, tq, done>>

\* drain_flows_on_shutdown.
FlowsDrained ==
    /\ sup = "draining" /\ sup' = "control" /\ disp' = "dead" /\ tq' = 0
    /\ UNCHANGED <<starts, open, req, client, conn, reply, queue, cmd, gate, done>>

\* control_handle.await: serve waits for every connection task.
ControlServed ==
    /\ sup = "control" /\ ~open /\ \A c \in Clients : conn[c] \in {"none", "backlog"}
    /\ sup' = "writer"
    /\ UNCHANGED <<starts, open, req, client, conn, reply, queue, cmd, gate, disp, tq, done>>

\* The writer thread is joined and the process returns.
Exit == sup = "writer" /\ Wreck

-----------------------------------------------------------------------------
Supervise ==
    \/ TakeCommand \/ RefuseTrigger \/ EnqueueTrigger \/ ReloadDone
    \/ Sighup \/ SighupDone \/ BreakLoop \/ FlowsDrained \/ ControlServed

Serve(c) ==
    \/ Accept(c) \/ Dispatch(c) \/ SendCommand(c) \/ SendResponse(c) \/ CloseConnection(c)

Next ==
    \/ Start \/ Kill \/ Exit
    \/ \E c \in Clients : Connect(c) \/ ClientTimesOut(c) \/ Serve(c)
    \/ Supervise \/ StopAccepting
    \/ PollOffers \/ DispatcherTakes \/ DispatcherDies \/ Respawn \/ Tick

Spec == Init /\ [][Next]_vars

\* Commands and shutdown, once begun, go on.
GoOn ==
    \/ RefuseTrigger \/ EnqueueTrigger \/ ReloadDone \/ SighupDone
    \/ FlowsDrained \/ StopAccepting \/ ControlServed
    \/ Exit

\* The runtime polls every task that is ready; the supervisor's select! picks at
\* random, so an arm that is ready again and again is taken in the end; a bounded
\* channel serves its senders in order; a dispatcher comes back for its queue.  Clients
\* read their answers, as `gcit` does; one that sends on and never reads is not covered.
FairSpec ==
    /\ Spec
    /\ \A c \in Clients : SF_vars(Serve(c))
    /\ SF_vars(TakeCommand) /\ SF_vars(GoOn) /\ WF_vars(DispatcherTakes)

-----------------------------------------------------------------------------
(* Properties. *)

\* The queues keep to their bounds, and what the client is told is what happened,
\* across timeouts, full queues and flows that die under a waiting command: Ok means
\* the trigger is in the dispatcher's queue or the reload has run, an error means neither.
AnswerIsTrue ==
    /\ TypeOK
    /\ \A c \in Clients :
          /\ (client[c] = "ok" /\ req[c] \in {"trigger", "reload"}) => done[c] = 1
          /\ client[c] = "error" => done[c] = 0

\* A command that has reached the server is answered, although the supervisor may be
\* waiting for a dispatcher that dies, unless the daemon is stopped or killed.
CommandIsAnswered ==
    \A c \in Clients :
       conn[c] \in {"sending", "waiting"} ~> (conn[c] \in {"answered", "none"} \/ Cancelled)

InFlight == \E c \in Clients : conn[c] \in {"sending", "waiting"}

\* Stopping comes to its end whatever idle, stalled or departed clients do, as long as
\* no command is in flight.
IdleShutdownCompletes == (sup = "draining") ~> (sup = "down" \/ InFlight)

\* server.rs: the drain of the connections "is bounded by the longest in-flight
\* handler call".
ShutdownCompletes == (sup = "draining") ~> (sup = "down")

=============================================================================
