------------------------- MODULE ControlPlaneProofs -------------------------
(***************************************************************************)
(* What a control client is told is what happened, for any number of       *)
(* clients, any capacity of the two queues, and any number of restarts.    *)
(***************************************************************************)
EXTENDS ControlPlane, TLAPS

\* A client asks once, so nothing of it is anywhere before it asked.
IdleInv ==
    \A c \in Clients : client[c] = "idle" =>
       conn[c] = "none" /\ reply[c] = "none" /\ done[c] = 0

\* A connection: before its command is answered nothing was done, and its answer,
\* once there is one, is true.
ConnInv ==
    \A c \in Clients :
       /\ conn[c] \in {"backlog", "sending", "waiting"} => reply[c] = "none"
       /\ conn[c] = "answered" => reply[c] # "none"
       /\ (conn[c] # "none" /\ reply[c] = "none") => done[c] = 0
       /\ reply[c] = "error" => done[c] = 0
       /\ (reply[c] = "ok" /\ req[c] \in {"trigger", "reload"}) => done[c] = 1

\* A client that has its answer is not in the middle of another one, and what it was
\* told is true.
ToldInv ==
    \A c \in Clients :
       /\ client[c] \in {"ok", "error"} =>
             conn[c] = "none" \/ (conn[c] = "reading" /\ reply[c] # "none")
       /\ (client[c] = "ok" /\ req[c] \in {"trigger", "reload"}) => done[c] = 1
       /\ client[c] = "error" => done[c] = 0

\* Every queued command, and the one the supervisor runs, belongs to a connection that
\* waits for it, and to one only.
QueueInv ==
    /\ \A i \in DOMAIN queue : conn[queue[i]] = "waiting"
    /\ \A i, j \in DOMAIN queue : queue[i] = queue[j] => i = j
    /\ sup = "command" =>
          /\ cmd \in Clients /\ conn[cmd] = "waiting"
          /\ \A i \in DOMAIN queue : queue[i] # cmd

AnswerInv == TypeOK /\ IdleInv /\ ConnInv /\ ToldInv /\ QueueInv

-----------------------------------------------------------------------------
\* The process starts, or is gone with its sockets and queues (run, kill -9).
LEMMA LifetimeKeepsAnswers ==
  ASSUME AnswerInv, Start \/ Kill \/ Exit
  PROVE  AnswerInv'
<1> USE DEF AnswerInv, TypeOK
<1>1. CASE Start
  BY <1>1, ControlAssumption DEF Start, IdleInv, ConnInv, ToldInv, QueueInv
<1>2. CASE Wreck
  <2>1. TypeOK'
    <3>1. /\ conn' \in [Clients -> {"none", "backlog", "reading", "sending", "waiting",
                                    "answered"}]
          /\ reply' \in [Clients -> {"none", "ok", "error", "nil"}]
          /\ client' \in [Clients -> {"idle", "waiting", "ok", "error", "transport"}]
      BY <1>2 DEF Wreck
    <3>2. queue' \in Seq(Clients) /\ Len(queue') <= QueueCap
      BY <1>2, ControlAssumption DEF Wreck
    <3>3. cmd' \in Clients \cup {Nobody} /\ gate' \in 0..Window /\ tq' \in 0..TriggerCap
      BY <1>2, ControlAssumption DEF Wreck
    <3> QED
      BY <1>2, <3>1, <3>2, <3>3 DEF Wreck
  <2>2. IdleInv' /\ ConnInv' /\ ToldInv'
    BY <1>2 DEF Wreck, IdleInv, ConnInv, ToldInv
  <2>3. QueueInv'
    BY <1>2 DEF Wreck, QueueInv
  <2> QED
    BY <2>1, <2>2, <2>3
<1> QED
  BY <1>1, <1>2 DEF Kill, Exit

\* The client's own steps (Client::connect, Client::send).
LEMMA ClientKeepsAnswers ==
  ASSUME AnswerInv, NEW c \in Clients, Connect(c) \/ ClientTimesOut(c)
  PROVE  AnswerInv'
<1> USE DEF AnswerInv, TypeOK
<1>1. CASE Connect(c)
  <2>1. TypeOK'
    <3>1. PICK k \in Asks[c] : req' = [req EXCEPT ![c] = k]
      BY <1>1 DEF Connect
    <3>2. k \in Kinds
      BY <3>1, ControlAssumption
    <3>3. req' \in [Clients -> Kinds \cup {"none"}]
      BY <3>1, <3>2
    <3>4. /\ conn' \in [Clients -> {"none", "backlog", "reading", "sending", "waiting",
                                    "answered"}]
          /\ client' \in [Clients -> {"idle", "waiting", "ok", "error", "transport"}]
      BY <1>1 DEF Connect
    <3> QED
      BY <1>1, <3>3, <3>4 DEF Connect
  <2>2. IdleInv'
    BY <1>1 DEF Connect, IdleInv
  <2>3. ConnInv'
    BY <1>1 DEF Connect, IdleInv, ConnInv
  <2>4. ToldInv'
    BY <1>1 DEF Connect, IdleInv, ToldInv
  <2>5. QueueInv'
    BY <1>1 DEF Connect, IdleInv, QueueInv
  <2> QED
    BY <2>1, <2>2, <2>3, <2>4, <2>5
<1>2. CASE ClientTimesOut(c)
  BY <1>2 DEF ClientTimesOut, IdleInv, ConnInv, ToldInv, QueueInv
<1> QED
  BY <1>1, <1>2

\* The connection's steps (serve, handle_connection, dispatch_cmd).
LEMMA ServeKeepsAnswers ==
  ASSUME AnswerInv, NEW c \in Clients, Serve(c)
  PROVE  AnswerInv'
<1> USE DEF AnswerInv, TypeOK
<1>1. CASE Accept(c)
  <2>1. TypeOK'
    BY <1>1 DEF Accept
  <2>2. IdleInv' /\ ConnInv'
    BY <1>1 DEF Accept, IdleInv, ConnInv
  <2>3. ToldInv'
    BY <1>1 DEF Accept, ToldInv
  <2>4. QueueInv'
    BY <1>1 DEF Accept, QueueInv
  <2> QED
    BY <2>1, <2>2, <2>3, <2>4
<1>2. CASE Dispatch(c)
  <2>1. TypeOK'
    BY <1>2, ControlAssumption DEF Dispatch, Answer
  <2>2. IdleInv'
    BY <1>2 DEF Dispatch, Answer, IdleInv
  <2>3. ConnInv'
    BY <1>2 DEF Dispatch, Answer, ConnInv
  <2>4. ToldInv'
    BY <1>2 DEF Dispatch, Answer, ToldInv
  <2>5. QueueInv'
    BY <1>2 DEF Dispatch, Answer, QueueInv
  <2> QED
    BY <2>1, <2>2, <2>3, <2>4, <2>5
<1>3. CASE SendCommand(c)
  <2>1. TypeOK'
    BY <1>3, ControlAssumption DEF SendCommand
  <2>2. IdleInv' /\ ConnInv' /\ ToldInv'
    BY <1>3 DEF SendCommand, IdleInv, ConnInv, ToldInv
  <2>3. QueueInv'
    BY <1>3 DEF SendCommand, QueueInv
  <2> QED
    BY <2>1, <2>2, <2>3
<1>4. CASE SendResponse(c)
  <2>1. TypeOK'
    BY <1>4 DEF SendResponse, ConnInv
  <2>2. IdleInv' /\ ConnInv'
    BY <1>4 DEF SendResponse, IdleInv, ConnInv
  <2>3. ToldInv'
    BY <1>4 DEF SendResponse, ToldInv, ConnInv
  <2>4. QueueInv'
    BY <1>4 DEF SendResponse, QueueInv
  <2> QED
    BY <2>1, <2>2, <2>3, <2>4
<1>5. CASE CloseConnection(c)
  <2>1. TypeOK'
    BY <1>5 DEF CloseConnection
  <2>2. IdleInv' /\ ConnInv'
    BY <1>5 DEF CloseConnection, IdleInv, ConnInv
  <2>3. ToldInv'
    BY <1>5 DEF CloseConnection, ToldInv
  <2>4. QueueInv'
    BY <1>5 DEF CloseConnection, QueueInv
  <2> QED
    BY <2>1, <2>2, <2>3, <2>4
<1> QED
  BY <1>1, <1>2, <1>3, <1>4, <1>5 DEF Serve

\* The supervisor's command arm (run_trigger, run_reload): what it did and the answer
\* it leaves in the oneshot go together.
LEMMA CommandKeepsAnswers ==
  ASSUME AnswerInv, TakeCommand \/ RefuseTrigger \/ EnqueueTrigger \/ ReloadDone
  PROVE  AnswerInv'
<1> USE DEF AnswerInv, TypeOK
<1>1. CASE TakeCommand
  <2>1. Head(queue) \in Clients /\ Tail(queue) \in Seq(Clients)
        /\ Len(Tail(queue)) = Len(queue) - 1 /\ Head(queue) = queue[1]
        /\ 1 \in DOMAIN queue
        /\ \A i \in DOMAIN Tail(queue) :
              Tail(queue)[i] = queue[i + 1] /\ i + 1 \in DOMAIN queue /\ i + 1 # 1
    BY <1>1 DEF TakeCommand
  <2>2. TypeOK'
    BY <1>1, <2>1, ControlAssumption DEF TakeCommand
  <2>3. IdleInv' /\ ConnInv' /\ ToldInv'
    BY <1>1 DEF TakeCommand, IdleInv, ConnInv, ToldInv
  <2>4. QueueInv'
    BY SMTT(30), <1>1, <2>1 DEF TakeCommand, QueueInv
  <2> QED
    BY <2>2, <2>3, <2>4
<1>2. ASSUME sup = "command", NEW r \in {"ok", "error"}, Finish(r), NEW n \in {0, 1},
             done' = [done EXCEPT ![cmd] = n],
             r = "error" => n = 0,
             (r = "ok" /\ req[cmd] \in {"trigger", "reload"}) => n = 1,
             UNCHANGED <<starts, open, req, client, queue, gate>>,
             disp' \in {"live", "dead"}, tq' \in 0..TriggerCap
      PROVE  AnswerInv'
  <2>1. cmd \in Clients /\ conn[cmd] = "waiting"
    BY <1>2 DEF QueueInv
  <2>2. TypeOK'
    BY <1>2, <2>1, ControlAssumption DEF Finish
  <2>3. IdleInv'
    BY <1>2, <2>1 DEF Finish, IdleInv
  <2>4. ConnInv'
    BY <1>2, <2>1 DEF Finish, ConnInv
  <2>5. ToldInv'
    BY <1>2, <2>1 DEF Finish, ToldInv
  <2>6. QueueInv'
    BY <1>2, <2>1 DEF Finish, QueueInv
  <2> QED
    BY <2>2, <2>3, <2>4, <2>5, <2>6
<1>3. sup = "command" => cmd \in Clients /\ done[cmd] = 0
  BY DEF QueueInv, ConnInv
<1>4. CASE RefuseTrigger
  <2>1. sup = "command" /\ UNCHANGED <<starts, open, req, client, queue, gate, disp, tq, done>>
    BY <1>4 DEF RefuseTrigger
  <2>2. done' = [done EXCEPT ![cmd] = 0]
    BY <1>3, <2>1
  <2>3. PICK r \in {"ok", "error"} : Finish(r) /\ ~(r = "ok" /\ req[cmd] \in {"trigger", "reload"})
    BY <1>4 DEF RefuseTrigger
  <2> QED
    BY <1>2, <2>1, <2>2, <2>3
<1>5. CASE EnqueueTrigger
  <2>1. done' = [done EXCEPT ![cmd] = 1]
    BY <1>3, <1>5 DEF EnqueueTrigger
  <2>2. tq' \in 0..TriggerCap
    BY <1>5, ControlAssumption DEF EnqueueTrigger
  <2> QED
    BY <1>2, <1>5, <2>1, <2>2 DEF EnqueueTrigger
<1>6. CASE ReloadDone
  <2>1. done' = [done EXCEPT ![cmd] = 1]
    BY <1>3, <1>6 DEF ReloadDone
  <2>2. disp' \in {"live", "dead"} /\ tq' \in 0..TriggerCap
    BY <1>6, ControlAssumption DEF ReloadDone, AfterReload
  <2> QED
    BY <1>2, <1>6, <2>1, <2>2 DEF ReloadDone
<1> QED
  BY <1>1, <1>4, <1>5, <1>6

\* What the rest of the daemon does leaves connections, queue and answers alone.
LEMMA RestKeepsAnswers ==
  ASSUME AnswerInv,
         \/ Sighup \/ SighupDone \/ BreakLoop \/ FlowsDrained \/ ControlServed
         \/ StopAccepting \/ PollOffers \/ DispatcherTakes \/ DispatcherDies \/ Respawn
         \/ Tick \/ UNCHANGED vars
  PROVE  AnswerInv'
<1>1. UNCHANGED <<starts, req, client, conn, reply, queue, cmd, done>>
  BY DEF Sighup, SighupDone, BreakLoop, FlowsDrained, ControlServed, StopAccepting,
         PollOffers, DispatcherTakes, DispatcherDies, Respawn, Tick, vars
<1>2. sup' = "command" => sup = "command"
  BY DEF Sighup, SighupDone, BreakLoop, FlowsDrained, ControlServed, StopAccepting,
         PollOffers, DispatcherTakes, DispatcherDies, Respawn, Tick, vars
<1>3. open' \in BOOLEAN
  BY DEF Sighup, SighupDone, BreakLoop, FlowsDrained, ControlServed, StopAccepting,
         PollOffers, DispatcherTakes, DispatcherDies, Respawn, Tick, vars, AnswerInv, TypeOK
<1>4. sup' \in {"down", "loop", "command", "sighup", "draining", "control", "writer"}
  BY DEF Sighup, SighupDone, BreakLoop, FlowsDrained, ControlServed, StopAccepting,
         PollOffers, DispatcherTakes, DispatcherDies, Respawn, Tick, vars, AnswerInv, TypeOK
<1>5. gate' \in 0..Window
  <2>1. CASE Tick
    BY <2>1, ControlAssumption DEF Tick, AnswerInv, TypeOK
  <2> QED
    BY <2>1 DEF Sighup, SighupDone, BreakLoop, FlowsDrained, ControlServed, StopAccepting,
                PollOffers, DispatcherTakes, DispatcherDies, Respawn, vars, AnswerInv, TypeOK
<1>6. disp' \in {"live", "dead"} /\ tq' \in 0..TriggerCap
  <2>1. CASE PollOffers \/ DispatcherTakes \/ DispatcherDies
    BY <2>1, ControlAssumption DEF PollOffers, DispatcherTakes, DispatcherDies, AnswerInv, TypeOK
  <2>2. CASE SighupDone \/ FlowsDrained \/ Respawn
    BY <2>2, ControlAssumption
       DEF SighupDone, AfterReload, FlowsDrained, Respawn, AnswerInv, TypeOK
  <2> QED
    BY <2>1, <2>2 DEF Sighup, BreakLoop, ControlServed, StopAccepting, Tick, vars, AnswerInv,
                      TypeOK
<1>7. TypeOK'
  BY <1>1, <1>3, <1>4, <1>5, <1>6 DEF AnswerInv, TypeOK
<1>8. IdleInv' /\ ConnInv' /\ ToldInv' /\ QueueInv'
  BY <1>1, <1>2 DEF AnswerInv, IdleInv, ConnInv, ToldInv, QueueInv
<1> QED
  BY <1>7, <1>8 DEF AnswerInv

\* Ok means that the trigger is in the dispatcher's queue or that the reload has run, an
\* error means neither, and no command takes effect twice, whatever times out, fills up
\* or dies meanwhile (Client::send, handle_connection, dispatch_cmd, run_trigger).
THEOREM AnswerCorrect == Spec => []AnswerIsTrue
<1>1. Init => AnswerInv
  <2> SUFFICES ASSUME Init PROVE AnswerInv
    OBVIOUS
  <2>1. req \in [Clients -> Kinds \cup {"none"}] /\ done \in [Clients -> 0..1]
    BY DEF Init
  <2>2. queue \in Seq(Clients) /\ Len(queue) <= QueueCap /\ DOMAIN queue = {}
    BY ControlAssumption DEF Init
  <2>3. TypeOK
    <3>1. /\ client \in [Clients -> {"idle", "waiting", "ok", "error", "transport"}]
          /\ conn \in [Clients -> {"none", "backlog", "reading", "sending", "waiting",
                                   "answered"}]
          /\ reply \in [Clients -> {"none", "ok", "error", "nil"}]
      BY DEF Init
    <3>2. starts \in 0..MaxStarts /\ gate \in 0..Window /\ tq \in 0..TriggerCap
      BY ControlAssumption DEF Init
    <3> QED
      BY <2>1, <2>2, <3>1, <3>2 DEF Init, TypeOK
  <2>4. IdleInv /\ ConnInv /\ ToldInv
    BY DEF Init, IdleInv, ConnInv, ToldInv
  <2>5. QueueInv
    BY <2>2 DEF Init, QueueInv
  <2> QED
    BY <2>3, <2>4, <2>5 DEF AnswerInv
<1>2. AnswerInv /\ [Next]_vars => AnswerInv'
  BY LifetimeKeepsAnswers, ClientKeepsAnswers, ServeKeepsAnswers, CommandKeepsAnswers,
     RestKeepsAnswers DEF Next, Supervise
<1>3. AnswerInv => AnswerIsTrue
  BY DEF AnswerInv, ToldInv, AnswerIsTrue
<1> QED
  BY <1>1, <1>2, <1>3, PTL DEF Spec

=============================================================================
