SPECIFICATION FairSpec
CONSTANTS
  Nobody = Nobody
  c1 = c1
  c2 = c2
  Clients <- MCClients
  Asks <- MCAsks
  QueueCap = 1
  TriggerCap = 1
  Window = 1
  MaxStarts = 2
INVARIANTS
  AnswerIsTrue
PROPERTIES
  CommandIsAnswered
  IdleShutdownCompletes
CHECK_DEADLOCK FALSE
