SPECIFICATION Spec
CONSTANTS
  NULL = NULL
  f1 = f1
  s0 = s0
  s1 = s1
  s2 = s2
  success = success
  Flow = f1
  Base = s0
  RemoteFails = TRUE
  Strategy = "Grokmirror"
  Flows <- MCFlows
  Shas <- MCShas
  Times <- MCTimes
  RunIds <- MCRunIds
  Conclusions <- MCConclusions
  NOTIFIED_RUNS_CAP = 1
  COOLDOWN = 1
  TRIGGER_QUEUE = 1
  STATE_QUEUE = 1
  MaxPushes = 1
  MaxRuns = 1
  MaxManual = 0
  MaxGenerations = 2
  MaxKills = 0
  MaxClock = 3
INVARIANTS
  FinishedRunIsKnown
PROPERTIES
  CancelledFlowEnds
CHECK_DEADLOCK FALSE
