SPECIFICATION Spec
CONSTANTS
  NULL = NULL
  f1 = f1
  s0 = s0
  s1 = s1
  s2 = s2
  success = success
  Flow = f1
  Base = s0
  RemoteFails = TRUE
  Strategy = "LsRemote"
  Flows <- MCFlows
  Shas <- MCShas3
  Times <- MCTimes
  RunIds <- MCRunIds
  Conclusions <- MCConclusions
  NOTIFIED_RUNS_CAP = 1
  COOLDOWN = 1
  TRIGGER_QUEUE = 1
  STATE_QUEUE = 1
  MaxPushes = 2
  MaxRuns = 0
  MaxManual = 0
  MaxGenerations = 1
  MaxKills = 0
  MaxClock = 3
PROPERTIES
  ChangeIsDispatched
CHECK_DEADLOCK FALSE
