SPECIFICATION Spec
CONSTANTS
  NULL = NULL
  NoFile = NoFile
  Unreadable = Unreadable
  f1 = f1
  sNew = sNew
  t1 = t1
  success = success
  Flows <- MCFlows
  Shas <- MCShas
  Times <- MCTimes
  RunIds <- MCRunIds
  Conclusions <- MCConclusions
  Updates <- MCUpdates
  NOTIFIED_RUNS_CAP = 1
  STATE_QUEUE = 2
  BATCH_LIMIT = 2
  MaxSent = 4
INVARIANTS
  StateWellFormed
  CleanMeansPersisted
PROPERTIES
  FileStaysReadable
  MirrorShowsDurable
  ImplementsStore
  ShutdownTerminates
