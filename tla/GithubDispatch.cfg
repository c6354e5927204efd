SPECIFICATION FairSpec
CONSTANTS
  None = None
  PollInterval = 1
  MaxReset = 2
  MaxAttempts = 1
  NormalTimeout = 2
  DrainTimeout = 1
  PageSize = 1
  MaxPages = 2
  MaxRuns = 3
INVARIANTS
  RetryDiscipline
  DuplicateRunsOnlyAfterAmbiguousPost
  CorrelatedRunIsPlausible
PROPERTIES
  DrainStopsScans
  ExecuteEnds
CHECK_DEADLOCK FALSE
