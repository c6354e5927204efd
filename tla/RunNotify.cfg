SPECIFICATION FairSpec
CONSTANTS
  None = None
  Nothing = None
  Agent = Agent
  m1 = m1
  w1 = w1
  PollInterval = 1
  MaxReset = 1
  Mailers <- MCMailers
  Listening <- MCListening
  Webhooks <- MCWebhooks
  EventQueue = 1
  JobsCap = 3
  JobsPages = 2
  PerPage = 1
  JobCount = 1
  LateJobs = 0
  MaxReruns = 1
INVARIANTS
  SpoolIsSound
PROPERTIES
  CompletedRunIsFinished
  MonitorEnds
CHECK_DEADLOCK FALSE
