SPECIFICATION Spec
CONSTANTS
  None = None
  Nothing = None
  Agent = Agent
  m1 = m1
  w1 = w1
  PollInterval = 1
  MaxReset = 1
  Mailers = {}
  Listening <- MCListening
  Webhooks <- MCWebhooks
  EventQueue = 1
  JobsCap = 2
  JobsPages = 3
  PerPage = 1
  JobCount = 2
  LateJobs = 1
  MaxReruns = 1
INVARIANTS
  RunIsToldInOrder
CHECK_DEADLOCK FALSE
