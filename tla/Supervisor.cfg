SPECIFICATION Spec
CONSTANTS
  NULL = NULL
  a = a
  b = b
  u1 = u1
  u2 = u2
  Flows <- MCFlows
  Urls <- MCUrls
  Configs <- MCConfigs
  RESPAWN_MAX_ATTEMPTS = 1
  U8 = 256
  STATE_QUEUE = 1
  DrainTimesOut = TRUE
  MaxGenerations = 3
  MaxReloads = 1
  MaxPanics = 1
  MaxObservations = 1
INVARIANTS
  TypeOK
  PendingCoversTasks
  HandleIsUncancelled
  SlotHasWatcher
PROPERTIES
  ShutdownCompletes
CHECK_DEADLOCK FALSE
