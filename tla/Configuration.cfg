SPECIFICATION ConfigurationSpec
CONSTANTS
  Nobody = Nobody
  f1 = f1
  f2 = f2
  c1 = c1
  c2 = c2
  Flows <- MCFlows
  Creds <- MCCreds
  Configs <- MCConfigs
  Layouts <- MCLayouts
  MaxToken = 1
  MaxReloads = 2
  MaxEntries = 3
  Permits = 1
  Texts <- MCTexts
  Hosts <- MCHosts
  Buckets = {"github", "kernel"}
  Users <- MCFlows
  Interval = 2
  MaxLate = 1
  MaxAhead = 4
  Nowhere = Nowhere
  None = None
  Sources <- MCSources
  Refs <- MCRefs
  MaxPush = 2
  Bodies <- MCBodies
  Subjects <- MCSubjects
  Rendered <- MCRendered
  MaxMails = 2
  MaxJobs = 5
  FIELD_COUNT = 3
  FIELD_NAME_LENGTH = 1
  FIELD_VALUE_LENGTH = 2
  TEXT_LENGTH = 3
  EMBED_TOTAL_LENGTH = 8
INVARIANTS
  PoolIsSound
  
  
  MessagesReadBack
  SourcesAreSound
CHECK_DEADLOCK FALSE
