SPECIFICATION Spec
CONSTANTS
  Absent = Absent
  NoProcess = NoProcess
  p1 = p1
  p2 = p2
  Procs <- MCProcs
  Outputs <- MCOutputs
  MaxRev = 1
  MaxOps = 3
  MaxEdits = 1
INVARIANTS
  BootIsExclusive
  InstallIsConsistent
PROPERTIES
  EditsAreSpared
  LeftoversStayListed
SYMMETRY Symmetry
CHECK_DEADLOCK FALSE
