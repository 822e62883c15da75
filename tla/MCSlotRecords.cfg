\* Three requests on one sidecar or on residents, one shutdown or crash, and a
\* sweeper whose age floor no request outlives (the default of one day).
SPECIFICATION FairSpec
CONSTANTS
  Slots = {s1, s2, s3}
  MaxExits = 1
  PatientSweep = TRUE
INVARIANTS
  TypeOK
  DoneRowEnded
  BootSettles
PROPERTIES
  RefinesRowLife
  StagedRowsEnd
CHECK_DEADLOCK FALSE
