\* Two editors of one manifest, two pulls of one content, one crash.
SPECIFICATION Spec
CONSTANTS
  Clients = {c1, c2}
  Hashes = {h1}
  Pulls = {p1, p2}
  MaxVer = 3
  MaxRev = 2
  MaxCrashes = 1
SYMMETRY Symmetry
INVARIANTS
  TypeOK
  PutSurvives
  BlobSurvives
  NoStrayFile
PROPERTIES
  NoLostUpdate
CHECK_DEADLOCK FALSE
