SPECIFICATION Spec
CONSTANTS
  Volumes = {v1, v2}
  Clients = {c1, c2, c3, c4}
  NoHold = NoHold
  Serialised = {"delete", "expand"}
SYMMETRY Symmetry
INVARIANTS
  TypeOK
  ConflictsExcluded
  NoOrphanLock
  CountersMatch
PROPERTIES
  ConflictsRefused
