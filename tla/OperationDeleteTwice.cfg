SPECIFICATION Spec
CONSTANTS
  Volumes = {v1, v2}
  Clients = {c1, c2, c3}
  NoHold = NoHold
  Serialised = {}
SYMMETRY Symmetry
INVARIANT RestoreMeansNoDelete
