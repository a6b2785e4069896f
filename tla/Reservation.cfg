SPECIFICATION Spec
CONSTANTS
  Nodes = {n1, n2, n3}
  Keys = {n1, n2, n3}
  KeyOf <- OwnKeys
  NoNode = NoNode
  NoKey = NoKey
  Faults = {"timeout", "target", "restart"}
SYMMETRY Symmetry
INVARIANTS
  TypeOK
  AtMostOneWriter
PROPERTIES
  ImplementsLunOwner
