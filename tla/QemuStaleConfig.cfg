SPECIFICATION Spec
CONSTANTS
  Volumes = {v1, v2}
  Handlers = {h1}
  Devices = {1, 2}
  Claims = {v1, v2}
  ClaimOf <- OwnClaims
  NoVolume = NoVolume
  NoHandler = NoHandler
  NoDevice = 0
  Faults = {"restart"}
SYMMETRY Symmetry
INVARIANTS
  UnpublishFindsOwnDevice
