SPECIFICATION Spec
CONSTANTS
  Volumes = {v1, v2, v3}
  Handlers = {h1, h2}
  Devices = {1, 2}
  Claims = {v1, v2, v3}
  ClaimOf <- OwnClaims
  NoVolume = NoVolume
  NoHandler = NoHandler
  NoDevice = 0
  Faults = {}
SYMMETRY Symmetry
INVARIANTS
  NoHarm
  UnpublishFindsOwnDevice
PROPERTIES
  PublishOkMeansAttached
  ImplementsSerialVolumes
  ImplementsVolumeDevices
