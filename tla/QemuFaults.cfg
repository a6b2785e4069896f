SPECIFICATION Spec
CONSTANTS
  Volumes = {v1, v2}
  Handlers = {h1, h2}
  Devices = {1, 2}
  Claims = {v1, v2}
  ClaimOf <- OwnClaims
  NoVolume = NoVolume
  NoHandler = NoHandler
  NoDevice = 0
  Faults = {"io", "image", "exec", "detach", "republish", "restart"}
SYMMETRY Symmetry
INVARIANTS
  TypeOK
  VolumeExclusion
  AllocatedDeviceIsOurs
  PublishedServed
  UnpublishedForgetsDevice
  NoSilentLeak
PROPERTIES
  PublishedLoadable
  ImageKept
