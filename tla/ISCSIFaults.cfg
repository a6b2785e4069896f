SPECIFICATION Spec
CONSTANTS
  v1 = v1
  Volumes = {v1, v2}
  Handlers = {h1, h2}
  Devices = {d1, d2}
  Claims = {v1, v2}
  ClaimOf <- OwnClaims
  Targets = {v1, v2}
  TargetOf <- OwnTargets
  Preempting = {v1}
  NoVolume = NoVolume
  NoDevice = NoDevice
  Faults = {"io", "exec", "detach", "republish", "foreign", "context", "restart"}
SYMMETRY Symmetry
INVARIANTS
  TypeOK
  VolumeExclusion
  PublishedServed
  NoSilentLeak
PROPERTIES
  ImplementsSerialVolumes
  ImplementsVolumeDevices
