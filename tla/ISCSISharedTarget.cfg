SPECIFICATION Spec
CONSTANTS
  v1 = v1
  Volumes = {v1, v2}
  Handlers = {h1}
  Devices = {d1, d2}
  Claims = {v1, v2}
  ClaimOf <- OwnClaims
  Targets = {v1, v2}
  TargetOf <- SharedTarget
  Preempting = {v1}
  NoVolume = NoVolume
  NoDevice = NoDevice
  Faults = {}
SYMMETRY Symmetry
INVARIANTS
  PublishedServed
