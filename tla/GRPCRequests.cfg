SPECIFICATION FairSpec
CONSTANTS
  Requests = {r1, r2}
  Endpoints = {"unix", "tcp", "upper", "invalid"}
  Stops = {"graceful", "force"}
  Faults = {"io", "signal"}
INVARIANTS
  TypeOK
  RequestIDsOrdered
  AnswersLogged
  PanicOnlyBeforeServer
PROPERTIES
  DriverComesBack
