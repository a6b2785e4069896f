SPECIFICATION FairSpec
CONSTANTS
  Requests = {r1}
  Endpoints = {"unix"}
  Stops = {"graceful"}
  Faults = {"signal"}
PROPERTIES
  WaitReturns
