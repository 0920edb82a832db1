CONSTANTS
  Endpoints = {1, 2}
  Addrs = {"old", "new"}
  Name = "new"
  Scenarios <- StalledScenarios
  LadderCap = 4
  MaxMoves = 1
  MaxFaults = 1
  MaxThrottles = 1
SPECIFICATION Spec
PROPERTY NodeServed
