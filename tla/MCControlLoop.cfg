CONSTANTS
  Endpoints = {1, 2}
  Addrs = {"old", "new"}
  Name = "new"
  Scenarios <- MCScenarios
  LadderCap = 4
  MaxMoves = 1
  MaxFaults = 1
  MaxThrottles = 1
SPECIFICATION Spec
PROPERTY PushRefines PlainOffByName NodeServed
