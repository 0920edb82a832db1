SPECIFICATION MCSpec
CONSTANTS
  Keepalive = 0
  Slack = 0
  PingTimeout = 0
  Active = 0
  ReprobeMin = 1
  ReprobeMax = 2
  Trust = 1
  Round = 0
  Rtts = {0, 2}
  BetterMin = 1
  Lag = 1
  MaxTime = 3
CONSTRAINT ManagedLast
INVARIANTS DeadlineExact LapseSettled RiskExact
PROPERTIES ResentInOrder
CHECK_DEADLOCK FALSE
