\* Of the public endpoint: two addresses, two probes, two got-ip events.  Of
\* the boot probe: the first request and its two resends, two strays.  Of the
\* station: an AP that may change channel, another network, three failed
\* joins and a power cycle.  Of the stamps: a clock that stands still, jumps
\* ahead of the floor and falls back.
SPECIFICATION MCSpec
CONSTANTS
  Endpoints = {1, 2}
  MaxProbes = 2
  MaxMoves = 2
  MaxSends = 3
  MaxStray = 2
  Channels = {1, 6}
  Networks = {1, 2}
  MaxFails = 3
  MaxResets = 1
  Chunk = 2
  Clocks = {0, 1, 3, 5}
  MaxSecs = 14
  NvsFails = TRUE
CHECK_DEADLOCK FALSE
INVARIANTS MoveIsProbed StationSound PskHandedOver StampsIncrease
PROPERTIES ControlCatchesUp JoinSound BothGoOn Rejoins
