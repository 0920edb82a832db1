SPECIFICATION MCSpec
CONSTANTS
  Relays = {tx}
  Sup = sup
  MaxIdle = 2
  FrameParts = 2
  MaxGen = 2
  MaxMoves = 1
  Netmaps <- FourNetmaps
  MAX_CRASHES = 2
  MaxBoots = 1
CHECK_DEADLOCK FALSE
INVARIANTS ConnectionSound WarmSessionSound
PROPERTIES ConnectionLeft WarmEnds
