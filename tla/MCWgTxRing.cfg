SPECIFICATION FairSpec
CONSTANTS
  Slots = {"s1"}
  Senders = {"wg_rx"}
  Rescuers = {"wg_rx"}
  Initers = {"wg_rx"}
  Derp = "derp"
CHECK_DEADLOCK FALSE
INVARIANTS RingSound
PROPERTIES RescueServed
