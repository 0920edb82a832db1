SPECIFICATION Spec
CONSTANTS
  Slots = {"s1"}
  Senders = {"tcpip"}
  Rescuers = {"wg_rx"}
  Initers = {"wg_rx"}
  Derp = "derp"
CHECK_DEADLOCK FALSE
INVARIANT InitBehindResend
