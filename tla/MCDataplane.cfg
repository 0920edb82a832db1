SPECIFICATION MCSpec
CONSTANTS
  Senders = {s1, s2}
  Receivers = {r1, r2}
  Indices = {1}
  WindowBits = 2
  CounterMod = 5
  MaxGen = 2
CHECK_DEADLOCK FALSE
INVARIANTS NonceOnce DeliveredOnce ReplayCheckExact WindowAuthentic
PROPERTIES ProbesSound
