\* Three boots, so that a second lost warm start would fit; two relays and
\* control share one RTC record, and a secret outlives its age.
SPECIFICATION MCSpec
CONSTANTS
  Netmaps <- TwoNetmaps
  MAX_CRASHES = 1
  MaxBoots = 3
  DerpHosts = {d1, d2}
  CtlHost = "ctl"
  Recs = {0}
  MaxAge = 1
  MemoFor = 2
  MaxTime = 3
  MaxSecrets = 2
  MaxFaults = 1
  Firmwares <- TwoFirmwares
  Nodes <- TwoNodes
  CtlAddrs = {"a", "b"}
  MaxGen = 2
  AddrFaults = 2
SYMMETRY AnyHosts
CHECK_DEADLOCK FALSE
INVARIANTS WarmBootsSound TlsSound AddrsSound
PROPERTIES TelemetrySound
