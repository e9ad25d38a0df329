SPECIFICATION KeepAliveSpec
CONSTANTS
  Timeouts = {0, 3, 17}
  MaxTime = 36
  MaxPings = 2
  ManualPings = TRUE
  Traffic = {4, 20}
  Persists = {"io_error", "connection_timed_out"}
INVARIANTS
  KeepAliveTypeOK
  PingsInTime
  NoFalseTimeout
  DetectsSilence
CHECK_DEADLOCK FALSE
