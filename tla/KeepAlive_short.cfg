SPECIFICATION KeepAliveSpec
CONSTANTS
  Timeouts = {5}
  MaxTime = 40
  MaxPings = 2
  ManualPings = FALSE
  Traffic = {}
  Persists = {}
INVARIANT DetectsAnySilence
CHECK_DEADLOCK FALSE
