\* A check while Loki is away.
\* A behaviour has one request and ends with it, hence CHECK_DEADLOCK FALSE.
CONSTANTS
  k1 = k1
  k2 = k2
  Keys = {k1, k2}
  Types = {"ALLOW", "BLOCK_BY_DYNAMIC_BLOCK"}
  Window = 1
  Lag = 1
  Limit = 1
  TopTypes = 1
  TopIps = 2
  TopN = 1
  MaxTime = 1
  MaxLines = 1
  MaxSwitches = 1
SPECIFICATION Spec
INVARIANT LokiOutageIsTold
CHECK_DEADLOCK FALSE
