\* Two lines that may arrive one unit late, two instants, one switch of a system.
\* A behaviour has one request and ends with it, hence CHECK_DEADLOCK FALSE.
CONSTANTS
  k1 = k1
  k2 = k2
  Keys = {k1, k2}
  Types = {"ALLOW", "BLOCK_BY_DYNAMIC_BLOCK"}
  Window = 1
  Lag = 1
  Limit = 1
  TopTypes = 1
  TopIps = 2
  TopN = 1
  MaxTime = 1
  MaxLines = 2
  MaxSwitches = 1
SPECIFICATION Spec
INVARIANTS KpisAgree QuietReportAddsUp HealthTells
CHECK_DEADLOCK FALSE
SYMMETRY Symmetry
