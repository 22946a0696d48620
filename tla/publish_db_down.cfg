\* The database may fail once.
CONSTANTS
  p1 = p1
  p2 = p2
  s1 = s1
  s2 = s2
  s3 = s3
  good = good
  other = other
  bad = bad
  wrong = wrong
  core = core
  template = template
  score = score
  g0 = g0
  g1 = g1
  Procs = {p1, p2}
  Servers = {s1, s2, s3}
  Served = {s1, s2}
  Rules = {good, other, bad, wrong}
  Malformed = {wrong}
  Unloadable = {bad}
  RuleSets = {core, template}
  KnownSets = {core}
  Scores = {score}
  Globals = {g0, g1}
  None = None
  Torn = Torn
  InitConf <- MCConf
  Requests <- MCRequests
  Faults = {"db"}
  MaxOps = 2
  MaxFaults = 1
SPECIFICATION Spec
CHECK_DEADLOCK FALSE
PROPERTY FailureRollsBack
