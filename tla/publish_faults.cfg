\* Two requests at a time, MaxOps in all.  Every behaviour ends when MaxOps
\* requests are answered, hence CHECK_DEADLOCK FALSE.
CONSTANTS
  p1 = p1
  p2 = p2
  s1 = s1
  s2 = s2
  s3 = s3
  good = good
  other = other
  bad = bad
  wrong = wrong
  core = core
  template = template
  score = score
  g0 = g0
  g1 = g1
  Procs = {p1, p2}
  Servers = {s1, s2, s3}
  Served = {s1, s2}
  Rules = {good, other, bad, wrong}
  Malformed = {wrong}
  Unloadable = {bad}
  RuleSets = {core, template}
  KnownSets = {core}
  Scores = {score}
  Globals = {g0, g1}
  None = None
  Torn = Torn
  InitConf <- MCConf
  Requests <- MCRequests
  Faults = {"write", "db", "cmd", "crash"}
  MaxOps = 3
  MaxFaults = 1
SPECIFICATION FairSpec
CHECK_DEADLOCK FALSE
INVARIANTS TypeOK ReadsAreFresh
PROPERTIES AckedIsLive RecordedAfterLive FailureKeepsOld RepliesAreRecorded EveryRequestAnswered
