\* Two requests at a time, MaxOps in all, after one start.  Every behaviour ends
\* when they are answered, hence CHECK_DEADLOCK FALSE.
CONSTANTS
  p1 = p1
  p2 = p2
  boot = boot
  t = t
  c = c
  x = x
  s = s
  good = good
  wrong = wrong
  factory = factory
  Procs = {p1, p2}
  Boot = boot
  Templates = {t}
  Cores = {c, x}
  Shipped = {c}
  Servers = {s}
  Rules = {good, wrong, factory}
  Malformed = {wrong}
  Factory = factory
  Requests <- MCRequests
  None = None
  Torn = Torn
  Global = Global
  Faults = {"db", "write", "crash", "session"}
  MaxOps = 3
  MaxFaults = 1
  Texts = {"text", "sqli", "xss", "rce", "lfi", "dir_traversal", "user_agent"}
  Empty = Empty
  Fraction = Fraction
  Other = Other
  Absent = Absent
  Null = Null
  Refused = Refused
SPECIFICATION FairSpec
CHECK_DEADLOCK FALSE
INVARIANTS TypeOK NumbersAreDense AuditBalances FileIsNewest RunsRecordedRules UsedFilesStay FactoryIsBaseline
PROPERTIES KeepsPromise EveryRequestAnswered ComesUp
