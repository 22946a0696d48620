\* Three lines over five units of time, stamped up to one unit late.
CONSTANTS
  cn = cn
  nowhere = nowhere
  Countries = {cn}
  Nowhere = nowhere
  Verdicts = {"pass", "rule", "blocked"}
  Requests <- MCRequests
  Ranges = {"5m", "7d"}
  rangeToSeconds <- MCSeconds
  MaxWindow = 4
  Bucket = 2
  Skew = 1
  Faults = {"read", "tail", "crash"}
  MaxTime = 5
  MaxLines = 3
  MaxFaults = 1
SPECIFICATION FairSpec
INVARIANTS TypeOK TopCountsWithinSkew SummaryWithinSkew SeriesAddsUp
PROPERTY FollowsLog
