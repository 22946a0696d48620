\* Two requests, four connections: the fewest with which the pool cannot run
\* dry for these plans (one request less one level each, plus one).
CONSTANTS
  global = global
  server1 = server1
  template1 = template1
  tx = tx
  h1 = h1
  h2 = h2
  c1 = c1
  c2 = c2
  s1 = s1
  s2 = s2
  s3 = s3
  s4 = s4
  Callers = {c1, c2}
  Sessions = {s1, s2, s3, s4}
  NoSession = NoSession
  Keys <- MCKeys
  Hashes = {h1, h2}
  hashtext <- MCHash
  Tx = tx
  Plans <- MCPlans
  MaxDepth = 3
  MaxAgain = 1
  Faults = {"unlock_error", "poll_error", "session_loss", "connect_error"}
  MaxFaults = 1
SPECIFICATION FairSpec
INVARIANTS TypeOK ExclusiveUnlessLost OrphanOnlyAfterError
PROPERTIES KeepsPromise EveryCallReturns
