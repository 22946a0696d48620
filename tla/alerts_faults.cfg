\* Two overlapping checks and two clients with MaxOps requests, under fairness.  Time is unbounded:
\* ages stop at the cooldown.
CONSTANTS
  k1 = k1
  k2 = k2
  u1 = u1
  u2 = u2
  Checks = {k1, k2}
  Clients = {u1, u2}
  Updates <- MCUpdates
  Loads <- MCLoads
  Cooldown = 2
  None = None
  Faults = {"db", "mail", "crash"}
  MaxOps = 2
  MaxFaults = 1
SPECIFICATION FairSpec
INVARIANTS TypeOK UpdatesAreKept
PROPERTIES CooldownKept MailsOnlyWhenEnabled StormIsAlerted
