------------------------------ MODULE MCAlerts ------------------------------
(* Instances of Alerts for TLC. *)
EXTENDS Alerts, TLC
CONSTANTS k1, k2, u1, u2

Update(enabled, emails, thresholds, zeroed) ==
  [enabled |-> enabled, emails |-> emails, thresholds |-> thresholds, zeroed |-> zeroed]

\* Recipients and a threshold, with one that is never checked; both off again.
MCUpdates ==
  {Update(None, TRUE, {"qps", "attackTypeCounts"}, {}), Update(FALSE, None, {}, {"qps"})}

MCLoads == {{}, {"qps"}}
=============================================================================
