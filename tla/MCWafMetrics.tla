---------------------------- MODULE MCWafMetrics ----------------------------
(* Instances of WafMetrics for TLC. *)
EXTENDS WafMetrics, TLC
CONSTANTS cn, nowhere

\* The verdicts, one of them on a request from nowhere.
MCRequests == {[country |-> cn, verdict |-> "pass"], [country |-> cn, verdict |-> "rule"],
               [country |-> nowhere, verdict |-> "blocked"]}

\* A short and a long range: a line can be in the one and out of the other, and
\* out of both.
MCSeconds == [r \in Ranges |-> IF r = "5m" THEN 2 ELSE 4]
=============================================================================
