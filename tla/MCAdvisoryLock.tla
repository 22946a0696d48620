-------------------------- MODULE MCAdvisoryLock --------------------------
(* Instances of AdvisoryLock for TLC. *)
EXTENDS AdvisoryLock, TLC
CONSTANTS global, server1, template1, tx, h1, h2, c1, c2, s1, s2, s3, s4

\* publish: global lock, server lock, transaction; template: lock, transaction.
MCPlans == {<<global, server1, tx>>, <<template1, tx>>}
\* The name of template1 collides with the server's under hashtext.
MCHash == global :> h1 @@ server1 :> h2 @@ template1 :> h2
MCKeys == {global, server1, template1}
=============================================================================
