----------------------------- MODULE VersionLog -----------------------------
(***************************************************************************)
(* What the version tables promise, whoever writes them: the versions of a *)
(* name are a log.  It grows at its end, by one entry at a time; an entry  *)
(* is never changed, taken back or moved; and nothing but the deletion of  *)
(* its name empties it, which takes all of it.  RuleSets shows by which    *)
(* means, and up to which failures, the promise is kept.                   *)
(***************************************************************************)
EXTENDS Sequences

CONSTANTS Names,       \* whose versions are kept
          Deletable,   \* the names that may be deleted
          Entries      \* what a version may say

VARIABLES log,         \* log[n]: the versions of n, version i in place i
          void         \* names for which nothing is promised any more

Init == log = [n \in Names |-> <<>>] /\ void = {}

Add(n, e) == log' = [log EXCEPT ![n] = Append(@, e)] /\ UNCHANGED void

Clear(n) == log' = [log EXCEPT ![n] = <<>>] /\ UNCHANGED void

Void(n) == void' = void \cup {n} /\ log' = [log EXCEPT ![n] = <<>>]

Next ==
  \/ \E n \in Names \ void, e \in Entries : Add(n, e)
  \/ \E n \in Deletable \ void : Clear(n)
  \/ \E n \in Names : Void(n)

Spec == Init /\ [][Next]_<<log, void>>
=============================================================================
