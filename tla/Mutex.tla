------------------------------- MODULE Mutex -------------------------------
(***************************************************************************)
(* What AdvisoryLockService.withLock promises to its callers: the callback *)
(* given for a lock name runs while no other callback given for that name  *)
(* runs.  AdvisoryLock shows by which means, and up to which failures, the *)
(* promise is kept.                                                        *)
(***************************************************************************)
CONSTANTS Clients,   \* whoever may run a callback
          Names      \* the lock names

VARIABLE inside      \* pairs <<c, n>>: client c runs a callback under name n

Init == inside = {}

Enter(c, n) == /\ \A p \in inside : p[2] # n
               /\ inside' = inside \cup {<<c, n>>}

Leave(c, n) == /\ <<c, n>> \in inside
               /\ inside' = inside \ {<<c, n>>}

Next == \E c \in Clients, n \in Names : Enter(c, n) \/ Leave(c, n)

Spec == Init /\ [][Next]_inside
=============================================================================
