---------------------------- MODULE AdvisoryLock ----------------------------
(***************************************************************************)
(* AdvisoryLockService.withLock (src/src/common/locks/                     *)
(* advisory-lock.service.ts) on top of PostgreSQL session-level advisory   *)
(* locks and of TypeORM's connection pool.                                 *)
(*                                                                         *)
(* A caller is one HTTP request.  It may nest: publish takes the global    *)
(* Nginx lock, createVersion under it takes the server lock, and the       *)
(* transaction under that takes a connection without a lock.  Every level  *)
(* is a frame with a connection of its own, so a request may occupy as     *)
(* many pool connections as it has levels.  `plan' lists the levels of the *)
(* request: lock names, and Tx for a transaction.                          *)
(*                                                                         *)
(* A poll that finds the lock taken before the deadline changes nothing    *)
(* and is a stuttering step.                                               *)
(***************************************************************************)
EXTENDS Naturals, Sequences

CONSTANTS
  Callers,      \* concurrent requests
  Sessions,     \* connections of the pool, each a PostgreSQL session
  NoSession,    \* no connection, or no owner
  Keys,         \* lock names (lock-keys.ts)
  Hashes,       \* 32-bit advisory lock ids
  hashtext,     \* PostgreSQL's hashtext: lock name -> id; two may collide
  Tx,           \* a level that needs a connection and no lock
  Plans,        \* the nestings the application uses
  MaxDepth,     \* bound: the longest plan
  MaxAgain,     \* bound: how often the callbacks of a request go on after a nested call
  Faults,       \* which of the failures below may happen
  MaxFaults     \* bound: how many failures in one behaviour

FaultKinds == {"unlock_error", "poll_error", "session_loss", "connect_error"}

ASSUME LockAssumptions ==
  /\ NoSession \notin Sessions
  /\ Tx \notin Keys
  /\ hashtext \in [Keys -> Hashes]
  /\ MaxDepth \in Nat \ {0}
  /\ MaxAgain \in Nat
  /\ Plans \subseteq Seq(Keys \cup {Tx})
  /\ \A p \in Plans : Len(p) \in 1..MaxDepth
  /\ Plans # {}
  /\ Faults \subseteq FaultKinds
  /\ MaxFaults \in Nat

VARIABLES
  pc,          \* pc[c]: where c's innermost frame is in withLock
  plan,        \* plan[c]: the levels of c's request, <<>> when it has none
  depth,       \* depth[c]: c's open frames, 0 when it is idle
  sess,        \* sess[c][d]: the connection of c's frame d (runner)
  owner,       \* owner[h]: the session PostgreSQL has granted h to
  count,       \* count[h]: how many times that session has taken h
  lost,        \* frames whose connection is gone, and with it its session
  leaked,      \* history: ids whose poll or unlock query failed on a live session
  again,       \* again[c]: how often c's callbacks may still go on
  faultsLeft

vars == <<pc, plan, depth, sess, owner, count, lost, leaked, again, faultsLeft>>
server == <<owner, count>>

\* "overdue" is "acquire" once Date.now() - start > timeoutMs.
Phases == {"idle", "connect", "acquire", "overdue", "run", "release", "close"}
Polling(c) == pc[c] \in {"acquire", "overdue"}
Levels == 1..MaxDepth
Frames == Callers \X Levels

IsLock(c, d) == plan[c][d] # Tx
Id(c, d) == hashtext[plan[c][d]]
Top(c) == sess[c][depth[c]]
TopLost(c) == <<c, depth[c]>> \in lost

\* The frame has been granted its lock and has not yet given it back:
\* it runs its callback, waits for a nested call, or is about to unlock.
Holding(c, d) ==
  /\ d \in 1..depth[c]
  /\ IsLock(c, d)
  /\ d = depth[c] => pc[c] \in {"run", "release"}

InUse(s) == \E c \in Callers : \E d \in Levels : sess[c][d] = s

----------------------------------------------------------------------------
Init ==
  /\ pc = [c \in Callers |-> "idle"]
  /\ plan = [c \in Callers |-> <<>>]
  /\ depth = [c \in Callers |-> 0]
  /\ sess = [c \in Callers |-> [d \in Levels |-> NoSession]]
  /\ owner = [h \in Hashes |-> NoSession]
  /\ count = [h \in Hashes |-> 0]
  /\ lost = {}
  /\ leaked = {}
  /\ again = [c \in Callers |-> MaxAgain]
  /\ faultsLeft = MaxFaults

\* A request arrives whose handler calls withLock.
Call(c) ==
  /\ pc[c] = "idle"
  /\ \E p \in Plans : plan' = [plan EXCEPT ![c] = p]
  /\ depth' = [depth EXCEPT ![c] = 1]
  /\ pc' = [pc EXCEPT ![c] = "connect"]
  /\ UNCHANGED <<sess, server, lost, leaked, again, faultsLeft>>

\* createQueryRunner and connect wait for a free connection without a
\* deadline.  The acquisition clock starts once the connection is there.
Connect(c) ==
  /\ pc[c] = "connect"
  /\ \E s \in Sessions :
       /\ ~InUse(s)
       /\ sess' = [sess EXCEPT ![c][depth[c]] = s]
  /\ pc' = [pc EXCEPT ![c] = IF IsLock(c, depth[c]) THEN "acquire" ELSE "run"]
  /\ UNCHANGED <<plan, depth, server, lost, leaked, again, faultsLeft>>

\* Mutant: the end of the outermost frame is taken for that of a nested one.
EndFrame_NeverIdle(c) ==
  /\ depth' = [depth EXCEPT ![c] = @ - 1]
  /\ plan' = plan
  /\ pc' = [pc EXCEPT ![c] = "release"]
  /\ again' = again

\* The innermost frame ends.  The enclosing one's callback ends with it, well
\* or by the exception, which leads to its finally block either way; or it goes
\* on and may nest again, as a publish does that records its failure.
EndFrame(c) ==
  /\ depth' = [depth EXCEPT ![c] = @ - 1]
  /\ plan' = [plan EXCEPT ![c] = IF depth[c] = 1 THEN <<>> ELSE @]
  /\ \/ /\ pc' = [pc EXCEPT ![c] =
                    IF depth[c] = 1 THEN "idle"
                    ELSE IF IsLock(c, depth[c] - 1) THEN "release" ELSE "close"]
        /\ again' = [again EXCEPT ![c] = IF depth[c] = 1 THEN MaxAgain ELSE @]
     \/ /\ depth[c] > 1
        /\ again[c] > 0
        /\ pc' = [pc EXCEPT ![c] = "run"]
        /\ again' = [again EXCEPT ![c] = @ - 1]

Fail(kind) ==
  /\ kind \in Faults
  /\ faultsLeft > 0
  /\ faultsLeft' = faultsLeft - 1

\* connect throws: there is no connection to return, and no finally block yet.
ConnectError(c) ==
  /\ pc[c] = "connect"
  /\ Fail("connect_error")
  /\ EndFrame(c)
  /\ UNCHANGED <<sess, server, lost, leaked>>

\* Mutant: the row that says whether the lock was granted is not looked at.
TryLock_IgnoresResult(c) ==
  /\ Polling(c)
  /\ pc' = [pc EXCEPT ![c] = "run"]
  /\ UNCHANGED <<plan, depth, sess, server, lost, leaked, again, faultsLeft>>

\* pg_try_advisory_lock: the session is granted an id that is free or that it
\* owns already.
Granted(h, s) == owner[h] \in {NoSession, s}
TryLock(c) ==
  LET s == Top(c)
      h == Id(c, depth[c])
  IN
  /\ Polling(c)
  /\ ~TopLost(c)
  /\ Granted(h, s)
  /\ owner' = [owner EXCEPT ![h] = s]
  /\ count' = [count EXCEPT ![h] = @ + 1]
  /\ pc' = [pc EXCEPT ![c] = "run"]
  /\ UNCHANGED <<plan, depth, sess, lost, leaked, again, faultsLeft>>

\* The clock passes the deadline of a frame that is polling.
Expire(c) ==
  /\ pc[c] = "acquire"
  /\ pc' = [pc EXCEPT ![c] = "overdue"]
  /\ UNCHANGED <<plan, depth, sess, server, lost, leaked, again, faultsLeft>>

\* Mutants: after the deadline the callback runs all the same; no deadline.
GiveUp_RunsAnyway(c) ==
  /\ pc[c] = "overdue"
  /\ pc' = [pc EXCEPT ![c] = "run"]
  /\ UNCHANGED <<plan, depth, sess, server, lost, leaked, again, faultsLeft>>
GiveUp_NoDeadline(c) ==
  /\ Polling(c)
  /\ TopLost(c)
  /\ pc' = [pc EXCEPT ![c] = "close"]
  /\ UNCHANGED <<plan, depth, sess, server, lost, leaked, again, faultsLeft>>

\* A poll that finds the lock taken after the deadline gives up, and one on a
\* connection that is gone throws.  Neither has anything to unlock.
GiveUp(c) ==
  /\ Polling(c)
  /\ \/ TopLost(c)
     \/ pc[c] = "overdue" /\ ~Granted(Id(c, depth[c]), Top(c))
  /\ pc' = [pc EXCEPT ![c] = "close"]
  /\ UNCHANGED <<plan, depth, sess, server, lost, leaked, again, faultsLeft>>

\* A poll fails on a connection that lives, and withLock throws.  The session
\* may have been granted the id before the answer was lost; withLock does not
\* know, and unlocks nothing.
PollError(c) ==
  LET h == Id(c, depth[c]) IN
  /\ Polling(c)
  /\ ~TopLost(c)
  /\ Fail("poll_error")
  /\ \/ UNCHANGED <<server, leaked>>
     \/ /\ Granted(h, Top(c))
        /\ owner' = [owner EXCEPT ![h] = Top(c)]
        /\ count' = [count EXCEPT ![h] = @ + 1]
        /\ leaked' = leaked \cup {h}
  /\ pc' = [pc EXCEPT ![c] = "close"]
  /\ UNCHANGED <<plan, depth, sess, lost, again>>

\* The callback calls withLock again, or starts a transaction.
Nest(c) ==
  /\ pc[c] = "run"
  /\ depth[c] < Len(plan[c])
  /\ depth' = [depth EXCEPT ![c] = @ + 1]
  /\ pc' = [pc EXCEPT ![c] = "connect"]
  /\ UNCHANGED <<plan, sess, server, lost, leaked, again, faultsLeft>>

\* Mutant: no finally block, so that the lock is not given back.
Finish_NoFinally(c) ==
  /\ pc[c] = "run"
  /\ pc' = [pc EXCEPT ![c] = "close"]
  /\ UNCHANGED <<plan, depth, sess, server, lost, leaked, again, faultsLeft>>

\* The callback returns or throws.
Finish(c) ==
  /\ pc[c] = "run"
  /\ pc' = [pc EXCEPT ![c] = IF IsLock(c, depth[c]) THEN "release" ELSE "close"]
  /\ UNCHANGED <<plan, depth, sess, server, lost, leaked, again, faultsLeft>>

\* release: pg_advisory_unlock gives one grant back.
Unlock(c) ==
  LET h == Id(c, depth[c]) IN
  /\ pc[c] = "release"
  /\ ~TopLost(c)
  /\ count' = [count EXCEPT ![h] = @ - 1]
  /\ owner' = [owner EXCEPT ![h] = IF count[h] = 1 THEN NoSession ELSE @]
  /\ pc' = [pc EXCEPT ![c] = "close"]
  /\ UNCHANGED <<plan, depth, sess, lost, leaked, again, faultsLeft>>

\* The unlock query fails and release only logs it.  On a connection that is
\* gone there was nothing left to unlock; on a live one the grant stays.
UnlockError(c) ==
  /\ pc[c] = "release"
  /\ \/ /\ TopLost(c)
        /\ UNCHANGED <<leaked, faultsLeft>>
     \/ /\ ~TopLost(c)
        /\ Fail("unlock_error")
        /\ leaked' = leaked \cup {Id(c, depth[c])}
  /\ pc' = [pc EXCEPT ![c] = "close"]
  /\ UNCHANGED <<plan, depth, sess, server, lost, again>>

\* runner.release: the connection, if there still is one, goes back to the
\* pool.
Close(c) ==
  /\ pc[c] = "close"
  /\ sess' = [sess EXCEPT ![c][depth[c]] = NoSession]
  /\ lost' = lost \ {<<c, depth[c]>>}
  /\ EndFrame(c)
  /\ UNCHANGED <<server, leaked, faultsLeft>>

\* The server drops a session and every grant of it.  The pool forgets the
\* connection at once and may open another in its place.  withLock does not
\* watch its connection: the callback goes on.  (The loss of an
\* idle session without grants is invisible.)
SessionLoss(s) ==
  /\ InUse(s) \/ \E h \in Hashes : owner[h] = s
  /\ Fail("session_loss")
  /\ owner' = [h \in Hashes |-> IF owner[h] = s THEN NoSession ELSE owner[h]]
  /\ count' = [h \in Hashes |-> IF owner[h] = s THEN 0 ELSE count[h]]
  /\ sess' = [c \in Callers |-> [d \in Levels |->
                IF sess[c][d] = s THEN NoSession ELSE sess[c][d]]]
  /\ lost' = lost \cup {f \in Frames : sess[f[1]][f[2]] = s}
  /\ UNCHANGED <<pc, plan, depth, leaked, again>>

CallerStep(c) ==
  \/ TryLock(c) \/ Expire(c) \/ GiveUp(c) \/ PollError(c)
  \/ Nest(c) \/ Finish(c) \/ Unlock(c) \/ UnlockError(c) \/ Close(c)

Next ==
  \/ \E c \in Callers : Call(c) \/ Connect(c) \/ ConnectError(c) \/ CallerStep(c)
  \/ \E s \in Sessions : SessionLoss(s)

\* The Node event loop runs every timer and callback that is due.  The pool
\* hands connections to its waiters first come, first served, so a waiter is
\* not passed over for ever.  Nothing makes a request arrive or a fault happen.
Fairness == \A c \in Callers : WF_vars(CallerStep(c)) /\ SF_vars(Connect(c))

Spec == Init /\ [][Next]_vars
FairSpec == Spec /\ Fairness
----------------------------------------------------------------------------
\* Types, and the agreement of pc with the number of open frames.
TypeOK ==
  /\ pc \in [Callers -> Phases]
  /\ plan \in [Callers -> Plans \cup {<<>>}]
  /\ depth \in [Callers -> 0..MaxDepth]
  /\ sess \in [Callers -> [Levels -> Sessions \cup {NoSession}]]
  /\ owner \in [Hashes -> Sessions \cup {NoSession}]
  /\ count \in [Hashes -> Nat]
  /\ lost \subseteq Frames
  /\ leaked \subseteq Hashes
  /\ again \in [Callers -> 0..MaxAgain]
  /\ faultsLeft \in 0..MaxFaults
  /\ \A c \in Callers :
       /\ depth[c] <= Len(plan[c])
       /\ pc[c] = "idle" <=> depth[c] = 0
       /\ plan[c] = <<>> <=> depth[c] = 0
       /\ Polling(c) \/ pc[c] = "release" => IsLock(c, depth[c])

\* Two frames that both hold the same id: one of them has lost its session.
\* While no session is lost, withLock runs one callback per lock at a time,
\* across nesting, timeouts, failed unlocks and reused pool connections.
ExclusiveUnlessLost ==
  \A b, c \in Callers : \A d, e \in Levels :
    /\ b # c \/ d # e
    /\ Holding(b, d)
    /\ Holding(c, e)
    /\ Id(b, d) = Id(c, e)
    => <<b, d>> \in lost \/ <<c, e>> \in lost

\* An id that PostgreSQL shows as granted is held by a frame that is still in
\* withLock, unless an unlock query or a poll for it failed: no path through
\* the finally block returns a connection to the pool with a grant on it.
OrphanOnlyAfterError ==
  \A h \in Hashes \ leaked :
    owner[h] # NoSession =>
      \E c \in Callers : \E d \in Levels :
        Holding(c, d) /\ Id(c, d) = h /\ sess[c][d] = owner[h]

\* The promise of withLock, kept for the frames whose session is alive.
LiveHolders == {f \in Frames : Holding(f[1], f[2]) /\ f \notin lost}
Inside == {<<f, plan[f[1]][f[2]]>> : f \in LiveHolders}
Promise == INSTANCE Mutex WITH Clients <- Frames, Names <- Keys, inside <- Inside
KeepsPromise == Promise!Spec

\* withLock always comes back to its caller, with the callback's outcome or
\* with the timeout, whatever the other requests and the faults do.
EveryCallReturns == \A c \in Callers : pc[c] # "idle" ~> pc[c] = "idle"

\* README.md, design notes: publishing, runtime updates and rollback run under
\* the global Nginx lock, so that nginx.conf is not written concurrently.  As a
\* property of the lock: two callbacks never hold one id.
NoConcurrentHolders ==
  \A b, c \in Callers : \A d, e \in Levels :
    /\ Holding(b, d)
    /\ Holding(c, e)
    /\ Id(b, d) = Id(c, e)
    => b = c /\ d = e
=============================================================================
