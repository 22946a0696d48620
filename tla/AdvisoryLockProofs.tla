------------------------- MODULE AdvisoryLockProofs -------------------------
(***************************************************************************)
(* What withLock guarantees for any number of requests, connections, lock  *)
(* names, nestings and faults.                                             *)
(*                                                                         *)
(* The argument: a connection belongs to one frame at a time (Distinct), a *)
(* holding frame with a live connection is the one PostgreSQL granted the  *)
(* id to (Granted), and an id is granted to one session.  That the finally *)
(* block leaves no grant behind needs the converse as well (Accounted): an *)
(* id no unlock or poll failed for is granted once, to a holding frame.    *)
(***************************************************************************)
EXTENDS AdvisoryLock, TLAPS

\* A frame has a connection from Connect to Close, unless it loses it.
PastConnect(c, d) == d <= depth[c] /\ (d = depth[c] => pc[c] # "connect")
ConnectedAt(c, d) ==
  /\ sess[c][d] # NoSession <=> PastConnect(c, d) /\ <<c, d>> \notin lost
  /\ <<c, d>> \in lost => PastConnect(c, d)
Connected == \A c \in Callers : \A d \in Levels : ConnectedAt(c, d)

\* A connection serves one frame.
Distinct ==
  \A b, c \in Callers : \A d, e \in Levels :
    sess[b][d] = sess[c][e] /\ sess[b][d] # NoSession => b = c /\ d = e

\* What a holding frame believes, PostgreSQL agrees with.
Grants ==
  \A c \in Callers : \A d \in Levels :
    Holding(c, d) /\ <<c, d>> \notin lost =>
      sess[c][d] # NoSession /\ owner[Id(c, d)] = sess[c][d]

\* What PostgreSQL shows as granted, a frame holds, once.
Accounted ==
  \A h \in Hashes \ leaked :
    owner[h] # NoSession =>
      /\ count[h] = 1
      /\ \E c \in Callers : \E d \in Levels :
           Holding(c, d) /\ Id(c, d) = h /\ sess[c][d] = owner[h]

Counted == \A h \in Hashes : owner[h] = NoSession <=> count[h] = 0

IInv == /\ TypeOK
        /\ Connected
        /\ Distinct
        /\ Grants
        /\ Counted
        /\ Accounted
----------------------------------------------------------------------------
\* The level of an open frame is a lock name or Tx, and a lock name has an id.
LEMMA OpenLevel ==
  ASSUME TypeOK, NEW c \in Callers, NEW d \in 1..depth[c]
  PROVE  /\ d \in Levels
         /\ IsLock(c, d) => plan[c][d] \in Keys /\ Id(c, d) \in Hashes
<1>1. depth[c] \in 0..MaxDepth /\ depth[c] <= Len(plan[c]) /\ plan[c] # <<>>
  BY DEF TypeOK
<1>2. plan[c] \in Seq(Keys \cup {Tx}) /\ Len(plan[c]) \in 1..MaxDepth
  BY <1>1, LockAssumptions DEF TypeOK
<1>3. d \in 1..Len(plan[c]) /\ d \in Levels
  BY <1>1, <1>2, LockAssumptions DEF Levels
<1>4. plan[c][d] \in Keys \cup {Tx}
  BY <1>2, <1>3
<1>5. QED
  BY <1>3, <1>4, LockAssumptions DEF IsLock, Id

LEMMA TypeInit == Init => TypeOK
BY LockAssumptions DEF Init, TypeOK, Levels, Phases, Polling

LEMMA TypeStep == IInv /\ [Next]_vars => TypeOK'
<1> SUFFICES ASSUME IInv, [Next]_vars
             PROVE  TypeOK'
  OBVIOUS
<1> USE DEF IInv
<1> USE LockAssumptions DEF TypeOK, server
<1>0. ASSUME NEW c \in Callers, pc[c] # "idle"
      PROVE  /\ depth[c] \in Levels /\ depth[c] <= Len(plan[c])
             /\ plan[c] \in Plans /\ Len(plan[c]) \in 1..MaxDepth
  BY <1>0 DEF Levels
<1>1. ASSUME NEW c \in Callers, Call(c) PROVE TypeOK'
  <2>1. PICK p \in Plans : plan' = [plan EXCEPT ![c] = p]
    BY <1>1 DEF Call
  <2>2. Len(p) >= 1 /\ p # <<>>
    BY <2>1
  <2>3. UNCHANGED <<sess, server, lost, leaked, again, faultsLeft>>
    BY <1>1 DEF Call
  <2>4. /\ plan' \in [Callers -> Plans \cup {<<>>}]
        /\ depth' \in [Callers -> 0..MaxDepth]
        /\ pc' \in [Callers -> Phases]
    BY <1>1, <2>1 DEF Call, Phases
  <2>5. ASSUME NEW b \in Callers
        PROVE  /\ depth'[b] <= Len(plan'[b])
               /\ pc'[b] = "idle" <=> depth'[b] = 0
               /\ plan'[b] = <<>> <=> depth'[b] = 0
               /\ (Polling(b) \/ pc[b] = "release" => IsLock(b, depth[b]))'
    <3>1. CASE b = c
      BY <1>1, <2>1, <2>2, <3>1 DEF Call, Polling
    <3>2. CASE b # c
      BY <1>1, <2>1, <3>2 DEF Call, Polling, IsLock
    <3>3. QED
      BY <3>1, <3>2
  <2>6. QED
    BY <2>3, <2>4, <2>5
<1>2. ASSUME NEW c \in Callers, Connect(c) PROVE TypeOK'
  <2>1. depth[c] \in Levels /\ UNCHANGED <<plan, depth, server, lost, leaked, again, faultsLeft>>
    BY <1>0, <1>2 DEF Connect
  <2>2. sess' \in [Callers -> [Levels -> Sessions \cup {NoSession}]]
    <3>1. PICK s \in Sessions : sess' = [sess EXCEPT ![c][depth[c]] = s]
      BY <1>2 DEF Connect
    <3>2. QED
      BY <2>1, <3>1
  <2>3. pc' = [pc EXCEPT ![c] = IF IsLock(c, depth[c]) THEN "acquire" ELSE "run"]
    BY <1>2 DEF Connect
  <2>4. pc' \in [Callers -> Phases]
    BY <2>3 DEF Phases
  <2>5. ASSUME NEW b \in Callers
        PROVE  /\ pc'[b] = "idle" <=> depth'[b] = 0
               /\ (Polling(b) \/ pc[b] = "release" => IsLock(b, depth[b]))'
    BY <1>2, <2>1, <2>3 DEF Connect, IsLock, Polling, Levels
  <2>6. QED
    BY <2>1, <2>2, <2>4, <2>5 DEF Polling
<1>3. ASSUME NEW c \in Callers, EndFrame(c), pc[c] # "idle",
             UNCHANGED <<server, leaked>>,
             sess' \in [Callers -> [Levels -> Sessions \cup {NoSession}]],
             lost' \subseteq Frames, faultsLeft' \in 0..MaxFaults
      PROVE  TypeOK'
  <2>0. again' \in [Callers -> 0..MaxAgain]
    <3>1. CASE again' = [again EXCEPT ![c] = IF depth[c] = 1 THEN MaxAgain ELSE @]
      BY <3>1
    <3>2. CASE again[c] > 0 /\ again' = [again EXCEPT ![c] = @ - 1]
      BY <3>2
    <3>3. QED
      BY <1>3, <3>1, <3>2 DEF EndFrame
  <2>1. depth' \in [Callers -> 0..MaxDepth]
    BY <1>0, <1>3 DEF EndFrame, Levels
  <2>2. plan' \in [Callers -> Plans \cup {<<>>}] /\ pc' \in [Callers -> Phases]
    BY <1>3 DEF EndFrame, Phases
  <2>3. ASSUME NEW b \in Callers
        PROVE  /\ depth'[b] <= Len(plan'[b])
               /\ pc'[b] = "idle" <=> depth'[b] = 0
               /\ plan'[b] = <<>> <=> depth'[b] = 0
               /\ (Polling(b) \/ pc[b] = "release" => IsLock(b, depth[b]))'
    BY <1>0, <1>3 DEF EndFrame, Levels, IsLock, Polling, Phases
  <2>4. QED
    BY <1>3, <2>0, <2>1, <2>2, <2>3
<1>4. ASSUME NEW c \in Callers, ConnectError(c) PROVE TypeOK'
  <2>1. EndFrame(c) /\ pc[c] # "idle" /\ UNCHANGED <<sess, server, lost, leaked>>
    BY <1>4 DEF ConnectError
  <2>2. faultsLeft' \in 0..MaxFaults
    BY <1>4 DEF ConnectError, Fail
  <2>3. QED
    BY <1>3, <2>1, <2>2
<1>5. ASSUME NEW c \in Callers, TryLock(c) PROVE TypeOK'
  <2>1. pc[c] # "idle" /\ depth[c] \in 1..depth[c] /\ IsLock(c, depth[c])
    BY <1>0, <1>5 DEF TryLock, Polling, Levels
  <2>2. Id(c, depth[c]) \in Hashes /\ Top(c) \in Sessions \cup {NoSession}
    BY <1>0, <2>1, OpenLevel DEF Top
  <2>3. QED
    BY <1>5, <2>1, <2>2 DEF TryLock, Phases, Polling, IsLock
<1>6. ASSUME NEW c \in Callers, Expire(c) PROVE TypeOK'
  BY <1>6 DEF Expire, Phases, Polling, IsLock
<1>7. ASSUME NEW c \in Callers, GiveUp(c) PROVE TypeOK'
  BY <1>7 DEF GiveUp, Phases, Polling, IsLock
<1>8. ASSUME NEW c \in Callers, Nest(c) PROVE TypeOK'
  BY <1>0, <1>8 DEF Nest, Phases, Polling, IsLock, Levels
<1>9. ASSUME NEW c \in Callers, Finish(c) PROVE TypeOK'
  BY <1>9 DEF Finish, Phases, Polling, IsLock
<1>10. ASSUME NEW c \in Callers, UnlockError(c) PROVE TypeOK'
  <2>1. pc[c] # "idle" /\ depth[c] \in 1..depth[c] /\ IsLock(c, depth[c])
    BY <1>0, <1>10 DEF UnlockError, Levels
  <2>2. Id(c, depth[c]) \in Hashes
    BY <2>1, OpenLevel
  <2>3. QED
    BY <1>10, <2>2 DEF UnlockError, Fail, Phases, Polling, IsLock
<1>11. ASSUME NEW c \in Callers, Close(c) PROVE TypeOK'
  <2>1. sess' \in [Callers -> [Levels -> Sessions \cup {NoSession}]]
    BY <1>11 DEF Close
  <2>2. QED
    BY <1>3, <1>11, <2>1 DEF Close
<1>12. ASSUME NEW s \in Sessions, SessionLoss(s) PROVE TypeOK'
  BY <1>12 DEF SessionLoss, Fail, Polling, IsLock
<1>13. ASSUME NEW c \in Callers, Unlock(c) PROVE TypeOK'
  <2>1. pc[c] # "idle" /\ depth[c] \in 1..depth[c] /\ IsLock(c, depth[c])
    BY <1>0, <1>13 DEF Unlock, Levels
  <2>2. Id(c, depth[c]) \in Hashes
    BY <2>1, OpenLevel
  <2>3. count[Id(c, depth[c])] > 0
    BY <1>0, <1>13, <2>1, <2>2 DEF Unlock, Grants, Counted, Holding, TopLost
  <2>4. QED
    BY <1>13, <2>2, <2>3 DEF Unlock, Phases, Polling, IsLock
<1>14. ASSUME NEW c \in Callers, PollError(c) PROVE TypeOK'
  <2>1. pc[c] # "idle" /\ depth[c] \in 1..depth[c] /\ IsLock(c, depth[c])
    BY <1>0, <1>14 DEF PollError, Polling, Levels
  <2>2. Id(c, depth[c]) \in Hashes /\ Top(c) \in Sessions \cup {NoSession}
    BY <1>0, <2>1, OpenLevel DEF Top
  <2>3. /\ owner' \in [Hashes -> Sessions \cup {NoSession}]
        /\ count' \in [Hashes -> Nat] /\ leaked' \subseteq Hashes
    <3>1. CASE UNCHANGED <<owner, count, leaked>>
      BY <3>1
    <3>2. CASE /\ owner' = [owner EXCEPT ![Id(c, depth[c])] = Top(c)]
               /\ count' = [count EXCEPT ![Id(c, depth[c])] = @ + 1]
               /\ leaked' = leaked \cup {Id(c, depth[c])}
      BY <2>2, <3>2
    <3>3. QED
      BY <1>14, <3>1, <3>2 DEF PollError
  <2>4. faultsLeft' \in 0..MaxFaults /\ pc' = [pc EXCEPT ![c] = "close"]
        /\ UNCHANGED <<plan, depth, sess, lost, again>>
    BY <1>14 DEF PollError, Fail
  <2>5. QED
    BY <2>1, <2>3, <2>4 DEF Phases, Polling, IsLock
<1>15. CASE UNCHANGED vars
  BY <1>15 DEF vars, Polling, IsLock
<1>16. QED
  BY <1>1, <1>2, <1>4, <1>5, <1>6, <1>7, <1>8, <1>9, <1>10, <1>11, <1>12, <1>13, <1>14,
     <1>15
     DEF Next, CallerStep
----------------------------------------------------------------------------
(* Which frames hold their lock, before and after a step. *)

SameHolding ==
  \A b \in Callers : \A d \in Levels :
    /\ Holding(b, d)' <=> Holding(b, d)
    /\ Holding(b, d) => plan'[b][d] = plan[b][d]

\* The steps that neither take nor give back a lock.
LEMMA HoldingKept ==
  ASSUME IInv, NEW c \in Callers,
         \/ Call(c) \/ Connect(c) \/ ConnectError(c) \/ Expire(c)
         \/ GiveUp(c) \/ PollError(c) \/ Nest(c) \/ Finish(c) \/ Close(c)
  PROVE  SameHolding
<1> USE DEF IInv, TypeOK, SameHolding, Holding, IsLock, Polling
<1>1. ASSUME NEW b \in Callers, b # c
      PROVE  depth'[b] = depth[b] /\ plan'[b] = plan[b] /\ pc'[b] = pc[b]
  BY <1>1 DEF Call, Connect, ConnectError, Expire, GiveUp, PollError, Nest, Finish, Close,
     EndFrame
<1>2. ASSUME NEW b \in Callers, b # c, NEW d \in Levels
      PROVE  /\ Holding(b, d)' <=> Holding(b, d)
             /\ Holding(b, d) => plan'[b][d] = plan[b][d]
  BY <1>1, <1>2
<1>3. ASSUME NEW d \in Levels
      PROVE  /\ Holding(c, d)' <=> Holding(c, d)
             /\ Holding(c, d) => plan'[c][d] = plan[c][d]
  <2>1. d \in Nat /\ d >= 1 /\ depth[c] \in Nat
    BY LockAssumptions DEF Levels
  <2>2. CASE Call(c)
    BY <2>1, <2>2 DEF Call
  <2>3. CASE Connect(c)
    BY <2>1, <2>3 DEF Connect
  <2>4. CASE EndFrame(c) /\ pc[c] \in {"connect", "close"}
    <3>1. CASE depth[c] = 1
      BY <2>1, <2>4, <3>1 DEF EndFrame
    <3>2. CASE depth[c] # 1
      BY <2>1, <2>4, <3>2 DEF EndFrame
    <3>3. QED
      BY <3>1, <3>2
  <2>5. CASE ConnectError(c)
    BY <2>4, <2>5 DEF ConnectError
  <2>6. CASE Expire(c)
    BY <2>1, <2>6 DEF Expire
  <2>7. CASE GiveUp(c)
    BY <2>1, <2>7 DEF GiveUp
  <2>8. CASE Nest(c)
    BY <2>1, <2>8 DEF Nest
  <2>9. CASE Finish(c)
    BY <2>1, <2>9 DEF Finish
  <2>10. CASE Close(c)
    BY <2>4, <2>10 DEF Close
  <2>11. CASE PollError(c)
    BY <2>1, <2>11 DEF PollError
  <2>12. QED
    BY <2>2, <2>3, <2>5, <2>6, <2>7, <2>8, <2>9, <2>10, <2>11
<1>4. QED
  BY <1>2, <1>3

\* A polling frame and its connection.
LEMMA PollingFrame ==
  ASSUME IInv, NEW c \in Callers, Polling(c)
  PROVE  /\ depth[c] \in Levels /\ ~Holding(c, depth[c])
         /\ plan[c][depth[c]] \in Keys /\ Id(c, depth[c]) \in Hashes
         /\ ~TopLost(c) => Top(c) # NoSession
<1>1. depth[c] \in 1..depth[c] /\ IsLock(c, depth[c]) /\ pc[c] # "connect"
  BY LockAssumptions DEF IInv, TypeOK, Polling
<1>2. depth[c] \in Levels /\ plan[c][depth[c]] \in Keys /\ Id(c, depth[c]) \in Hashes
  BY <1>1, OpenLevel DEF IInv
<1>3. ~Holding(c, depth[c])
  BY <1>1 DEF Holding, Polling
<1>4. ConnectedAt(c, depth[c]) /\ PastConnect(c, depth[c])
  BY <1>1, <1>2 DEF IInv, Connected, PastConnect
<1>5. QED
  BY <1>2, <1>3, <1>4 DEF ConnectedAt, TopLost, Top

LEMMA HoldingGained ==
  ASSUME IInv, NEW c \in Callers, TryLock(c)
  PROVE  /\ depth[c] \in Levels /\ ~Holding(c, depth[c])
         /\ plan[c][depth[c]] \in Keys /\ Id(c, depth[c]) \in Hashes
         /\ \A b \in Callers : \A d \in Levels :
              Holding(b, d)' <=> Holding(b, d) \/ (b = c /\ d = depth[c])
<1> USE DEF IInv, TypeOK, Holding, IsLock, Polling
<1>1. depth[c] \in 1..depth[c] /\ IsLock(c, depth[c])
  BY LockAssumptions DEF TryLock
<1>2. depth[c] \in Levels /\ plan[c][depth[c]] \in Keys /\ Id(c, depth[c]) \in Hashes
  BY <1>1, OpenLevel
<1>3. ~Holding(c, depth[c])
  BY <1>1 DEF TryLock
<1>4. ASSUME NEW b \in Callers, NEW d \in Levels
      PROVE  Holding(b, d)' <=> Holding(b, d) \/ (b = c /\ d = depth[c])
  BY <1>1 DEF TryLock, Levels
<1>5. QED
  BY <1>2, <1>3, <1>4

LEMMA HoldingDropped ==
  ASSUME IInv, NEW c \in Callers, Unlock(c) \/ UnlockError(c)
  PROVE  /\ depth[c] \in Levels /\ Holding(c, depth[c])
         /\ plan[c][depth[c]] \in Keys /\ Id(c, depth[c]) \in Hashes
         /\ \A b \in Callers : \A d \in Levels :
              Holding(b, d)' <=> Holding(b, d) /\ (b # c \/ d # depth[c])
<1> USE DEF IInv, TypeOK, Holding, IsLock, Polling
<1>1. depth[c] \in 1..depth[c] /\ IsLock(c, depth[c])
  BY LockAssumptions DEF Unlock, UnlockError
<1>2. depth[c] \in Levels /\ plan[c][depth[c]] \in Keys /\ Id(c, depth[c]) \in Hashes
  BY <1>1, OpenLevel
<1>3. Holding(c, depth[c])
  BY <1>1 DEF Unlock, UnlockError
<1>4. ASSUME NEW b \in Callers, NEW d \in Levels
      PROVE  Holding(b, d)' <=> Holding(b, d) /\ (b # c \/ d # depth[c])
  BY <1>1 DEF Unlock, UnlockError, Levels
<1>5. QED
  BY <1>2, <1>3, <1>4

LEMMA HoldingUnderLoss ==
  ASSUME NEW s \in Sessions, SessionLoss(s)
  PROVE  SameHolding
BY DEF SessionLoss, SameHolding, Holding, IsLock

\* A lock id depends on the level's name alone.
LEMMA SameId ==
  ASSUME NEW c, NEW d, plan'[c][d] = plan[c][d]
  PROVE  Id(c, d)' = Id(c, d)
BY DEF Id
----------------------------------------------------------------------------
(* The parts of the inductive invariant, one lemma each. *)

\* Steps that leave every connection where it is.
Quiet(c) == \/ Call(c) \/ ConnectError(c) \/ TryLock(c) \/ Expire(c) \/ GiveUp(c)
            \/ PollError(c) \/ Nest(c) \/ Finish(c) \/ Unlock(c) \/ UnlockError(c)

LEMMA QuietStep ==
  ASSUME NEW c \in Callers, Quiet(c)
  PROVE  UNCHANGED <<sess, lost>>
BY DEF Quiet, Call, ConnectError, TryLock, Expire, GiveUp, PollError, Nest, Finish, Unlock,
       UnlockError, server

LEMMA LostFrames ==
  ASSUME TypeOK, NEW s \in Sessions, SessionLoss(s), NEW c \in Callers, NEW d \in Levels
  PROVE  /\ sess'[c][d] = IF sess[c][d] = s THEN NoSession ELSE sess[c][d]
         /\ <<c, d>> \in lost' <=> <<c, d>> \in lost \/ sess[c][d] = s
<1>1. <<c, d>> \in Frames /\ <<c, d>>[1] = c /\ <<c, d>>[2] = d
  BY DEF Frames
<1>2. QED
  BY <1>1 DEF SessionLoss

LEMMA NextCases ==
  ASSUME [Next]_vars
  PROVE  \/ \E c \in Callers : Quiet(c) \/ Connect(c) \/ Close(c)
         \/ \E s \in Sessions : SessionLoss(s)
         \/ UNCHANGED vars
BY DEF Next, CallerStep, Quiet

LEMMA ConnectStep ==
  ASSUME IInv, NEW c \in Callers, Connect(c)
  PROVE  /\ depth[c] \in Levels
         /\ \E s \in Sessions :
              /\ \A b \in Callers : \A d \in Levels :
                   /\ sess[b][d] # s
                   /\ sess'[b][d] = IF b = c /\ d = depth[c] THEN s ELSE sess[b][d]
<1>1. depth[c] \in Levels
  BY DEF IInv, TypeOK, Connect, Levels
<1>2. PICK s \in Sessions : ~InUse(s) /\ sess' = [sess EXCEPT ![c][depth[c]] = s]
  BY DEF Connect
<1>3. \A b \in Callers : \A d \in Levels :
        /\ sess[b][d] # s
        /\ sess'[b][d] = IF b = c /\ d = depth[c] THEN s ELSE sess[b][d]
  BY <1>1, <1>2 DEF InUse, IInv, TypeOK
<1>4. QED
  BY <1>1, <1>3

LEMMA CloseStep ==
  ASSUME IInv, NEW c \in Callers, Close(c)
  PROVE  /\ depth[c] \in Levels
         /\ \A b \in Callers : \A d \in Levels :
              /\ sess'[b][d] = IF b = c /\ d = depth[c] THEN NoSession ELSE sess[b][d]
              /\ <<b, d>> \in lost' <=> <<b, d>> \in lost /\ (b # c \/ d # depth[c])
<1>1. depth[c] \in Levels
  BY DEF IInv, TypeOK, Close, Levels
<1>2. QED
  BY <1>1 DEF Close, IInv, TypeOK

LEMMA ConnectedStep == IInv /\ [Next]_vars => Connected'
<1> SUFFICES ASSUME IInv, [Next]_vars, NEW b \in Callers, NEW d \in Levels
             PROVE  ConnectedAt(b, d)'
  BY DEF Connected
<1>0. /\ d \in Nat /\ d >= 1
      /\ \A c \in Callers : depth[c] \in Nat /\ (pc[c] # "idle" => depth[c] >= 1)
  BY LockAssumptions DEF Levels, IInv, TypeOK
<1>a. ConnectedAt(b, d)
  BY DEF IInv, Connected
<1> USE DEF IInv, TypeOK, PastConnect
<1>1. ASSUME NEW c \in Callers, Quiet(c)
      PROVE  PastConnect(b, d) <=> PastConnect(b, d)'
  <2>1. CASE Call(c)
    BY <1>0, <2>1 DEF Call
  <2>2. CASE Nest(c)
    BY <1>0, <2>2 DEF Nest
  <2>3. CASE ConnectError(c)
    <3>1. depth[c] >= 1 /\ pc[c] = "connect" /\ depth'[c] = depth[c] - 1 /\ pc'[c] # "connect"
      BY <1>0, <2>3 DEF ConnectError, EndFrame
    <3>2. b # c => depth'[b] = depth[b] /\ pc'[b] = pc[b]
      BY <2>3 DEF ConnectError, EndFrame
    <3>3. QED
      BY <1>0, <3>1, <3>2
  <2>4. CASE TryLock(c) \/ Expire(c) \/ GiveUp(c) \/ PollError(c)
    BY <1>0, <2>4 DEF TryLock, Expire, GiveUp, PollError, Polling
  <2>5. CASE Finish(c) \/ Unlock(c) \/ UnlockError(c)
    BY <1>0, <2>5 DEF Finish, Unlock, UnlockError
  <2>6. QED
    BY <1>1, <2>1, <2>2, <2>3, <2>4, <2>5 DEF Quiet
<1>2. ASSUME NEW c \in Callers, Quiet(c)
      PROVE  ConnectedAt(b, d)'
  <2> HIDE DEF PastConnect
  <2> QED
    BY <1>a, <1>1, <1>2, QuietStep DEF ConnectedAt
<1>3. ASSUME NEW c \in Callers, Connect(c)
      PROVE  ConnectedAt(b, d)'
  <2>1. PastConnect(b, d)' <=> PastConnect(b, d) \/ (b = c /\ d = depth[c])
    BY <1>0, <1>3 DEF Connect
  <2>2. ~PastConnect(c, depth[c])
    BY <1>3 DEF Connect
  <2>3. UNCHANGED lost
    BY <1>3 DEF Connect
  <2> HIDE DEF PastConnect
  <2>4. QED
    BY <1>a, <1>3, <2>1, <2>2, <2>3, ConnectStep, LockAssumptions DEF ConnectedAt
<1>4. ASSUME NEW c \in Callers, Close(c)
      PROVE  ConnectedAt(b, d)'
  <2>1. PastConnect(b, d)' <=> PastConnect(b, d) /\ (b # c \/ d # depth[c])
    BY <1>0, <1>4 DEF Close, EndFrame
  <2> HIDE DEF PastConnect
  <2>2. QED
    BY <1>a, <1>4, <2>1, CloseStep DEF ConnectedAt
<1>5. ASSUME NEW s \in Sessions, SessionLoss(s)
      PROVE  ConnectedAt(b, d)'
  <2>1. PastConnect(b, d)' <=> PastConnect(b, d)
    BY <1>5 DEF SessionLoss
  <2> HIDE DEF PastConnect
  <2>2. QED
    BY <1>a, <1>5, <2>1, LostFrames, LockAssumptions DEF ConnectedAt
<1>6. CASE UNCHANGED vars
  BY <1>a, <1>6 DEF vars, ConnectedAt
<1>7. QED
  BY <1>2, <1>3, <1>4, <1>5, <1>6, NextCases

LEMMA DistinctStep == IInv /\ [Next]_vars => Distinct'
<1> SUFFICES ASSUME IInv, [Next]_vars,
                    NEW b \in Callers, NEW c \in Callers, NEW d \in Levels, NEW e \in Levels
             PROVE  sess'[b][d] = sess'[c][e] /\ sess'[b][d] # NoSession => b = c /\ d = e
  BY DEF Distinct
<1>0. sess[b][d] = sess[c][e] /\ sess[b][d] # NoSession => b = c /\ d = e
  BY DEF IInv, Distinct
<1>1. ASSUME NEW a \in Callers, Quiet(a)
      PROVE  sess'[b][d] = sess'[c][e] /\ sess'[b][d] # NoSession => b = c /\ d = e
  BY <1>0, <1>1, QuietStep
<1>2. ASSUME NEW a \in Callers, Connect(a)
      PROVE  sess'[b][d] = sess'[c][e] /\ sess'[b][d] # NoSession => b = c /\ d = e
  <2>1. PICK s \in Sessions : \A x \in Callers : \A y \in Levels :
          /\ sess[x][y] # s
          /\ sess'[x][y] = IF x = a /\ y = depth[a] THEN s ELSE sess[x][y]
    BY <1>2, ConnectStep
  <2>2. sess[b][d] # s /\ sess[c][e] # s
    BY <2>1
  <2>3. /\ sess'[b][d] = IF b = a /\ d = depth[a] THEN s ELSE sess[b][d]
        /\ sess'[c][e] = IF c = a /\ e = depth[a] THEN s ELSE sess[c][e]
    BY <2>1
  <2>4. QED
    BY <1>0, <2>2, <2>3
<1>3. ASSUME NEW a \in Callers, Close(a)
      PROVE  sess'[b][d] = sess'[c][e] /\ sess'[b][d] # NoSession => b = c /\ d = e
  <2>1. /\ sess'[b][d] = IF b = a /\ d = depth[a] THEN NoSession ELSE sess[b][d]
        /\ sess'[c][e] = IF c = a /\ e = depth[a] THEN NoSession ELSE sess[c][e]
    BY <1>3, CloseStep
  <2>2. QED
    BY <1>0, <2>1
<1>4. ASSUME NEW s \in Sessions, SessionLoss(s)
      PROVE  sess'[b][d] = sess'[c][e] /\ sess'[b][d] # NoSession => b = c /\ d = e
  <2>1. /\ sess'[b][d] = IF sess[b][d] = s THEN NoSession ELSE sess[b][d]
        /\ sess'[c][e] = IF sess[c][e] = s THEN NoSession ELSE sess[c][e]
    BY <1>4, LostFrames DEF IInv
  <2>2. QED
    BY <1>0, <2>1
<1>5. CASE UNCHANGED vars
  BY <1>0, <1>5 DEF vars
<1>6. QED
  BY <1>1, <1>2, <1>3, <1>4, <1>5, NextCases

\* The id a frame takes is not held by a frame with a live connection.
LEMMA TakenAlone ==
  ASSUME IInv, NEW c \in Callers, Polling(c), Granted(Id(c, depth[c]), Top(c)),
         NEW b \in Callers, NEW d \in Levels, Holding(b, d), <<b, d>> \notin lost
  PROVE  Id(b, d) # Id(c, depth[c])
<1>1. depth[c] \in Levels /\ ~Holding(c, depth[c])
  BY PollingFrame
<1>2. sess[b][d] # NoSession /\ owner[Id(b, d)] = sess[b][d]
  BY DEF IInv, Grants
<1>3. b # c \/ d # depth[c]
  BY <1>1
<1>4. sess[b][d] # sess[c][depth[c]]
  BY <1>1, <1>2, <1>3 DEF IInv, Distinct
<1>5. QED
  BY <1>2, <1>4 DEF Granted, Top

\* The id a frame gives back is not held by another with a live connection.
LEMMA DroppedAlone ==
  ASSUME IInv, NEW c \in Callers, NEW e \in Levels, Holding(c, e), <<c, e>> \notin lost,
         NEW b \in Callers, NEW d \in Levels, Holding(b, d), <<b, d>> \notin lost,
         b # c \/ d # e
  PROVE  Id(b, d) # Id(c, e)
BY DEF IInv, Grants, Distinct

LEMMA GrantsStep == IInv /\ [Next]_vars => Grants'
<1> SUFFICES ASSUME IInv, [Next]_vars, NEW b \in Callers, NEW d \in Levels,
                    Holding(b, d)', <<b, d>> \notin lost'
             PROVE  sess'[b][d] # NoSession /\ owner'[Id(b, d)'] = sess'[b][d]
  BY DEF Grants
<1>a. Holding(b, d) /\ <<b, d>> \notin lost
      => sess[b][d] # NoSession /\ owner[Id(b, d)] = sess[b][d]
  BY DEF IInv, Grants
<1>b. Holding(b, d) => Id(b, d) \in Hashes
  <2>1. Holding(b, d) => d \in 1..depth[b] /\ IsLock(b, d)
    BY DEF Holding
  <2>2. QED
    BY <2>1, OpenLevel DEF IInv
<1>1. ASSUME NEW c \in Callers,
             \/ Call(c) \/ ConnectError(c) \/ Expire(c) \/ GiveUp(c) \/ Nest(c) \/ Finish(c)
      PROVE  sess'[b][d] # NoSession /\ owner'[Id(b, d)'] = sess'[b][d]
  <2>1. UNCHANGED <<sess, lost, owner>>
    BY <1>1 DEF Call, ConnectError, Expire, GiveUp, Nest, Finish, server
  <2>2. Holding(b, d) /\ Id(b, d)' = Id(b, d)
    BY <1>1, HoldingKept, SameId DEF SameHolding
  <2>3. QED
    BY <1>a, <2>1, <2>2
<1>2. ASSUME NEW c \in Callers, Connect(c)
      PROVE  sess'[b][d] # NoSession /\ owner'[Id(b, d)'] = sess'[b][d]
  <2>1. Holding(b, d) /\ Id(b, d)' = Id(b, d)
    BY <1>2, HoldingKept, SameId DEF SameHolding
  <2>2. UNCHANGED <<lost, owner>> /\ ~(b = c /\ d = depth[c])
    BY <1>2, <2>1 DEF Connect, server, Holding
  <2>3. sess'[b][d] = sess[b][d]
    BY <1>2, <2>2, ConnectStep
  <2>4. QED
    BY <1>a, <2>1, <2>2, <2>3
<1>3. ASSUME NEW c \in Callers, Close(c)
      PROVE  sess'[b][d] # NoSession /\ owner'[Id(b, d)'] = sess'[b][d]
  <2>1. Holding(b, d) /\ Id(b, d)' = Id(b, d)
    BY <1>3, HoldingKept, SameId DEF SameHolding
  <2>2. UNCHANGED owner /\ ~(b = c /\ d = depth[c])
    BY <1>3, <2>1 DEF Close, server, Holding
  <2>3. sess'[b][d] = sess[b][d] /\ <<b, d>> \notin lost
    BY <1>3, <2>2, CloseStep
  <2>4. QED
    BY <1>a, <2>1, <2>2, <2>3
<1>4. ASSUME NEW c \in Callers, TryLock(c)
      PROVE  sess'[b][d] # NoSession /\ owner'[Id(b, d)'] = sess'[b][d]
  <2>1. UNCHANGED <<sess, lost, plan>> /\ <<c, depth[c]>> \notin lost
        /\ owner' = [owner EXCEPT ![Id(c, depth[c])] = sess[c][depth[c]]]
    BY <1>4 DEF TryLock, TopLost, Top
  <2>2. Id(b, d)' = Id(b, d) /\ owner \in [Hashes -> Sessions \cup {NoSession}]
    BY <2>1, SameId DEF IInv, TypeOK
  <2>3. CASE Holding(b, d)
    BY <1>4, <1>a, <1>b, <2>1, <2>2, <2>3, TakenAlone DEF TryLock
  <2>4. CASE ~Holding(b, d)
    <3>1. b = c /\ d = depth[c] /\ Id(c, depth[c]) \in Hashes
      BY <1>4, <2>4, HoldingGained
    <3>2. sess[c][depth[c]] # NoSession
      BY <1>4, PollingFrame DEF TryLock, Top
    <3>3. QED
      BY <2>1, <2>2, <3>1, <3>2
  <2>5. QED
    BY <2>3, <2>4
<1>5. ASSUME NEW c \in Callers, Unlock(c) \/ UnlockError(c)
      PROVE  sess'[b][d] # NoSession /\ owner'[Id(b, d)'] = sess'[b][d]
  <2>1. UNCHANGED <<sess, lost, plan>>
    BY <1>5 DEF Unlock, UnlockError
  <2>2. Holding(b, d) /\ (b # c \/ d # depth[c]) /\ Holding(c, depth[c])
        /\ depth[c] \in Levels /\ Id(b, d)' = Id(b, d)
    BY <1>5, <2>1, HoldingDropped, SameId
  <2>3. CASE UnlockError(c)
    BY <1>a, <2>1, <2>2, <2>3 DEF UnlockError, server
  <2>4. CASE Unlock(c)
    <3>1. Id(b, d) # Id(c, depth[c])
      BY <2>1, <2>2, <2>4, DroppedAlone DEF Unlock, TopLost
    <3>2. owner'[Id(b, d)] = owner[Id(b, d)]
      BY <1>b, <2>2, <2>4, <3>1 DEF Unlock, IInv, TypeOK
    <3>3. QED
      BY <1>a, <2>1, <2>2, <3>2
  <2>5. QED
    BY <1>5, <2>3, <2>4
<1>6. ASSUME NEW s \in Sessions, SessionLoss(s)
      PROVE  sess'[b][d] # NoSession /\ owner'[Id(b, d)'] = sess'[b][d]
  <2>1. Holding(b, d) /\ Id(b, d)' = Id(b, d)
    BY <1>6, HoldingUnderLoss, SameId DEF SameHolding
  <2>2. sess[b][d] # s /\ sess'[b][d] = sess[b][d] /\ <<b, d>> \notin lost
    BY <1>6, LostFrames DEF IInv
  <2>3. QED
    BY <1>6, <1>a, <1>b, <2>1, <2>2 DEF SessionLoss
<1>7. ASSUME NEW c \in Callers, PollError(c)
      PROVE  sess'[b][d] # NoSession /\ owner'[Id(b, d)'] = sess'[b][d]
  <2>1. UNCHANGED <<sess, lost>>
    BY <1>7 DEF PollError
  <2>2. Holding(b, d) /\ Id(b, d)' = Id(b, d)
    BY <1>7, HoldingKept, SameId DEF SameHolding
  <2>3. owner'[Id(b, d)] = owner[Id(b, d)]
    <3>1. CASE UNCHANGED owner
      BY <3>1
    <3>2. CASE /\ Polling(c) /\ Granted(Id(c, depth[c]), Top(c))
               /\ owner' = [owner EXCEPT ![Id(c, depth[c])] = Top(c)]
      BY <1>b, <2>1, <2>2, <3>2, TakenAlone DEF IInv, TypeOK
    <3>3. QED
      BY <1>7, <3>1, <3>2 DEF PollError, server
  <2>4. QED
    BY <1>a, <2>1, <2>2, <2>3
<1>8. CASE UNCHANGED vars
  BY <1>8, <1>a DEF vars, Holding, IsLock, Id
<1>9. QED
  BY <1>1, <1>2, <1>3, <1>4, <1>5, <1>6, <1>7, <1>8, NextCases DEF Quiet

LEMMA CountedStep == IInv /\ [Next]_vars => Counted'
<1> SUFFICES ASSUME IInv, [Next]_vars, NEW h \in Hashes
             PROVE  owner'[h] = NoSession <=> count'[h] = 0
  BY DEF Counted
<1>0. /\ owner[h] = NoSession <=> count[h] = 0
      /\ owner \in [Hashes -> Sessions \cup {NoSession}]
      /\ count \in [Hashes -> Nat]
  BY DEF IInv, Counted, TypeOK
<1>1. ASSUME NEW c \in Callers, TryLock(c) \/ PollError(c)
      PROVE  owner'[h] = NoSession <=> count'[h] = 0
  <2>1. Top(c) # NoSession
    BY <1>1, PollingFrame DEF TryLock, PollError
  <2>2. CASE UNCHANGED <<owner, count>>
    BY <1>0, <2>2
  <2>3. CASE /\ owner' = [owner EXCEPT ![Id(c, depth[c])] = Top(c)]
             /\ count' = [count EXCEPT ![Id(c, depth[c])] = @ + 1]
    BY <1>0, <2>1, <2>3
  <2>4. QED
    BY <1>1, <2>2, <2>3 DEF TryLock, PollError, server
<1>2. ASSUME NEW c \in Callers, Unlock(c)
      PROVE  owner'[h] = NoSession <=> count'[h] = 0
  <2>1. CASE h = Id(c, depth[c])
    <3>1. Holding(c, depth[c]) /\ depth[c] \in Levels
      BY <1>2, HoldingDropped
    <3>2. owner[h] # NoSession
      BY <1>2, <2>1, <3>1 DEF IInv, Grants, Unlock, TopLost
    <3>3. QED
      BY <1>0, <1>2, <2>1, <3>2 DEF Unlock
  <2>2. CASE h # Id(c, depth[c])
    BY <1>0, <1>2, <2>2 DEF Unlock
  <2>3. QED
    BY <2>1, <2>2
<1>3. ASSUME NEW c \in Callers,
             \/ Call(c) \/ Connect(c) \/ ConnectError(c) \/ Expire(c) \/ GiveUp(c)
             \/ Nest(c) \/ Finish(c) \/ UnlockError(c) \/ Close(c)
      PROVE  owner'[h] = NoSession <=> count'[h] = 0
  <2>1. UNCHANGED <<owner, count>>
    BY <1>3 DEF Call, Connect, ConnectError, Expire, GiveUp, Nest, Finish, UnlockError,
       Close, server
  <2>2. QED
    BY <1>0, <2>1
<1>4. ASSUME NEW s \in Sessions, SessionLoss(s)
      PROVE  owner'[h] = NoSession <=> count'[h] = 0
  BY <1>0, <1>4 DEF SessionLoss
<1>5. CASE UNCHANGED vars
  BY <1>0, <1>5 DEF vars
<1>6. QED
  BY <1>1, <1>2, <1>3, <1>4, <1>5, NextCases DEF Quiet

AccountedAt(h) ==
  /\ count[h] = 1
  /\ \E c \in Callers : \E d \in Levels :
       Holding(c, d) /\ Id(c, d) = h /\ sess[c][d] = owner[h]

\* What keeps an id accounted for: its grant, and the frame that holds it.
LEMMA StillAccounted ==
  ASSUME NEW h \in Hashes, UNCHANGED <<owner[h], count[h]>>, count[h] = 1,
         NEW c \in Callers, NEW d \in Levels, Holding(c, d)', plan'[c][d] = plan[c][d],
         sess'[c][d] = sess[c][d], Id(c, d) = h, sess[c][d] = owner[h]
  PROVE  AccountedAt(h)'
<1>1. Id(c, d)' = h
  BY SameId
<1>2. QED
  BY <1>1 DEF AccountedAt

LEMMA AccountedStep == IInv /\ [Next]_vars => Accounted'
<1> SUFFICES ASSUME IInv, [Next]_vars, NEW h \in Hashes, h \notin leaked',
                    owner'[h] # NoSession
             PROVE  AccountedAt(h)'
  BY DEF Accounted, AccountedAt
<1>a. h \notin leaked /\ owner[h] # NoSession => AccountedAt(h)
  BY DEF IInv, Accounted, AccountedAt
<1>b. owner \in [Hashes -> Sessions \cup {NoSession}] /\ count \in [Hashes -> Nat]
  BY DEF IInv, TypeOK
<1>1. ASSUME NEW c \in Callers,
             \/ Call(c) \/ Connect(c) \/ ConnectError(c) \/ Expire(c)
             \/ GiveUp(c) \/ Nest(c) \/ Finish(c) \/ Close(c)
      PROVE  AccountedAt(h)'
  <2>1. UNCHANGED <<owner, count, leaked>>
    BY <1>1 DEF Call, Connect, ConnectError, Expire, GiveUp, Nest, Finish, Close, server
  <2>2. PICK b \in Callers, d \in Levels :
          Holding(b, d) /\ Id(b, d) = h /\ sess[b][d] = owner[h]
    BY <1>a, <2>1 DEF AccountedAt
  <2>3. Holding(b, d)' /\ plan'[b][d] = plan[b][d]
    BY <1>1, <2>2, HoldingKept DEF SameHolding
  <2>4. sess'[b][d] = sess[b][d]
    <3>1. CASE Connect(c)
      <4>1. b # c \/ d # depth[c]
        BY <2>2, <3>1 DEF Connect, Holding
      <4>2. QED
        BY <3>1, <4>1, ConnectStep
    <3>2. CASE Close(c)
      <4>1. b # c \/ d # depth[c]
        BY <2>2, <3>2 DEF Close, Holding
      <4>2. QED
        BY <3>2, <4>1, CloseStep
    <3>3. CASE Quiet(c)
      BY <3>3, QuietStep
    <3>4. QED
      BY <1>1, <3>1, <3>2, <3>3 DEF Quiet
  <2>5. QED
    BY <1>a, <2>1, <2>2, <2>3, <2>4, StillAccounted DEF AccountedAt
<1>2. ASSUME NEW c \in Callers, TryLock(c)
      PROVE  AccountedAt(h)'
  <2>1. UNCHANGED <<sess, plan, leaked>> /\ depth[c] \in Levels /\ ~Holding(c, depth[c])
        /\ Holding(c, depth[c])' /\ Id(c, depth[c]) \in Hashes
    BY <1>2, HoldingGained DEF TryLock
  <2>2. CASE h = Id(c, depth[c])
    <3>1. owner[h] = NoSession
      <4>1. SUFFICES ASSUME owner[h] # NoSession PROVE FALSE
        OBVIOUS
      <4>2. owner[h] = sess[c][depth[c]]
        BY <1>2, <2>2, <4>1 DEF TryLock, Granted, Top
      <4>3. PICK b \in Callers, d \in Levels : Holding(b, d) /\ sess[b][d] = owner[h]
        BY <1>a, <2>1, <4>1 DEF AccountedAt
      <4>4. b = c /\ d = depth[c]
        BY <2>1, <4>1, <4>2, <4>3 DEF IInv, Distinct
      <4>5. QED
        BY <2>1, <4>3, <4>4
    <3>2. count'[h] = 1 /\ owner'[h] = sess[c][depth[c]]
      BY <1>2, <1>b, <2>2, <3>1 DEF TryLock, Top, IInv, Counted
    <3>3. PICK e \in Levels : e = depth[c]
      BY <2>1
    <3>4. Holding(c, e)' /\ Id(c, e)' = h /\ sess'[c][e] = owner'[h]
      BY <1>2, <2>1, <2>2, <3>2, <3>3, HoldingGained, SameId
    <3>5. QED
      BY <3>2, <3>4 DEF AccountedAt
  <2>3. CASE h # Id(c, depth[c])
    <3>1. owner'[h] = owner[h] /\ count'[h] = count[h]
      BY <1>2, <1>b, <2>3 DEF TryLock
    <3>2. PICK b \in Callers, d \in Levels :
            Holding(b, d) /\ Id(b, d) = h /\ sess[b][d] = owner[h]
      BY <1>a, <2>1, <3>1 DEF AccountedAt
    <3>3. Holding(b, d)'
      BY <1>2, <3>2, HoldingGained
    <3>4. QED
      BY <1>a, <2>1, <3>1, <3>2, <3>3, StillAccounted DEF AccountedAt
  <2>4. QED
    BY <2>2, <2>3
<1>3. ASSUME NEW c \in Callers, Unlock(c)
      PROVE  AccountedAt(h)'
  <2>1. UNCHANGED <<sess, plan, leaked>> /\ Id(c, depth[c]) \in Hashes
    BY <1>3, HoldingDropped DEF Unlock
  <2>2. h # Id(c, depth[c])
    <3>1. SUFFICES ASSUME h = Id(c, depth[c]) PROVE FALSE
      OBVIOUS
    <3>2. owner[h] # NoSession
      BY <1>3, <3>1, HoldingDropped DEF IInv, Grants, Unlock, TopLost
    <3>3. count[h] = 1
      BY <1>a, <2>1, <3>2 DEF AccountedAt
    <3>4. QED
      BY <1>3, <1>b, <3>1, <3>3 DEF Unlock
  <2>3. owner'[h] = owner[h] /\ count'[h] = count[h]
    BY <1>3, <1>b, <2>2 DEF Unlock
  <2>4. PICK b \in Callers, d \in Levels :
          Holding(b, d) /\ Id(b, d) = h /\ sess[b][d] = owner[h]
    BY <1>a, <2>1, <2>3 DEF AccountedAt
  <2>5. Holding(b, d)'
    BY <1>3, <2>2, <2>4, HoldingDropped
  <2>6. QED
    BY <1>a, <2>1, <2>3, <2>4, <2>5, StillAccounted DEF AccountedAt
<1>4. ASSUME NEW c \in Callers, UnlockError(c)
      PROVE  AccountedAt(h)'
  <2>1. UNCHANGED <<sess, plan, owner, count>> /\ h \notin leaked
    BY <1>4 DEF UnlockError, server
  <2>2. PICK b \in Callers, d \in Levels :
          Holding(b, d) /\ Id(b, d) = h /\ sess[b][d] = owner[h]
    BY <1>a, <2>1 DEF AccountedAt
  <2>3. b # c \/ d # depth[c]
    <3>1. CASE TopLost(c)
      BY <2>1, <2>2, <3>1 DEF TopLost, IInv, Connected, ConnectedAt
    <3>2. CASE ~TopLost(c)
      BY <1>4, <2>2, <3>2 DEF UnlockError
    <3>3. QED
      BY <3>1, <3>2
  <2>4. Holding(b, d)'
    BY <1>4, <2>2, <2>3, HoldingDropped
  <2>5. QED
    BY <1>a, <2>1, <2>2, <2>4, StillAccounted DEF AccountedAt
<1>5. ASSUME NEW s \in Sessions, SessionLoss(s)
      PROVE  AccountedAt(h)'
  <2>1. UNCHANGED leaked /\ owner[h] # s /\ owner'[h] = owner[h] /\ count'[h] = count[h]
    BY <1>5 DEF SessionLoss
  <2>2. PICK b \in Callers, d \in Levels :
          Holding(b, d) /\ Id(b, d) = h /\ sess[b][d] = owner[h]
    BY <1>a, <2>1 DEF AccountedAt
  <2>3. Holding(b, d)' /\ plan'[b][d] = plan[b][d]
    BY <1>5, <2>2, HoldingUnderLoss DEF SameHolding
  <2>4. sess'[b][d] = sess[b][d]
    BY <1>5, <2>1, <2>2, LostFrames DEF IInv
  <2>5. QED
    BY <1>a, <2>1, <2>2, <2>3, <2>4, StillAccounted DEF AccountedAt
<1>6. ASSUME NEW c \in Callers, PollError(c)
      PROVE  AccountedAt(h)'
  <2>1. UNCHANGED <<sess, plan>> /\ h \notin leaked
    BY <1>6 DEF PollError
  <2>2. owner'[h] = owner[h] /\ count'[h] = count[h]
    BY <1>6, <1>b DEF PollError, server
  <2>3. PICK b \in Callers, d \in Levels :
          Holding(b, d) /\ Id(b, d) = h /\ sess[b][d] = owner[h]
    BY <1>a, <2>1, <2>2 DEF AccountedAt
  <2>4. Holding(b, d)'
    BY <1>6, <2>3, HoldingKept DEF SameHolding
  <2>5. QED
    BY <1>a, <2>1, <2>2, <2>3, <2>4, StillAccounted DEF AccountedAt
<1>7. CASE UNCHANGED vars
  BY <1>7, <1>a DEF vars, AccountedAt, Holding, Id, IsLock
<1>8. QED
  BY <1>1, <1>2, <1>3, <1>4, <1>5, <1>6, <1>7, NextCases DEF Quiet

THEOREM Inductive == Spec => []IInv
<1>1. Init => IInv
  <2> SUFFICES ASSUME Init PROVE IInv
    OBVIOUS
  <2>1. \A c \in Callers : \A d \in Levels : sess[c][d] = NoSession /\ ~Holding(c, d)
    BY LockAssumptions DEF Init, Holding, Levels
  <2>2. Connected
    BY <2>1, LockAssumptions DEF Init, Connected, ConnectedAt, PastConnect, Levels
  <2>3. QED
    BY <2>1, <2>2, TypeInit DEF Init, IInv, Distinct, Grants, Counted, Accounted
<1>2. IInv /\ [Next]_vars => IInv'
  BY TypeStep, ConnectedStep, DistinctStep, GrantsStep, CountedStep, AccountedStep
     DEF IInv
<1>3. QED
  BY <1>1, <1>2, PTL DEF Spec
----------------------------------------------------------------------------
(* The results. *)

\* Every variable keeps its type, and the phase agrees with the open frames.
THEOREM TypeCorrect == Spec => []TypeOK
<1>1. IInv => TypeOK
  BY DEF IInv
<1>2. QED
  BY <1>1, Inductive, PTL

\* Two frames never hold one lock id unless one of them has lost its session:
\* nesting, timeouts, failed unlocks, leaked grants that a pooled connection
\* takes along and colliding names do not break the exclusion.
THEOREM Exclusion == Spec => []ExclusiveUnlessLost
<1>1. IInv => ExclusiveUnlessLost
  BY DEF IInv, Grants, Distinct, ExclusiveUnlessLost
<1>2. QED
  BY <1>1, Inductive, PTL

\* The finally block leaves no grant behind: an id shown as granted whose
\* unlock and polls never failed is held by a frame still in withLock.
THEOREM NoOrphans == Spec => []OrphanOnlyAfterError
<1>1. IInv => OrphanOnlyAfterError
  BY DEF IInv, Accounted, OrphanOnlyAfterError
<1>2. QED
  BY <1>1, Inductive, PTL

NoneLost == lost = {}

\* Without lost sessions the lock is what the README takes it for.
THEOREM ExclusionWithoutLoss ==
  ASSUME "session_loss" \notin Faults
  PROVE  Spec => []NoConcurrentHolders
<1>1. Init => NoneLost
  BY DEF Init, NoneLost
<1>2. NoneLost /\ [Next]_vars => NoneLost'
  <2> SUFFICES ASSUME lost = {}, [Next]_vars PROVE lost' = {}
    BY DEF NoneLost
  <2>1. \A s \in Sessions : ~SessionLoss(s)
    BY DEF SessionLoss, Fail
  <2>2. ASSUME NEW c \in Callers, Quiet(c) PROVE lost' = {}
    BY <2>2, QuietStep
  <2>3. ASSUME NEW c \in Callers, Connect(c) \/ Close(c) PROVE lost' = {}
    BY <2>3 DEF Connect, Close
  <2>4. QED
    BY <2>1, <2>2, <2>3, NextCases DEF vars
<1>3. NoneLost /\ ExclusiveUnlessLost => NoConcurrentHolders
  <2> SUFFICES ASSUME lost = {}, ExclusiveUnlessLost,
                      NEW b \in Callers, NEW c \in Callers, NEW d \in Levels, NEW e \in Levels,
                      Holding(b, d), Holding(c, e), Id(b, d) = Id(c, e)
               PROVE  b = c /\ d = e
    BY DEF NoConcurrentHolders, NoneLost
  <2>1. b # c \/ d # e => <<b, d>> \in lost \/ <<c, e>> \in lost
    BY DEF ExclusiveUnlessLost
  <2>2. QED
    BY <2>1
<1>4. QED
  BY <1>1, <1>2, <1>3, Exclusion, PTL DEF Spec
----------------------------------------------------------------------------
(* withLock implements Mutex. *)

LiveAt(c, d) == Holding(c, d) /\ <<c, d>> \notin lost
Entry(c, d) == <<<<c, d>>, plan[c][d]>>

LEMMA InsideNow ==
  \A x : x \in Inside <=> \E c \in Callers : \E d \in Levels :
                            LiveAt(c, d) /\ x = Entry(c, d)
<1>1. ASSUME NEW x \in Inside
      PROVE  \E c \in Callers : \E d \in Levels : LiveAt(c, d) /\ x = Entry(c, d)
  <2>1. PICK f \in LiveHolders : x = <<f, plan[f[1]][f[2]]>>
    BY DEF Inside
  <2>2. PICK c \in Callers, d \in Levels : f = <<c, d>>
    BY DEF LiveHolders, Frames
  <2>3. LiveAt(c, d) /\ x = Entry(c, d)
    BY <2>1, <2>2 DEF LiveHolders, LiveAt, Entry
  <2>4. QED
    BY <2>3
<1>2. ASSUME NEW c \in Callers, NEW d \in Levels, LiveAt(c, d)
      PROVE  Entry(c, d) \in Inside
  <2>1. <<c, d>> \in LiveHolders
    BY <1>2 DEF LiveHolders, LiveAt, Frames
  <2>2. QED
    BY <2>1 DEF Inside, Entry
<1>3. QED
  BY <1>1, <1>2

LEMMA InsideMember ==
  /\ \A x : x \in Inside <=> \E c \in Callers : \E d \in Levels :
                               LiveAt(c, d) /\ x = Entry(c, d)
  /\ (\A x : x \in Inside <=> \E c \in Callers : \E d \in Levels :
                                LiveAt(c, d) /\ x = Entry(c, d))'
BY InsideNow, PTL

\* A step that neither admits nor dismisses a live holder.
LEMMA SameInside ==
  ASSUME \A c \in Callers : \A d \in Levels :
           /\ LiveAt(c, d)' <=> LiveAt(c, d)
           /\ LiveAt(c, d) => Entry(c, d)' = Entry(c, d)
  PROVE  Inside' = Inside
BY InsideMember

LEMMA EntersInside ==
  ASSUME NEW b \in Callers, NEW e \in Levels, plan[b][e] \in Keys,
         \A c \in Callers : \A d \in Levels :
           /\ LiveAt(c, d)' <=> LiveAt(c, d) \/ (c = b /\ d = e)
           /\ Entry(c, d)' = Entry(c, d),
         \A c \in Callers : \A d \in Levels : LiveAt(c, d) => plan[c][d] # plan[b][e]
  PROVE  Promise!Next
<1>1. <<b, e>> \in Frames
  BY DEF Frames
<1>2. \A p \in Inside : p[2] # plan[b][e]
  BY InsideMember DEF Entry
<1>3. Inside' = Inside \cup {Entry(b, e)}
  BY InsideMember
<1>4. Promise!Enter(<<b, e>>, plan[b][e])
  BY <1>2, <1>3 DEF Promise!Enter, Entry
<1>5. QED
  BY <1>1, <1>4 DEF Promise!Next

LEMMA LeavesInside ==
  ASSUME NEW b \in Callers, NEW e \in Levels, plan[b][e] \in Keys, LiveAt(b, e),
         \A c \in Callers : \A d \in Levels :
           /\ LiveAt(c, d)' <=> LiveAt(c, d) /\ (c # b \/ d # e)
           /\ Entry(c, d)' = Entry(c, d)
  PROVE  Promise!Next
<1>1. <<b, e>> \in Frames
  BY DEF Frames
<1>2. Entry(b, e) \in Inside
  BY InsideMember
<1>3. \A c \in Callers : \A d \in Levels : Entry(c, d) = Entry(b, e) => c = b /\ d = e
  BY DEF Entry
<1>4. Inside' = Inside \ {Entry(b, e)}
  BY <1>3, InsideMember
<1>5. Promise!Leave(<<b, e>>, plan[b][e])
  BY <1>2, <1>4 DEF Promise!Leave, Entry
<1>6. QED
  BY <1>1, <1>5 DEF Promise!Next

\* Every step of withLock enters, leaves or does not concern the promise.
LEMMA PromiseStep == IInv /\ [Next]_vars => [Promise!Next]_Inside
<1> SUFFICES ASSUME IInv, [Next]_vars PROVE Promise!Next \/ Inside' = Inside
  OBVIOUS
<1>1. ASSUME NEW c \in Callers,
             \/ Call(c) \/ Connect(c) \/ ConnectError(c) \/ Expire(c)
             \/ GiveUp(c) \/ PollError(c) \/ Nest(c) \/ Finish(c)
      PROVE  Inside' = Inside
  <2>1. SameHolding /\ UNCHANGED lost
    BY <1>1, HoldingKept
       DEF Call, Connect, ConnectError, Expire, GiveUp, PollError, Nest, Finish
  <2>2. QED
    BY <2>1, SameInside DEF SameHolding, LiveAt, Entry
<1>2. ASSUME NEW c \in Callers, Close(c)
      PROVE  Inside' = Inside
  <2>1. SameHolding /\ ~Holding(c, depth[c])
    BY <1>2, HoldingKept DEF Close, Holding
  <2>2. ASSUME NEW b \in Callers, NEW d \in Levels
        PROVE  /\ LiveAt(b, d)' <=> LiveAt(b, d)
               /\ LiveAt(b, d) => Entry(b, d)' = Entry(b, d)
    BY <1>2, <2>1, CloseStep DEF SameHolding, LiveAt, Entry
  <2>3. QED
    BY <2>2, SameInside
<1>3. ASSUME NEW c \in Callers, TryLock(c)
      PROVE  Promise!Next
  <2>1. UNCHANGED <<plan, lost>> /\ <<c, depth[c]>> \notin lost
    BY <1>3 DEF TryLock, TopLost
  <2>2. PICK e \in Levels : e = depth[c] /\ plan[c][e] \in Keys
    BY <1>3, HoldingGained
  <2>3. ASSUME NEW b \in Callers, NEW d \in Levels
        PROVE  /\ LiveAt(b, d)' <=> LiveAt(b, d) \/ (b = c /\ d = e)
               /\ Entry(b, d)' = Entry(b, d)
    BY <1>3, <2>1, <2>2, HoldingGained DEF LiveAt, Entry
  <2>4. ASSUME NEW b \in Callers, NEW d \in Levels, LiveAt(b, d)
        PROVE  plan[b][d] # plan[c][e]
    <3>1. Id(b, d) # Id(c, e)
      BY <1>3, <2>2, <2>4, TakenAlone DEF LiveAt, TryLock
    <3>2. QED
      BY <3>1 DEF Id
  <2>5. QED
    BY <2>2, <2>3, <2>4, EntersInside
<1>4. ASSUME NEW c \in Callers, Unlock(c) \/ UnlockError(c)
      PROVE  Promise!Next \/ Inside' = Inside
  <2>1. UNCHANGED <<plan, lost>>
    BY <1>4 DEF Unlock, UnlockError
  <2>2. PICK e \in Levels : e = depth[c] /\ plan[c][e] \in Keys /\ Holding(c, e)
    BY <1>4, HoldingDropped
  <2>3. ASSUME NEW b \in Callers, NEW d \in Levels
        PROVE  /\ LiveAt(b, d)' <=> LiveAt(b, d) /\ (b # c \/ d # e)
               /\ Entry(b, d)' = Entry(b, d)
    BY <1>4, <2>1, <2>2, HoldingDropped DEF LiveAt, Entry
  <2>4. CASE LiveAt(c, e)
    BY <2>2, <2>3, <2>4, LeavesInside
  <2>5. CASE ~LiveAt(c, e)
    BY <2>3, <2>5, SameInside
  <2>6. QED
    BY <2>4, <2>5
<1>5. ASSUME NEW s \in Sessions, SessionLoss(s)
      PROVE  Promise!Next \/ Inside' = Inside
  <2>1. SameHolding /\ UNCHANGED plan
    BY <1>5, HoldingUnderLoss DEF SessionLoss
  <2>2. ASSUME NEW b \in Callers, NEW d \in Levels
        PROVE  /\ LiveAt(b, d)' <=> LiveAt(b, d) /\ sess[b][d] # s
               /\ Entry(b, d)' = Entry(b, d)
    <3>1. <<b, d>> \in lost' <=> <<b, d>> \in lost \/ sess[b][d] = s
      BY <1>5, LostFrames DEF IInv
    <3>2. Holding(b, d)' <=> Holding(b, d)
      BY <2>1 DEF SameHolding
    <3>3. QED
      BY <2>1, <3>1, <3>2 DEF LiveAt, Entry
  <2>3. CASE \E c \in Callers : \E e \in Levels : sess[c][e] = s /\ LiveAt(c, e)
    <3>1. PICK c \in Callers, e \in Levels : sess[c][e] = s /\ LiveAt(c, e)
      BY <2>3
    <3>2. \A b \in Callers : \A d \in Levels : sess[b][d] = s <=> b = c /\ d = e
      BY <3>1, LockAssumptions DEF IInv, Distinct
    <3>3. plan[c][e] \in Keys
      <4>1. e \in 1..depth[c] /\ IsLock(c, e)
        BY <3>1 DEF LiveAt, Holding
      <4>2. QED
        BY <4>1, OpenLevel DEF IInv
    <3>4. QED
      BY <2>2, <3>1, <3>2, <3>3, LeavesInside
  <2>4. CASE ~\E c \in Callers : \E e \in Levels : sess[c][e] = s /\ LiveAt(c, e)
    BY <2>2, <2>4, SameInside
  <2>5. QED
    BY <2>3, <2>4
<1>6. CASE UNCHANGED vars
  BY <1>6 DEF vars, Inside, LiveHolders, Holding, IsLock
<1>7. QED
  BY <1>1, <1>2, <1>3, <1>4, <1>5, <1>6, NextCases DEF Quiet

\* What a caller of withLock may rely on: under each lock name the callbacks
\* whose session is alive run one at a time.
THEOREM Refinement == Spec => KeepsPromise
<1>1. Init => Promise!Init
  <2> SUFFICES ASSUME Init PROVE Inside = {}
    BY DEF Promise!Init
  <2>1. \A c \in Callers : \A d \in Levels : ~LiveAt(c, d)
    BY LockAssumptions DEF Init, LiveAt, Holding, Levels
  <2>2. QED
    BY <2>1, InsideMember
<1>2. QED
  BY <1>1, Inductive, PromiseStep, PTL DEF Spec, KeepsPromise, Promise!Spec
=============================================================================
