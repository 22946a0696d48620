-------------------------- MODULE WafMetricsProofs --------------------------
(***************************************************************************)
(* The statistics of the access log, for any log, ranges and skew.         *)
(*                                                                         *)
(* A window is a queue in the order of arrival, from which only the front  *)
(* is evicted.  The argument is that it follows the log: its events are    *)
(* lines of the log in the order in which they were handed over, each      *)
(* once, and every line that is young enough is among them (Follows).      *)
(* Since stamps are out of order by at most Skew (Ordered), whatever is    *)
(* behind an event that is young enough is younger than the window and     *)
(* the skew, and whatever is before one that is too old is older than the  *)
(* window without the skew.                                                *)
(***************************************************************************)
EXTENDS WafMetrics, FiniteSetTheorems, SequenceTheorems, TLAPS

Window == [queue : Seq(Lines), counts : [Countries -> Nat]]

\* q holds lines of L whose numbers are in S, in their order, each at most once,
\* and all that are stamped since t.
Follows(q, L, S, t) ==
  \E f \in [DOMAIN q -> S] :
    /\ \A i, j \in DOMAIN q : i < j => f[i] < f[j]
    /\ \A i \in DOMAIN q : q[i] = L[f[i]]
    /\ \A m \in S : L[m].ts >= t => \E i \in DOMAIN q : f[i] = m

\* The lines of L are stamped by t, and none is older than an earlier one by
\* more than the skew.
Ordered(L, t) ==
  /\ \A i \in DOMAIN L : L[i].ts <= t
  /\ \A i, j \in DOMAIN L : i < j => L[i].ts - Skew <= L[j].ts

\* The lines that a counter was given.
Given(k) == {i \in Handed : Counted(k, log[i])}

Exact(w) == \A c \in Countries : w.counts[c] = Tally(w.queue, c)

Typed ==
  /\ now \in 0..MaxTime /\ phase \in {"reading", "gap", "tail", "down", "off"}
  /\ log \in Seq(Lines) /\ pos \in 0..Len(log) /\ missed \subseteq 1..pos
  /\ counters \in [Ranges -> [Stats -> Window]] /\ buf \in Seq(Lines)
  /\ faultsLeft \in 0..MaxFaults

IInv ==
  /\ Typed
  /\ Ordered(log, now)
  /\ \A r \in Ranges, k \in Stats :
       /\ Exact(counters[r][k])
       /\ Follows(counters[r][k].queue, log, Given(k), now - rangeToSeconds[r])
  /\ Follows(buf, log, Handed, now - MaxWindow)
----------------------------------------------------------------------------
(* Eviction *)

\* A finite set of numbers has a greatest one.
LEMMA FiniteMax ==
  ASSUME NEW S \in SUBSET Nat, IsFiniteSet(S), S # {}
  PROVE  \E x \in S : \A y \in S : x >= y
<1> DEFINE Greatest(X) == \E x \in X : \A y \in X : x >= y
           T == {X \in SUBSET S : X # {} /\ ~Greatest(X)}
<1>1. CASE T = {}
  BY <1>1
<1>2. CASE T # {}
  <2>1. PICK X \in T : \A Y \in T : ~(<<Y, X>> \in StrictSubsetOrdering(S))
    <3>1. IsWellFoundedOn(StrictSubsetOrdering(S), FiniteSubsetsOf(S))
      BY FS_StrictSubsetOrderingWellFounded
    <3>2. T \subseteq FiniteSubsetsOf(S)
      BY FS_FiniteSubsetsOfFinite
    <3> HIDE DEF T
    <3> QED BY <1>2, <3>1, <3>2, WFMin
  <2>2. PICK a \in X : TRUE
    OBVIOUS
  <2>3. X \ {a} \subseteq S /\ X \subseteq S /\ X \ {a} # X
    BY <2>2
  <2>4. X \ {a} \notin T
    BY <2>1, <2>3 DEF StrictSubsetOrdering
  <2>5. CASE X \ {a} = {}
    BY <2>2, <2>3, <2>5
  <2>6. CASE X \ {a} # {}
    <3>1. PICK m \in X \ {a} : \A y \in X \ {a} : m >= y
      BY <2>3, <2>4, <2>6
    <3>2. a \in Nat /\ m \in Nat /\ X \subseteq Nat
      BY <2>2, <2>3, <3>1
    <3>3. CASE a >= m
      BY <2>2, <3>1, <3>2, <3>3
    <3>4. CASE m >= a
      BY <2>2, <3>1, <3>2, <3>4
    <3> QED BY <3>2, <3>3, <3>4
  <2> QED BY <2>5, <2>6
<1> QED BY <1>1, <1>2

\* evictExpired stops at the first event that is young enough, or at the end.
LEMMA ExpiredIs ==
  ASSUME NEW q \in Seq(Lines), NEW cutoff \in Int
  PROVE  LET n == Expired(q, cutoff) IN
         /\ n \in 0..Len(q) /\ \A i \in 1..n : q[i].ts < cutoff
         /\ n < Len(q) => q[n + 1].ts >= cutoff
<1> DEFINE Old == {n \in 0..Len(q) : \A i \in 1..n : q[i].ts < cutoff}
<1>1. Old \in SUBSET Nat /\ 0 \in Old /\ IsFiniteSet(Old)
  <2>1. IsFiniteSet(0..Len(q)) /\ Old \subseteq 0..Len(q)
    BY FS_Interval
  <2>2. IsFiniteSet(Old)
    <3> HIDE DEF Old
    <3> QED BY <2>1, FS_Subset
  <2>3. 0 \in Old
    OBVIOUS
  <2>4. 0..Len(q) \subseteq Nat
    OBVIOUS
  <2> HIDE DEF Old
  <2> QED BY <2>1, <2>2, <2>3, <2>4
<1>2. PICK n \in Old : \A m \in Old : n >= m
  <2> HIDE DEF Old
  <2> QED BY <1>1, FiniteMax
<1>3. n < Len(q) => q[n + 1].ts >= cutoff
  <2> SUFFICES ASSUME n < Len(q), ~(q[n + 1].ts >= cutoff) PROVE FALSE
    OBVIOUS
  <2>1. n \in Nat /\ n + 1 \in 1..Len(q)
    BY <1>2
  <2>2. q[n + 1].ts \in Int
    <3>1. q[n + 1] \in Lines
      BY <2>1
    <3> QED BY <3>1 DEF Lines
  <2>3. \A i \in 1..n + 1 : i \in 1..n \/ i = n + 1
    BY <2>1
  <2>4. n + 1 \in Old
    BY <1>2, <2>1, <2>2, <2>3
  <2> QED BY <1>2, <2>1, <2>4
<1> QED BY <1>2, <1>3 DEF Expired

\* The rest of a queue.
LEMMA Rest ==
  ASSUME NEW q \in Seq(Lines), NEW n \in 0..Len(q)
  PROVE  LET rest == SubSeq(q, n + 1, Len(q)) IN
         /\ rest \in Seq(Lines) /\ Len(rest) = Len(q) - n /\ DOMAIN rest = 1..(Len(q) - n)
         /\ \A i \in 1..(Len(q) - n) : rest[i] = q[i + n]
<1> DEFINE rest == SubSeq(q, n + 1, Len(q))
<1>1. /\ rest \in Seq(Lines)
      /\ Len(rest) = IF n + 1 <= Len(q) THEN Len(q) - (n + 1) + 1 ELSE 0
      /\ \A i \in 1..(Len(q) - (n + 1) + 1) : rest[i] = q[n + 1 + i - 1]
  <2>1. \A i \in (n + 1)..Len(q) : q[i] \in Lines
    OBVIOUS
  <2> QED BY <2>1, SubSeqProperties
<1>2. Len(rest) = Len(q) - n /\ DOMAIN rest = 1..Len(rest)
  BY <1>1
<1>3. \A i \in 1..(Len(q) - n) : rest[i] = q[i + n]
  BY <1>1
<1> QED BY <1>1, <1>2, <1>3

LEMMA Front ==
  ASSUME NEW q \in Seq(Lines), NEW n \in 0..Len(q)
  PROVE  LET front == SubSeq(q, 1, n) IN
         /\ front \in Seq(Lines) /\ DOMAIN front = 1..n /\ \A i \in 1..n : front[i] = q[i]
<1> DEFINE front == SubSeq(q, 1, n)
<1>1. /\ front \in Seq(Lines)
      /\ Len(front) = IF 1 <= n THEN n - 1 + 1 ELSE 0
      /\ \A i \in 1..(n - 1 + 1) : front[i] = q[1 + i - 1]
  <2>1. \A i \in 1..n : q[i] \in Lines
    OBVIOUS
  <2> QED BY <2>1, SubSeqProperties
<1> QED BY <1>1

LEMMA TallyType ==
  ASSUME NEW q \in Seq(Lines), NEW c
  PROVE  IsFiniteSet({i \in DOMAIN q : q[i].country = c}) /\ Tally(q, c) \in Nat
<1>1. IsFiniteSet(DOMAIN q)
  BY FS_Interval
<1>2. IsFiniteSet({i \in DOMAIN q : q[i].country = c})
  BY <1>1, FS_Subset
<1> QED BY <1>2, FS_CardinalityType DEF Tally

\* What is taken off the counts is what was taken off the queue.
LEMMA TallySplits ==
  ASSUME NEW q \in Seq(Lines), NEW n \in 0..Len(q), NEW c
  PROVE  Tally(q, c) = Tally(SubSeq(q, 1, n), c) + Tally(SubSeq(q, n + 1, Len(q)), c)
<1> DEFINE front == SubSeq(q, 1, n)
           rest == SubSeq(q, n + 1, Len(q))
           A == {i \in DOMAIN front : front[i].country = c}
           B == {i \in DOMAIN rest : rest[i].country = c}
           C == {i \in (n + 1)..Len(q) : q[i].country = c}
<1>1. /\ front \in Seq(Lines) /\ DOMAIN front = 1..n /\ \A i \in 1..n : front[i] = q[i]
      /\ rest \in Seq(Lines) /\ DOMAIN rest = 1..(Len(q) - n)
      /\ \A i \in 1..(Len(q) - n) : rest[i] = q[i + n]
  BY Front, Rest
<1>2. IsFiniteSet(A) /\ IsFiniteSet(B) /\ Cardinality(A) \in Nat /\ Cardinality(B) \in Nat
  <2> HIDE DEF front, rest
  <2> QED BY <1>1, TallyType, FS_CardinalityType
<1>3. {i \in DOMAIN q : q[i].country = c} = A \cup C /\ A \cap C = {}
  BY <1>1
<1>4. Cardinality(C) = Cardinality(B) /\ IsFiniteSet(C)
  <2> DEFINE f == [i \in B |-> i + n]
  <2>1. f \in [B -> C]
    BY <1>1
  <2>2. \A i, j \in B : f[i] = f[j] => i = j
    BY <1>1
  <2>3. \A j \in C : j - n \in B /\ f[j - n] = j
    <3> TAKE j \in C
    <3>1. j - n \in 1..(Len(q) - n) /\ (j - n) + n = j
      OBVIOUS
    <3>2. j - n \in B
      BY <1>1, <3>1
    <3> QED BY <3>1, <3>2
  <2>4. f \in Bijection(B, C)
    <3>1. \A j \in C : \E i \in B : f[i] = j
      BY <2>3
    <3> HIDE DEF f, B, C
    <3>2. f \in Injection(B, C)
      BY <2>1, <2>2 DEF Injection, IsInjective
    <3>3. f \in Surjection(B, C)
      BY <2>1, <3>1 DEF Surjection
    <3> QED BY <3>2, <3>3 DEF Bijection
  <2>5. ExistsBijection(B, C)
    <3> HIDE DEF B, C
    <3> QED BY <2>4 DEF ExistsBijection
  <2> HIDE DEF B, C
  <2> QED BY <1>2, <2>5, FS_Bijection
<1>5. Cardinality(A \cup C) = Cardinality(A) + Cardinality(C)
  <2>1. Cardinality(A \cap C) = 0
    BY <1>3, FS_EmptySet
  <2> HIDE DEF A, B, C
  <2>2. Cardinality(A \cup C) = Cardinality(A) + Cardinality(C) - Cardinality(A \cap C)
    BY <1>2, <1>4, FS_Union
  <2> QED BY <1>2, <1>4, <2>1, <2>2
<1>6. Tally(q, c) = Cardinality(A \cup C) /\ Tally(front, c) = Cardinality(A) /\ Tally(rest, c) = Cardinality(B)
  BY <1>3 DEF Tally
<1> HIDE DEF A, B, C
<1> QED BY <1>4, <1>5, <1>6

\* An event more is counted once, under its country.
LEMMA TallyOfOneMore ==
  ASSUME NEW q \in Seq(Lines), NEW e \in Lines, NEW c
  PROVE  Tally(Append(q, e), c) = Tally(q, c) + (IF e.country = c THEN 1 ELSE 0)
<1> DEFINE A == {i \in DOMAIN q : q[i].country = c}
           B == {i \in DOMAIN Append(q, e) : Append(q, e)[i].country = c}
<1>1. /\ DOMAIN Append(q, e) = DOMAIN q \cup {Len(q) + 1} /\ Len(q) + 1 \notin DOMAIN q
      /\ \A i \in DOMAIN q : Append(q, e)[i] = q[i]
      /\ Append(q, e)[Len(q) + 1] = e
  OBVIOUS
<1>2. IsFiniteSet(A) /\ Cardinality(A) \in Nat
  <2>1. IsFiniteSet(A)
    BY TallyType
  <2> HIDE DEF A
  <2> QED BY <2>1, FS_CardinalityType
<1>3. Tally(Append(q, e), c) = Cardinality(B) /\ Tally(q, c) = Cardinality(A)
  BY DEF Tally
<1>4. CASE e.country = c
  <2>1. B = A \cup {Len(q) + 1} /\ Len(q) + 1 \notin A
    BY <1>1, <1>4
  <2> HIDE DEF A, B
  <2>2. Cardinality(B) = Cardinality(A) + 1
    BY <1>2, <2>1, FS_AddElement
  <2> QED BY <1>3, <1>4, <2>2
<1>5. CASE e.country # c
  <2>1. B = A
    BY <1>1, <1>5
  <2> HIDE DEF A, B
  <2> QED BY <1>2, <1>3, <1>5, <2>1
<1> QED BY <1>4, <1>5
----------------------------------------------------------------------------
(* A queue that follows the log *)

\* An event that is too old may leave from the front.
LEMMA FollowsEvicted ==
  ASSUME NEW L, NEW S \in SUBSET Nat, NEW q \in Seq(Lines), NEW t \in Int,
         NEW cutoff \in Int, cutoff <= t, Follows(q, L, S, t)
  PROVE  Follows(SubSeq(q, Expired(q, cutoff) + 1, Len(q)), L, S, t)
<1> DEFINE n == Expired(q, cutoff)
           rest == SubSeq(q, n + 1, Len(q))
<1>1. n \in 0..Len(q) /\ \A i \in 1..n : q[i].ts < cutoff
  BY ExpiredIs
<1> HIDE DEF n
<1>2. DOMAIN rest = 1..(Len(q) - n) /\ \A i \in 1..(Len(q) - n) : rest[i] = q[i + n]
  BY <1>1, Rest
<1>3. PICK f \in [DOMAIN q -> S] :
        /\ \A i, j \in DOMAIN q : i < j => f[i] < f[j]
        /\ \A i \in DOMAIN q : q[i] = L[f[i]]
        /\ \A m \in S : L[m].ts >= t => \E i \in DOMAIN q : f[i] = m
  BY DEF Follows
<1> HIDE DEF rest
<1> DEFINE g == [i \in DOMAIN rest |-> f[i + n]]
<1>4. \A i \in DOMAIN rest : i + n \in DOMAIN q /\ i \in Nat
  BY <1>1, <1>2
<1>5. g \in [DOMAIN rest -> S]
  BY <1>3, <1>4
<1>6. \A i, j \in DOMAIN rest : i < j => g[i] < g[j]
  <2> TAKE i, j \in DOMAIN rest
  <2> HAVE i < j
  <2>1. i + n < j + n
    BY <1>1, <1>4
  <2> QED BY <1>3, <1>4, <2>1
<1>7. \A i \in DOMAIN rest : rest[i] = L[g[i]]
  BY <1>2, <1>3, <1>4
<1>8. ASSUME NEW m \in S, L[m].ts >= t PROVE \E i \in DOMAIN rest : g[i] = m
  <2>1. PICK i \in DOMAIN q : f[i] = m
    BY <1>3, <1>8
  <2>2. q[i] = L[m] /\ q[i] \in Lines
    BY <1>3, <2>1
  <2>3. ~(q[i].ts < cutoff)
    BY <1>8, <2>2 DEF Lines
  <2>4. i > n
    BY <1>1, <2>1, <2>3
  <2>5. i - n \in DOMAIN rest /\ (i - n) + n = i
    BY <1>1, <1>2, <2>1, <2>4
  <2> QED BY <2>1, <2>5
<1> HIDE DEF g
<1>9. Follows(rest, L, S, t)
  BY <1>5, <1>6, <1>7, <1>8 DEF Follows
<1> QED BY <1>9 DEF rest, n

\* Time passes: fewer lines are young enough.
LEMMA FollowsLater ==
  ASSUME NEW L, NEW S, NEW q, NEW t \in Int, NEW u \in Int, t <= u, Follows(q, L, S, t),
         \A m \in S : L[m].ts \in Int
  PROVE  Follows(q, L, S, u)
<1>1. PICK f \in [DOMAIN q -> S] :
        /\ \A i, j \in DOMAIN q : i < j => f[i] < f[j]
        /\ \A i \in DOMAIN q : q[i] = L[f[i]]
        /\ \A m \in S : L[m].ts >= t => \E i \in DOMAIN q : f[i] = m
  BY DEF Follows
<1>2. \A m \in S : L[m].ts >= u => L[m].ts >= t
  OBVIOUS
<1> QED BY <1>1, <1>2 DEF Follows

\* The next line that is handed over comes after all others.
LEMMA FollowsOneMore ==
  ASSUME NEW L \in Seq(Lines), NEW S \in SUBSET Nat, NEW q \in Seq(Lines), NEW t \in Int,
         NEW m \in DOMAIN L, \A s \in S : s < m, Follows(q, L, S, t)
  PROVE  Follows(Append(q, L[m]), L, S \cup {m}, t)
<1>1. PICK f \in [DOMAIN q -> S] :
        /\ \A i, j \in DOMAIN q : i < j => f[i] < f[j]
        /\ \A i \in DOMAIN q : q[i] = L[f[i]]
        /\ \A s \in S : L[s].ts >= t => \E i \in DOMAIN q : f[i] = s
  BY DEF Follows
<1> DEFINE more == Append(q, L[m])
           last == Len(q) + 1
<1>2. /\ DOMAIN more = DOMAIN q \cup {last} /\ last \notin DOMAIN q
      /\ \A i \in DOMAIN q : more[i] = q[i] /\ i \in Nat /\ i < last
      /\ more[last] = L[m] /\ last \in Nat
  OBVIOUS
<1> HIDE DEF more, last
<1> DEFINE g == [i \in DOMAIN more |-> IF i = last THEN m ELSE f[i]]
<1>3. g[last] = m /\ \A i \in DOMAIN q : g[i] = f[i] /\ g[i] \in S
  BY <1>1, <1>2
<1>4. g \in [DOMAIN more -> S \cup {m}]
  BY <1>1, <1>2
<1> HIDE DEF g
<1>5. \A i, j \in DOMAIN more : i < j => g[i] < g[j]
  <2> SUFFICES ASSUME NEW i \in DOMAIN more, NEW j \in DOMAIN more, i < j PROVE g[i] < g[j]
    OBVIOUS
  <2>1. i \in DOMAIN q
    <3>1. i # last
      BY <1>2
    <3> QED BY <1>2, <3>1
  <2>2. CASE j = last
    BY <1>3, <2>1, <2>2
  <2>3. CASE j \in DOMAIN q
    BY <1>1, <1>3, <2>1, <2>3
  <2> QED BY <1>2, <2>2, <2>3
<1>6. \A i \in DOMAIN more : more[i] = L[g[i]]
  BY <1>1, <1>2, <1>3
<1>7. \A s \in S \cup {m} : L[s].ts >= t => \E i \in DOMAIN more : g[i] = s
  BY <1>1, <1>2, <1>3
<1>8. Follows(more, L, S \cup {m}, t)
  BY <1>4, <1>5, <1>6, <1>7 DEF Follows
<1> QED BY <1>8 DEF more

\* A line that is too old need not be there.
LEMMA FollowsSkipped ==
  ASSUME NEW L, NEW S, NEW q, NEW t \in Int, NEW m, L[m].ts \in Int, L[m].ts < t,
         Follows(q, L, S, t)
  PROVE  Follows(q, L, S \cup {m}, t)
<1>1. PICK f \in [DOMAIN q -> S] :
        /\ \A i, j \in DOMAIN q : i < j => f[i] < f[j]
        /\ \A i \in DOMAIN q : q[i] = L[f[i]]
        /\ \A s \in S : L[s].ts >= t => \E i \in DOMAIN q : f[i] = s
  BY DEF Follows
<1>2. f \in [DOMAIN q -> S \cup {m}]
  BY <1>1
<1>3. ~(L[m].ts >= t)
  OBVIOUS
<1>4. \A s \in S \cup {m} : L[s].ts >= t => \E i \in DOMAIN q : f[i] = s
  BY <1>1, <1>3
<1> QED BY <1>1, <1>2, <1>4 DEF Follows

\* The log grows at its end.
LEMMA FollowsLongerLog ==
  ASSUME NEW L \in Seq(Lines), NEW e \in Lines, NEW S \in SUBSET DOMAIN L, NEW q, NEW t,
         Follows(q, L, S, t)
  PROVE  Follows(q, Append(L, e), S, t)
<1>1. PICK f \in [DOMAIN q -> S] :
        /\ \A i, j \in DOMAIN q : i < j => f[i] < f[j]
        /\ \A i \in DOMAIN q : q[i] = L[f[i]]
        /\ \A s \in S : L[s].ts >= t => \E i \in DOMAIN q : f[i] = s
  BY DEF Follows
<1>2. \A s \in S : Append(L, e)[s] = L[s]
  OBVIOUS
<1>3. \A i \in DOMAIN q : q[i] = Append(L, e)[f[i]]
  BY <1>1, <1>2
<1>4. \A s \in S : Append(L, e)[s].ts >= t => \E i \in DOMAIN q : f[i] = s
  BY <1>1, <1>2
<1> QED BY <1>1, <1>3, <1>4 DEF Follows

\* A window that is empty follows a log of which nothing was handed over.
LEMMA FollowsNothing ==
  ASSUME NEW L, NEW t
  PROVE  Follows(<<>>, L, {}, t)
<1>1. DOMAIN <<>> = {}
  OBVIOUS
<1>2. [i \in {} |-> 0] \in [{} -> {}]
  OBVIOUS
<1> QED BY <1>1, <1>2 DEF Follows
----------------------------------------------------------------------------
(* A counter *)

\* evictExpired takes what it takes from the queue off the counts.
LEMMA EvictedWindow ==
  ASSUME NEW w \in Window, NEW cutoff \in Int, Exact(w)
  PROVE  LET v == evictExpired(w, cutoff) IN
         /\ v \in Window /\ Exact(v)
         /\ v.queue = SubSeq(w.queue, Expired(w.queue, cutoff) + 1, Len(w.queue))
<1> DEFINE v == evictExpired(w, cutoff)
           n == Expired(w.queue, cutoff)
           gone(c) == Tally(SubSeq(w.queue, 1, n), c)
           rest == SubSeq(w.queue, n + 1, Len(w.queue))
<1>1. w.queue \in Seq(Lines) /\ w.counts \in [Countries -> Nat]
  BY DEF Window
<1>2. n \in 0..Len(w.queue)
  BY <1>1, ExpiredIs
<1>3. SubSeq(w.queue, 1, n) \in Seq(Lines) /\ rest \in Seq(Lines)
  <2> HIDE DEF n
  <2> QED BY <1>1, <1>2, Front, Rest
<1>4. \A c : gone(c) \in Nat /\ Tally(rest, c) \in Nat /\ Tally(w.queue, c) = gone(c) + Tally(rest, c)
  <2> HIDE DEF n
  <2> QED BY <1>1, <1>2, <1>3, TallyType, TallySplits
<1>5. v.queue = rest /\ v.counts = [c \in Countries |-> IF w.counts[c] > gone(c) THEN w.counts[c] - gone(c) ELSE 0]
      /\ v = [queue |-> v.queue, counts |-> v.counts]
  BY DEF evictExpired
<1> HIDE DEF v, gone, rest, n
<1>6. \A c \in Countries : v.counts[c] = Tally(v.queue, c) /\ v.counts[c] \in Nat
  BY <1>4, <1>5 DEF Exact
<1>7. v.counts \in [Countries -> Nat]
  BY <1>5, <1>6
<1>8. v \in Window
  BY <1>3, <1>5, <1>7 DEF Window
<1> QED BY <1>5, <1>6, <1>8 DEF Exact, v, rest, n

\* add counts what it puts into the queue.
LEMMA AddedWindow ==
  ASSUME NEW w \in Window, NEW e \in Lines, e.country \in Countries, NEW window \in Int,
         Exact(w)
  PROVE  add(w, e, window) \in Window /\ Exact(add(w, e, window))
<1>1. CASE e.ts < now - window
  BY <1>1 DEF add
<1>2. CASE ~(e.ts < now - window)
  <2> DEFINE kept == evictExpired(w, e.ts - window)
             v == [queue |-> Append(kept.queue, e),
                   counts |-> [kept.counts EXCEPT ![e.country] = @ + 1]]
  <2>1. e.ts - window \in Int
    BY DEF Lines
  <2>2. kept \in Window /\ Exact(kept)
    BY <2>1, EvictedWindow
  <2> HIDE DEF kept
  <2>3. kept.queue \in Seq(Lines) /\ kept.counts \in [Countries -> Nat]
    BY <2>2 DEF Window
  <2>4. v \in Window
    <3>1. Append(kept.queue, e) \in Seq(Lines)
      BY <2>3
    <3>2. [kept.counts EXCEPT ![e.country] = @ + 1] \in [Countries -> Nat]
      BY <2>1, <2>3
    <3> QED BY <3>1, <3>2 DEF Window
  <2>5. ASSUME NEW c \in Countries PROVE v.counts[c] = Tally(v.queue, c)
    <3>1. Tally(v.queue, c) = Tally(kept.queue, c) + (IF e.country = c THEN 1 ELSE 0)
      BY <2>3, TallyOfOneMore
    <3>2. v.counts[c] = kept.counts[c] + (IF e.country = c THEN 1 ELSE 0)
      BY <2>1, <2>3
    <3> QED BY <2>2, <3>1, <3>2 DEF Exact
  <2>6. add(w, e, window) = v
    BY <1>2 DEF add, kept
  <2> HIDE DEF v
  <2> QED BY <2>4, <2>5, <2>6 DEF Exact
<1> QED BY <1>1, <1>2

\* A counter goes on following the log when the next line is added to it.
LEMMA AddedFollows ==
  ASSUME NEW L \in Seq(Lines), NEW S \in SUBSET Nat, NEW w \in Window, Exact(w),
         NEW window \in Int, now \in Int, NEW m \in DOMAIN L, \A s \in S : s < m,
         L[m].ts <= now, Follows(w.queue, L, S, now - window)
  PROVE  Follows(add(w, L[m], window).queue, L, S \cup {m}, now - window)
<1>1. L[m] \in Lines /\ L[m].ts \in Int /\ now - window \in Int
  <2>1. L[m] \in Lines
    OBVIOUS
  <2> QED BY <2>1 DEF Lines
<1>2. CASE L[m].ts < now - window
  BY <1>1, <1>2, FollowsSkipped DEF add
<1>3. CASE ~(L[m].ts < now - window)
  <2> DEFINE cutoff == L[m].ts - window
             kept == evictExpired(w, cutoff)
  <2>1. cutoff \in Int /\ cutoff <= now - window
    BY <1>1
  <2>2. w.queue \in Seq(Lines)
    BY DEF Window
  <2> HIDE DEF cutoff
  <2>3. kept \in Window /\ kept.queue = SubSeq(w.queue, Expired(w.queue, cutoff) + 1, Len(w.queue))
    BY <2>1, EvictedWindow
  <2>4. Follows(kept.queue, L, S, now - window)
    BY <1>1, <2>1, <2>2, <2>3, FollowsEvicted
  <2>5. kept.queue \in Seq(Lines)
    BY <2>3 DEF Window
  <2>6. add(w, L[m], window).queue = Append(kept.queue, L[m])
    BY <1>3 DEF add, cutoff
  <2> HIDE DEF kept
  <2> QED BY <1>1, <2>4, <2>5, <2>6, FollowsOneMore
<1> QED BY <1>2, <1>3

\* The buffer of the summaries likewise.
LEMMA EvictOldFollows ==
  ASSUME NEW L, NEW S \in SUBSET Nat, NEW q \in Seq(Lines), now \in Int,
         Follows(q, L, S, now - MaxWindow)
  PROVE  evictOld(q) \in Seq(Lines) /\ Follows(evictOld(q), L, S, now - MaxWindow)
<1>1. now - MaxWindow \in Int
  BY MetricsAssumptions
<1>2. Expired(q, now - MaxWindow) \in 0..Len(q)
  BY <1>1, ExpiredIs
<1>3. evictOld(q) \in Seq(Lines)
  BY <1>2, Rest DEF evictOld
<1>4. Follows(evictOld(q), L, S, now - MaxWindow)
  BY <1>1, FollowsEvicted DEF evictOld
<1> QED BY <1>3, <1>4

LEMMA BufferAddFollows ==
  ASSUME NEW L \in Seq(Lines), NEW S \in SUBSET Nat, NEW q \in Seq(Lines), now \in Int,
         NEW m \in DOMAIN L, \A s \in S : s < m, Follows(q, L, S, now - MaxWindow)
  PROVE  /\ bufferAdd(q, L[m]) \in Seq(Lines)
         /\ Follows(bufferAdd(q, L[m]), L, S \cup {m}, now - MaxWindow)
<1>1. L[m] \in Lines /\ L[m].ts \in Int /\ now - MaxWindow \in Int /\ MaxWindow \in Int
  <2>1. L[m] \in Lines
    OBVIOUS
  <2>2. MaxWindow \in Int
    BY MetricsAssumptions
  <2> QED BY <2>1, <2>2 DEF Lines
<1>2. evictOld(q) \in Seq(Lines) /\ Follows(evictOld(q), L, S, now - MaxWindow)
  BY EvictOldFollows
<1>3. CASE now - L[m].ts <= MaxWindow
  <2>1. bufferAdd(q, L[m]) = Append(evictOld(q), L[m])
    BY <1>3 DEF bufferAdd
  <2> QED BY <1>1, <1>2, <2>1, FollowsOneMore
<1>4. CASE ~(now - L[m].ts <= MaxWindow)
  <2>1. bufferAdd(q, L[m]) = evictOld(q)
    BY <1>4 DEF bufferAdd
  <2>2. L[m].ts < now - MaxWindow
    BY <1>1, <1>4
  <2> QED BY <1>1, <1>2, <2>1, <2>2, FollowsSkipped
<1> QED BY <1>3, <1>4
----------------------------------------------------------------------------
(* The invariant *)

LEMMA EmptyIsRight ==
  Empty \in Window /\ Exact(Empty) /\ Empty.queue = <<>>
<1>1. Empty \in Window
  <2>1. <<>> \in Seq(Lines)
    OBVIOUS
  <2> QED BY <2>1 DEF Empty, Window
<1>2. ASSUME NEW c \in Countries PROVE Tally(<<>>, c) = 0
  <2>1. {i \in DOMAIN <<>> : <<>>[i].country = c} = {}
    OBVIOUS
  <2>2. Tally(<<>>, c) = Cardinality({i \in DOMAIN <<>> : <<>>[i].country = c})
    BY DEF Tally
  <2> QED BY <2>1, <2>2, FS_EmptySet
<1>3. Exact(Empty)
  BY <1>2 DEF Exact, Empty
<1> QED BY <1>1, <1>3 DEF Empty

\* What follows from the types: the lines that were handed over are lines of the log.
LEMMA HandedType ==
  ASSUME Typed
  PROVE  /\ Handed \subseteq 1..pos /\ Handed \subseteq DOMAIN log /\ Handed \in SUBSET Nat
         /\ \A m \in Handed : m < pos + 1 /\ log[m].ts \in Int
         /\ \A k : Given(k) \subseteq Handed
<1>1. pos \in Nat /\ pos <= Len(log) /\ log \in Seq(Lines)
  BY DEF Typed
<1>2. Handed \subseteq 1..pos /\ \A k : Given(k) \subseteq Handed
  BY DEF Handed, Given
<1>3. \A m \in 1..pos : m \in DOMAIN log /\ m \in Nat /\ m < pos + 1 /\ log[m] \in Lines
  BY <1>1
<1> QED BY <1>2, <1>3 DEF Lines

LEMMA InitIInv == Init => IInv
<1> SUFFICES ASSUME Init PROVE IInv
  OBVIOUS
<1> USE DEF Init
<1>1. counters \in [Ranges -> [Stats -> Window]] /\ \A r \in Ranges, k \in Stats : counters[r][k] = Empty
  BY EmptyIsRight DEF initializeCounters
<1>2. Handed = {} /\ \A k : Given(k) = {}
  BY DEF Handed, Given
<1>3. Typed
  <2>1. <<>> \in Seq(Lines) /\ Len(<<>>) = 0
    OBVIOUS
  <2> QED BY <1>1, <2>1, MetricsAssumptions DEF Typed
<1>4. Ordered(log, now)
  BY DEF Ordered
<1>5. \A r \in Ranges, k \in Stats :
        Exact(counters[r][k]) /\ Follows(counters[r][k].queue, log, Given(k), now - rangeToSeconds[r])
  BY <1>1, <1>2, EmptyIsRight, FollowsNothing
<1>6. Follows(buf, log, Handed, now - MaxWindow)
  BY <1>2, FollowsNothing
<1> QED BY <1>3, <1>4, <1>5, <1>6 DEF IInv

\* A line that is younger than the others by less than the skew may come next.
LEMMA OrderedOneMore ==
  ASSUME NEW L \in Seq(Lines), NEW t \in Int, Ordered(L, t), NEW age \in 0..Skew,
         NEW e \in Lines, e.ts = t - age
  PROVE  Ordered(Append(L, e), t)
<1> DEFINE M == Append(L, e)
<1>1. /\ DOMAIN M = DOMAIN L \cup {Len(L) + 1} /\ M[Len(L) + 1] = e
      /\ \A i \in DOMAIN L : M[i] = L[i] /\ L[i].ts \in Int /\ i \in Nat /\ i < Len(L) + 1
  <2>1. \A i \in DOMAIN L : L[i] \in Lines /\ i \in Nat /\ i < Len(L) + 1
    OBVIOUS
  <2>2. \A i \in DOMAIN L : L[i].ts \in Int
    BY <2>1 DEF Lines
  <2>3. DOMAIN M = DOMAIN L \cup {Len(L) + 1} /\ M[Len(L) + 1] = e /\ \A i \in DOMAIN L : M[i] = L[i]
    OBVIOUS
  <2> QED BY <2>1, <2>2, <2>3
<1>2. Skew \in Nat /\ age \in Nat /\ age <= Skew
  BY MetricsAssumptions
<1> HIDE DEF M
<1>3. \A i \in DOMAIN M : M[i].ts <= t
  BY <1>1, <1>2 DEF Ordered
<1>4. ASSUME NEW i \in DOMAIN M, NEW j \in DOMAIN M, i < j PROVE M[i].ts - Skew <= M[j].ts
  <2>1. i \in DOMAIN L
    <3>1. i # Len(L) + 1
      BY <1>1, <1>4
    <3> QED BY <1>1, <3>1
  <2>2. CASE j \in DOMAIN L
    BY <1>1, <1>4, <2>1, <2>2 DEF Ordered
  <2>3. CASE j = Len(L) + 1
    <3>1. M[i].ts <= t /\ M[i].ts \in Int /\ M[j].ts = t - age
      BY <1>1, <1>3, <2>1, <2>3
    <3> QED BY <1>2, <3>1
  <2> QED BY <1>1, <2>2, <2>3
<1> QED BY <1>3, <1>4 DEF Ordered, M

\* nginx writes a line: it is handed over later.
LEMMA WriteLineStep == IInv /\ WriteLine => IInv'
<1> SUFFICES ASSUME IInv, WriteLine PROVE IInv'
  OBVIOUS
<1>1. Typed /\ now \in Int
  BY DEF IInv, Typed
<1>2. PICK age \in 0..Skew, visit \in Requests :
        log' = Append(log, [ts |-> now - age, country |-> visit.country, verdict |-> visit.verdict])
  BY DEF WriteLine
<1> DEFINE e == [ts |-> now - age, country |-> visit.country, verdict |-> visit.verdict]
<1>3. e \in Lines /\ e.ts = now - age
  BY <1>1, MetricsAssumptions DEF Lines
<1>4. log \in Seq(Lines) /\ log' = Append(log, e) /\ UNCHANGED <<now, phase, pos, counters, buf, missed, faultsLeft>>
  BY <1>1, <1>2 DEF WriteLine, Typed
<1> HIDE DEF e
<1>5. log' \in Seq(Lines) /\ Len(log') = Len(log) + 1 /\ \A m \in DOMAIN log : log'[m] = log[m]
  BY <1>3, <1>4
<1>6. Typed'
  BY <1>1, <1>4, <1>5 DEF Typed
<1>7. Ordered(log, now)'
  BY <1>1, <1>3, <1>4, OrderedOneMore DEF IInv
<1>8. Handed' = Handed /\ Handed \in SUBSET DOMAIN log
  BY <1>1, <1>4, HandedType DEF Handed
<1>9. \A k : Given(k)' = Given(k) /\ Given(k) \in SUBSET DOMAIN log
  BY <1>5, <1>8 DEF Given
<1>10. \A r \in Ranges, k \in Stats :
         Exact(counters[r][k])' /\ Follows(counters[r][k].queue, log, Given(k), now - rangeToSeconds[r])'
  <2> SUFFICES ASSUME NEW r \in Ranges, NEW k \in Stats
               PROVE  Exact(counters[r][k])' /\ Follows(counters[r][k].queue, log, Given(k), now - rangeToSeconds[r])'
    OBVIOUS
  <2>1. Exact(counters[r][k]) /\ Follows(counters[r][k].queue, log, Given(k), now - rangeToSeconds[r])
    BY DEF IInv
  <2>2. Follows(counters[r][k].queue, Append(log, e), Given(k), now - rangeToSeconds[r])
    BY <1>3, <1>4, <1>9, <2>1, FollowsLongerLog
  <2>3. Exact(counters[r][k])'
    BY <1>4, <2>1 DEF Exact
  <2> QED BY <1>4, <1>9, <2>2, <2>3
<1>11. Follows(buf, log, Handed, now - MaxWindow)'
  <2>1. Follows(buf, Append(log, e), Handed, now - MaxWindow)
    BY <1>3, <1>4, <1>8, FollowsLongerLog DEF IInv
  <2> QED BY <1>4, <1>8, <2>1
<1> QED BY <1>6, <1>7, <1>10, <1>11 DEF IInv

\* Time passes.
LEMMA ClockStep == IInv /\ Clock => IInv'
<1> SUFFICES ASSUME IInv, Clock PROVE IInv'
  OBVIOUS
<1>1. Typed /\ now \in Int /\ log \in Seq(Lines) /\ now' = now + 1 /\ now < MaxTime
      /\ UNCHANGED <<log, phase, pos, counters, buf, missed, faultsLeft>>
  BY DEF IInv, Typed, Clock
<1>2. Typed'
  BY <1>1, MetricsAssumptions DEF Typed
<1>3. Ordered(log, now)'
  <2>1. \A i \in DOMAIN log : log[i] \in Lines
    BY <1>1
  <2>2. \A i \in DOMAIN log : log[i].ts \in Int
    BY <2>1 DEF Lines
  <2>3. Ordered(log, now)
    BY DEF IInv
  <2> QED BY <1>1, <2>2, <2>3 DEF Ordered
<1>4. Handed' = Handed /\ \A k : Given(k)' = Given(k)
  BY <1>1 DEF Handed, Given
<1>5. \A m \in Handed : log[m].ts \in Int
  BY <1>1, HandedType
<1>6. \A k : \A m \in Given(k) : log[m].ts \in Int
  BY <1>5 DEF Given
<1>7. \A r \in Ranges, k \in Stats :
        Exact(counters[r][k])' /\ Follows(counters[r][k].queue, log, Given(k), now - rangeToSeconds[r])'
  <2> SUFFICES ASSUME NEW r \in Ranges, NEW k \in Stats
               PROVE  Exact(counters[r][k])' /\ Follows(counters[r][k].queue, log, Given(k), now - rangeToSeconds[r])'
    OBVIOUS
  <2>1. Exact(counters[r][k]) /\ Follows(counters[r][k].queue, log, Given(k), now - rangeToSeconds[r])
    BY DEF IInv
  <2>2. /\ now - rangeToSeconds[r] \in Int /\ now' - rangeToSeconds[r] \in Int
        /\ now - rangeToSeconds[r] <= now' - rangeToSeconds[r]
    BY <1>1, MetricsAssumptions
  <2>3. Follows(counters[r][k].queue, log, Given(k), now' - rangeToSeconds[r])
    BY <1>6, <2>1, <2>2, FollowsLater
  <2>4. Exact(counters[r][k])'
    BY <1>1, <2>1 DEF Exact
  <2> QED BY <1>1, <1>4, <2>3, <2>4
<1>8. Follows(buf, log, Handed, now - MaxWindow)'
  <2>1. /\ now - MaxWindow \in Int /\ now' - MaxWindow \in Int
        /\ now - MaxWindow <= now' - MaxWindow
    BY <1>1, MetricsAssumptions
  <2>2. Follows(buf, log, Handed, now' - MaxWindow)
    BY <1>5, <2>1, FollowsLater DEF IInv
  <2> QED BY <1>1, <1>4, <2>2
<1> QED BY <1>2, <1>3, <1>7, <1>8 DEF IInv

\* A line is handed over: to the buffer, and to the counters that count it.
LEMMA ReadLineStep == IInv /\ ReadLine => IInv'
<1> SUFFICES ASSUME IInv, ReadLine PROVE IInv'
  OBVIOUS
<1> DEFINE m == pos + 1
<1>1. Typed /\ now \in Int /\ log \in Seq(Lines) /\ pos \in Nat /\ pos < Len(log) /\ missed \subseteq 1..pos
  BY DEF IInv, Typed, ReadLine
<1>2. pos' = m /\ ingest(log[m]) /\ UNCHANGED <<now, log, phase, missed, faultsLeft>>
  BY DEF ReadLine
<1>3. m \in DOMAIN log /\ m \in Nat /\ log[m] \in Lines
  BY <1>1
<1>4. log[m].ts <= now
  BY <1>3 DEF IInv, Ordered
<1>5. Handed' = Handed \cup {m} /\ Handed \in SUBSET Nat /\ \A s \in Handed : s < m
  <2>1. 1..m = 1..pos \cup {m} /\ m \notin missed
    BY <1>1
  <2> QED BY <1>1, <1>2, <2>1, HandedType DEF Handed
<1> HIDE DEF m
<1>6. \A k : /\ Given(k)' = IF Counted(k, log[m]) THEN Given(k) \cup {m} ELSE Given(k)
             /\ Given(k) \in SUBSET Nat /\ \A s \in Given(k) : s < m
  BY <1>2, <1>5 DEF Given, Counted, isAttack
<1>7. /\ buf' = bufferAdd(buf, log[m])
      /\ counters' = [r \in Ranges |-> [k \in Stats |->
                        IF Counted(k, log[m]) THEN add(counters[r][k], log[m], rangeToSeconds[r])
                        ELSE counters[r][k]]]
  BY <1>2 DEF ingest
<1>8. ASSUME NEW r \in Ranges, NEW k \in Stats
      PROVE  /\ counters'[r][k] \in Window /\ Exact(counters[r][k])'
             /\ Follows(counters[r][k].queue, log, Given(k), now - rangeToSeconds[r])'
  <2>1. /\ counters[r][k] \in Window /\ Exact(counters[r][k])
        /\ Follows(counters[r][k].queue, log, Given(k), now - rangeToSeconds[r])
    BY DEF IInv, Typed
  <2>2. rangeToSeconds[r] \in Int
    BY MetricsAssumptions
  <2>3. CASE Counted(k, log[m])
    <3>1. counters'[r][k] = add(counters[r][k], log[m], rangeToSeconds[r])
      BY <1>7, <2>3
    <3>2. add(counters[r][k], log[m], rangeToSeconds[r]) \in Window /\ Exact(add(counters[r][k], log[m], rangeToSeconds[r]))
      <4>1. log[m].country \in Countries
        BY <2>3 DEF Counted
      <4> QED BY <1>3, <2>1, <2>2, <4>1, AddedWindow
    <3>3. Given(k)' = Given(k) \cup {m}
      BY <1>6, <2>3
    <3>4. Follows(add(counters[r][k], log[m], rangeToSeconds[r]).queue, log, Given(k) \cup {m}, now - rangeToSeconds[r])
      BY <1>1, <1>3, <1>4, <1>6, <2>1, <2>2, AddedFollows
    <3>5. Exact(counters[r][k])'
      BY <3>1, <3>2 DEF Exact
    <3> QED BY <1>2, <3>1, <3>2, <3>3, <3>4, <3>5
  <2>4. CASE ~Counted(k, log[m])
    <3>1. counters'[r][k] = counters[r][k] /\ Given(k)' = Given(k)
      BY <1>6, <1>7, <2>4
    <3>2. Exact(counters[r][k])'
      BY <2>1, <3>1 DEF Exact
    <3> QED BY <1>2, <2>1, <3>1, <3>2
  <2> QED BY <2>3, <2>4
<1>9. buf' \in Seq(Lines) /\ Follows(buf, log, Handed, now - MaxWindow)'
  <2>1. buf \in Seq(Lines) /\ Follows(buf, log, Handed, now - MaxWindow)
    BY DEF IInv, Typed
  <2>2. bufferAdd(buf, log[m]) \in Seq(Lines)
        /\ Follows(bufferAdd(buf, log[m]), log, Handed \cup {m}, now - MaxWindow)
    BY <1>1, <1>3, <1>5, <2>1, BufferAddFollows
  <2> QED BY <1>2, <1>5, <1>7, <2>2
<1>10. counters' \in [Ranges -> [Stats -> Window]]
  <2>1. \A r \in Ranges : counters'[r] \in [Stats -> Window]
    BY <1>7, <1>8
  <2> QED BY <1>7, <2>1
<1>11. Typed'
  <2>1. pos' \in 0..Len(log) /\ missed \subseteq 1..pos'
    BY <1>1, <1>2 DEF m
  <2> QED BY <1>1, <1>2, <1>9, <1>10, <2>1 DEF Typed
<1>12. Ordered(log, now)'
  BY <1>2 DEF IInv, Ordered
<1> QED BY <1>8, <1>9, <1>11, <1>12 DEF IInv

\* Steps that hand over nothing and leave the windows alone.
LEMMA SameWindows ==
  ASSUME IInv, UNCHANGED <<now, log, counters, buf>>, Handed' = Handed, Typed'
  PROVE  IInv'
<1>1. \A k : Given(k)' = Given(k)
  BY DEF Given, Counted, isAttack
<1> QED BY <1>1 DEF IInv, Ordered, Exact

\* tail starts behind what was written meanwhile: nothing is handed over.
LEMMA StartTailStep == IInv /\ startTail => IInv'
<1> SUFFICES ASSUME IInv, startTail PROVE IInv'
  OBVIOUS
<1>1. Typed /\ pos \in Nat /\ Len(log) \in Nat /\ pos <= Len(log) /\ missed \subseteq 1..pos
  BY DEF IInv, Typed
<1>2. /\ pos' = Len(log) /\ missed' = missed \cup (pos + 1)..Len(log) /\ phase' = "tail"
      /\ UNCHANGED <<now, log, counters, buf, faultsLeft>>
  BY DEF startTail
<1>3. Handed' = Handed
  BY <1>1, <1>2 DEF Handed
<1>4. Typed'
  <2>1. pos' \in 0..Len(log') /\ missed' \subseteq 1..pos'
    <3>1. Len(log') = Len(log) /\ pos' = Len(log) /\ Len(log) \in 0..Len(log)
      BY <1>1, <1>2
    <3>2. (pos + 1)..Len(log) \subseteq 1..Len(log) /\ 1..pos \subseteq 1..Len(log)
      BY <1>1
    <3>3. missed' \subseteq 1..Len(log)
      BY <1>1, <1>2, <3>2
    <3> QED BY <3>1, <3>3
  <2>2. phase' = "tail" /\ UNCHANGED <<now, log, counters, buf, faultsLeft>>
    BY <1>2
  <2> QED BY <1>1, <2>1, <2>2 DEF Typed
<1> QED BY <1>2, <1>3, <1>4, SameWindows

\* A restart forgets everything.
LEMMA RestartStep == IInv /\ Restart => IInv'
<1> SUFFICES ASSUME IInv, Restart PROVE IInv'
  OBVIOUS
<1>1. /\ phase' = "reading" /\ pos' = 0 /\ counters' = initializeCounters /\ buf' = <<>>
      /\ missed' = {} /\ UNCHANGED <<now, log>>
  BY DEF Restart
<1>2. counters' \in [Ranges -> [Stats -> Window]] /\ \A r \in Ranges, k \in Stats : counters'[r][k] = Empty
  BY <1>1, EmptyIsRight DEF initializeCounters
<1>3. Handed' = {} /\ \A k : Given(k)' = {}
  BY <1>1 DEF Handed, Given
<1>4. faultsLeft' \in 0..MaxFaults
  BY MetricsAssumptions DEF Restart, Fail, IInv, Typed
<1>5. Typed'
  <2>1. <<>> \in Seq(Lines)
    OBVIOUS
  <2> QED BY <1>1, <1>2, <1>4, <2>1 DEF IInv, Typed
<1>6. \A r \in Ranges, k \in Stats :
        Exact(counters[r][k])' /\ Follows(counters[r][k].queue, log, Given(k), now - rangeToSeconds[r])'
  <2> SUFFICES ASSUME NEW r \in Ranges, NEW k \in Stats
               PROVE  Exact(counters[r][k])' /\ Follows(counters[r][k].queue, log, Given(k), now - rangeToSeconds[r])'
    OBVIOUS
  <2>1. Exact(counters[r][k])'
    BY <1>2, EmptyIsRight DEF Exact
  <2>2. Follows(<<>>, log', {}, now' - rangeToSeconds[r])
    BY FollowsNothing
  <2> QED BY <1>2, <1>3, <2>1, <2>2, EmptyIsRight
<1>7. Follows(buf, log, Handed, now - MaxWindow)'
  <2>1. Follows(<<>>, log', {}, now' - MaxWindow)
    BY FollowsNothing
  <2> QED BY <1>1, <1>3, <2>1
<1> QED BY <1>1, <1>5, <1>6, <1>7 DEF IInv, Ordered

\* A request for statistics evicts only.
LEMMA QueryStep == IInv /\ Query => IInv'
<1> SUFFICES ASSUME IInv, Query PROVE IInv'
  OBVIOUS
<1>1. Typed /\ now \in Int
  BY DEF IInv, Typed
<1>2. /\ counters' = [r \in Ranges |-> [k \in Stats |->
                        evictExpired(counters[r][k], now - rangeToSeconds[r])]]
      /\ buf' = evictOld(buf) /\ UNCHANGED <<now, log, phase, pos, missed, faultsLeft>>
  BY DEF Query
<1>3. Handed' = Handed /\ Handed \in SUBSET Nat /\ \A k : Given(k)' = Given(k) /\ Given(k) \in SUBSET Nat
  BY <1>1, <1>2, HandedType DEF Handed, Given, Counted, isAttack
<1>4. ASSUME NEW r \in Ranges, NEW k \in Stats
      PROVE  /\ counters'[r][k] \in Window /\ Exact(counters[r][k])'
             /\ Follows(counters[r][k].queue, log, Given(k), now - rangeToSeconds[r])'
  <2> DEFINE w == counters[r][k]
             t == now - rangeToSeconds[r]
  <2>1. w \in Window /\ w.queue \in Seq(Lines) /\ Exact(w) /\ Follows(w.queue, log, Given(k), t)
    BY DEF IInv, Typed, Window
  <2>2. t \in Int
    BY <1>1, MetricsAssumptions
  <2>3. counters'[r][k] = evictExpired(w, t)
    BY <1>2
  <2>4. t' = t
    BY <1>2
  <2> HIDE DEF w, t
  <2>5. /\ evictExpired(w, t) \in Window /\ Exact(evictExpired(w, t))
        /\ evictExpired(w, t).queue = SubSeq(w.queue, Expired(w.queue, t) + 1, Len(w.queue))
    BY <2>1, <2>2, EvictedWindow
  <2>6. Follows(evictExpired(w, t).queue, log, Given(k), t)
    BY <1>3, <2>1, <2>2, <2>5, FollowsEvicted
  <2>7. Exact(counters[r][k])'
    BY <2>3, <2>5 DEF Exact
  <2>8. Follows(counters'[r][k].queue, log', Given(k)', t')
    BY <1>2, <1>3, <2>3, <2>4, <2>6
  <2> QED BY <2>3, <2>5, <2>7, <2>8 DEF t
<1>5. buf' \in Seq(Lines) /\ Follows(buf, log, Handed, now - MaxWindow)'
  <2>1. buf \in Seq(Lines) /\ Follows(buf, log, Handed, now - MaxWindow)
    BY DEF IInv, Typed
  <2>2. evictOld(buf) \in Seq(Lines) /\ Follows(evictOld(buf), log, Handed, now - MaxWindow)
    BY <1>1, <1>3, <2>1, EvictOldFollows
  <2> QED BY <1>2, <1>3, <2>2
<1>6. counters' \in [Ranges -> [Stats -> Window]]
  <2>1. \A r \in Ranges : counters'[r] \in [Stats -> Window]
    BY <1>2, <1>4
  <2> QED BY <1>2, <2>1
<1>7. Typed'
  BY <1>1, <1>2, <1>5, <1>6 DEF Typed
<1>8. Ordered(log, now)'
  BY <1>2 DEF IInv, Ordered
<1> QED BY <1>4, <1>5, <1>7, <1>8 DEF IInv

\* What the windows hold of the log is what the readings handed over.
THEOREM Inductive == Spec => []IInv
<1>1. ASSUME IInv, [Next]_vars PROVE IInv'
  <2>1. CASE WriteLine
    BY <1>1, <2>1, WriteLineStep
  <2>2. CASE Clock
    BY <1>1, <2>2, ClockStep
  <2>3. CASE ReadLine
    BY <1>1, <2>3, ReadLineStep
  <2>4. CASE EndOfFile \/ ReadFails \/ TailEnds
    <3>1. UNCHANGED <<now, log, pos, counters, buf, missed>>
          /\ phase' \in {"gap", "off", "down"} /\ faultsLeft' \in 0..MaxFaults
      BY <1>1, <2>4, MetricsAssumptions DEF EndOfFile, ReadFails, TailEnds, Fail, IInv, Typed
    <3>2. Handed' = Handed /\ Typed'
      BY <1>1, <3>1 DEF Handed, IInv, Typed
    <3> QED BY <1>1, <3>1, <3>2, SameWindows
  <2>5. CASE startTail
    BY <1>1, <2>5, StartTailStep
  <2>6. CASE Restart
    BY <1>1, <2>6, RestartStep
  <2>7. CASE Query
    BY <1>1, <2>7, QueryStep
  <2>8. CASE UNCHANGED vars
    <3>1. Handed' = Handed /\ Typed' /\ UNCHANGED <<now, log, counters, buf>>
      BY <1>1, <2>8 DEF vars, Handed, IInv, Typed
    <3> QED BY <1>1, <3>1, SameWindows
  <2> QED BY <1>1, <2>1, <2>2, <2>3, <2>4, <2>5, <2>6, <2>7, <2>8 DEF Next
<1> QED BY <1>1, InitIInv, PTL DEF Spec
----------------------------------------------------------------------------
(* What the statistics say *)

\* Different events of a window are different lines: B has no more than A.
LEMMA AtMost ==
  ASSUME NEW D, NEW S, NEW f \in [D -> S], \A i, j \in D : f[i] = f[j] => i = j,
         NEW A, IsFiniteSet(A), NEW B \in SUBSET D, \A i \in B : f[i] \in A
  PROVE  Cardinality(B) <= Cardinality(A)
<1> DEFINE g == [i \in B |-> f[i]]
<1>1. g \in [B -> A] /\ \A i, j \in B : g[i] = g[j] => i = j
  OBVIOUS
<1>2. g \in Injection(B, A)
  BY <1>1 DEF Injection, IsInjective
<1> QED BY <1>2, FS_Injection

\* Every line of A is an event of B: B has no fewer than A.
LEMMA AtLeast ==
  ASSUME NEW f, NEW A, NEW B, IsFiniteSet(B), \A m \in A : \E i \in B : f[i] = m
  PROVE  Cardinality(A) <= Cardinality(B)
<1> DEFINE g == [m \in A |-> CHOOSE i \in B : f[i] = m]
<1>1. \A m \in A : g[m] \in B /\ f[g[m]] = m
  OBVIOUS
<1>2. g \in [A -> B] /\ \A m, k \in A : g[m] = g[k] => m = k
  BY <1>1
<1>3. g \in Injection(A, B)
  BY <1>2 DEF Injection, IsInjective
<1> QED BY <1>3, FS_Injection

\* Later events of a queue are different lines.
LEMMA Distinct ==
  ASSUME NEW q \in Seq(Lines), NEW f, \A i, j \in DOMAIN q : i < j => f[i] < f[j],
         \A i \in DOMAIN q : f[i] \in Nat
  PROVE  \A i, j \in DOMAIN q : f[i] = f[j] => i = j
<1> SUFFICES ASSUME NEW i \in DOMAIN q, NEW j \in DOMAIN q, f[i] = f[j], i # j PROVE FALSE
  OBVIOUS
<1>1. i \in Nat /\ j \in Nat /\ f[i] \in Nat /\ f[j] \in Nat
  OBVIOUS
<1>2. i < j \/ j < i
  BY <1>1
<1> QED BY <1>1, <1>2

\* There are finitely many lines.
LEMMA SinceFinite ==
  ASSUME Typed
  PROVE  IsFiniteSet(Handed) /\ \A t : IsFiniteSet(Since(t))
<1>1. IsFiniteSet(1..pos) /\ Handed \subseteq 1..pos
  BY FS_Interval, HandedType DEF Typed
<1>2. IsFiniteSet(Handed)
  BY <1>1, FS_Subset
<1>3. \A t : Since(t) \subseteq Handed
  BY DEF Since
<1> QED BY <1>2, <1>3, FS_Subset

\* The statistics are of the types that they should have; a counter is exact
\* however its window slid, and the buffer holds no line twice.
THEOREM TypeCorrect == Spec => []TypeOK
<1>1. ASSUME IInv PROVE TypeOK
  <2>1. Typed
    BY <1>1 DEF IInv
  <2>2. \A i \in DOMAIN log : log[i] \in Lines /\ log[i].ts <= now
    BY <1>1, <2>1 DEF IInv, Typed, Ordered
  <2>3. ASSUME NEW r \in Ranges, NEW k \in Stats
        PROVE  counters[r][k].counts = [c \in Countries |-> Tally(counters[r][k].queue, c)]
    <3>1. counters[r][k] \in Window /\ Exact(counters[r][k])
      BY <1>1, <2>1 DEF IInv, Typed
    <3> QED BY <3>1 DEF Window, Exact
  <2>4. Len(buf) <= Cardinality(Handed)
    <3>1. buf \in Seq(Lines) /\ Follows(buf, log, Handed, now - MaxWindow)
      BY <1>1, <2>1 DEF IInv, Typed
    <3>2. PICK f \in [DOMAIN buf -> Handed] : \A i, j \in DOMAIN buf : i < j => f[i] < f[j]
      BY <3>1 DEF Follows
    <3>3. \A i, j \in DOMAIN buf : f[i] = f[j] => i = j
      BY <2>1, <3>1, <3>2, HandedType, Distinct
    <3>4. IsFiniteSet(Handed)
      BY <2>1, SinceFinite
    <3>5. Cardinality(DOMAIN buf) <= Cardinality(Handed)
      BY <3>2, <3>3, <3>4, AtMost
    <3>6. Cardinality(DOMAIN buf) = Len(buf)
      <4>1. DOMAIN buf = 1..Len(buf) /\ Len(buf) \in Nat
        BY <3>1
      <4>2. Cardinality(1..Len(buf)) = IF 1 > Len(buf) THEN 0 ELSE Len(buf) - 1 + 1
        BY <4>1, FS_Interval
      <4> QED BY <4>1, <4>2
    <3> QED BY <3>5, <3>6
  <2> QED BY <2>1, <2>2, <2>3, <2>4 DEF Typed, TypeOK
<1> QED BY <1>1, Inductive, PTL

\* The counter of a range counts every line of the range that it was given, and
\* none that is older by more than the skew.
LEMMA CountIsWithinSkew ==
  ASSUME IInv, NEW r \in Ranges, NEW k \in Stats, NEW c \in Countries,
         NEW t, t = now - rangeToSeconds[r]
  PROVE  LET n == getAll(r, k)[c]
             of(lines) == Cardinality({i \in lines : log[i].country = c /\ Counted(k, log[i])})
         IN  of(Since(t)) <= n /\ n <= of(Since(t - Skew))
<1> DEFINE w == counters[r][k]
           v == evictExpired(w, t)
           q == v.queue
           Of(lines) == {i \in lines : log[i].country = c /\ Counted(k, log[i])}
           B == {i \in DOMAIN q : q[i].country = c}
<1>1. Typed /\ Ordered(log, now) /\ t \in Int /\ Skew \in Nat
  BY MetricsAssumptions DEF IInv, Typed
<1>2. w \in Window /\ w.queue \in Seq(Lines) /\ Exact(w) /\ Follows(w.queue, log, Given(k), t)
  BY DEF IInv, Typed, Window
<1>3. v \in Window /\ Exact(v) /\ q = SubSeq(w.queue, Expired(w.queue, t) + 1, Len(w.queue))
  <2> HIDE DEF w
  <2> QED BY <1>1, <1>2, EvictedWindow
<1>4. Given(k) \in SUBSET Nat /\ Given(k) \subseteq Handed /\ \A m \in Given(k) : m \in DOMAIN log /\ log[m].ts \in Int
  BY <1>1, HandedType
<1>5. Follows(q, log, Given(k), t)
  <2> HIDE DEF w, v
  <2> QED BY <1>1, <1>2, <1>3, <1>4, FollowsEvicted
<1>6. q \in Seq(Lines) /\ (Len(q) > 0 => q[1].ts >= t)
  <2> DEFINE n == Expired(w.queue, t)
  <2>1. n \in 0..Len(w.queue) /\ (n < Len(w.queue) => w.queue[n + 1].ts >= t)
    <3> HIDE DEF w
    <3> QED BY <1>1, <1>2, ExpiredIs
  <2> HIDE DEF w, v, n
  <2>2. q \in Seq(Lines) /\ Len(q) = Len(w.queue) - n /\ \A i \in 1..(Len(w.queue) - n) : q[i] = w.queue[i + n]
    <3> DEFINE rest == SubSeq(w.queue, n + 1, Len(w.queue))
    <3>1. q = rest
      BY <1>3 DEF n
    <3>2. rest \in Seq(Lines) /\ Len(rest) = Len(w.queue) - n /\ \A i \in 1..(Len(w.queue) - n) : rest[i] = w.queue[i + n]
      BY <1>2, <2>1, Rest
    <3> HIDE DEF rest, q
    <3> QED BY <3>1, <3>2
  <2>3. ASSUME Len(q) > 0 PROVE q[1].ts >= t
    <3>1. n < Len(w.queue) /\ 1 \in 1..(Len(w.queue) - n) /\ 1 + n = n + 1
      BY <1>2, <2>1, <2>2, <2>3
    <3> QED BY <2>1, <2>2, <3>1
  <2> QED BY <2>2, <2>3
<1>7. getAll(r, k)[c] = Cardinality(B)
  BY <1>3 DEF getAll, Exact, Tally
<1>8. PICK f \in [DOMAIN q -> Given(k)] :
        /\ \A i, j \in DOMAIN q : i < j => f[i] < f[j]
        /\ \A i \in DOMAIN q : q[i] = log[f[i]]
        /\ \A m \in Given(k) : log[m].ts >= t => \E i \in DOMAIN q : f[i] = m
  BY <1>5 DEF Follows
<1> HIDE DEF v, w, q
<1>9. \A i, j \in DOMAIN q : f[i] = f[j] => i = j
  BY <1>4, <1>6, <1>8, Distinct
<1>10. ASSUME NEW i \in DOMAIN q PROVE log[f[i]].ts >= t - Skew
  <2>1. i \in Nat /\ 1 <= i /\ 1 \in DOMAIN q /\ Len(q) > 0 /\ i \in DOMAIN q
    BY <1>6, <1>10
  <2>2. log[f[1]].ts >= t /\ log[f[1]].ts \in Int /\ log[f[i]].ts \in Int
    BY <1>4, <1>6, <1>8, <2>1
  <2>3. CASE i = 1
    BY <1>1, <2>2, <2>3
  <2>4. CASE i # 1
    <3>1. f[1] < f[i] /\ f[1] \in DOMAIN log /\ f[i] \in DOMAIN log
      BY <1>4, <1>8, <2>1, <2>4
    <3>2. log[f[1]].ts - Skew <= log[f[i]].ts
      BY <1>1, <3>1 DEF Ordered
    <3> QED BY <1>1, <2>2, <3>2
  <2> QED BY <2>3, <2>4
<1>11. \A i \in B : f[i] \in Of(Since(t - Skew))
  BY <1>4, <1>8, <1>10 DEF Since, Given
<1>12. \A m \in Of(Since(t)) : \E i \in B : f[i] = m
  BY <1>8 DEF Since, Given
<1>13. IsFiniteSet(B)
  BY <1>6, TallyType
<1>14. IsFiniteSet(Of(Since(t - Skew)))
  <2>1. Of(Since(t - Skew)) \subseteq Since(t - Skew)
    OBVIOUS
  <2> HIDE DEF Of
  <2> QED BY <1>1, <2>1, SinceFinite, FS_Subset
<1>15. Cardinality(B) <= Cardinality(Of(Since(t - Skew)))
  <2>1. B \subseteq DOMAIN q
    OBVIOUS
  <2> HIDE DEF B, Of
  <2> QED BY <1>8, <1>9, <1>11, <1>14, <2>1, AtMost
<1>16. Cardinality(Of(Since(t))) <= Cardinality(B)
  <2> HIDE DEF B, Of
  <2> QED BY <1>12, <1>13, AtLeast
<1> QED BY <1>7, <1>15, <1>16

\* For any countries, ranges and skew, the counts of a range are those of a window
\* that begins between its start and the skew before it.
THEOREM TopCountsHold == Spec => []TopCountsWithinSkew
<1>1. ASSUME IInv PROVE TopCountsWithinSkew
  BY <1>1, CountIsWithinSkew DEF TopCountsWithinSkew
<1> QED BY <1>1, Inductive, PTL

\* The scan of the buffer from its back finds no line that is too old, and every
\* line that is young enough by the skew.
LEMMA SummaryIsWithinSkew ==
  ASSUME IInv, NEW r \in Ranges, NEW t, t = now - rangeToSeconds[r]
  PROVE  LET s == getSummary(rangeToSeconds[r])
             req(lines) == Cardinality(lines)
             block(lines) == Cardinality({i \in lines : log[i].verdict = "blocked"})
             all == Since(t)
             certain == Since(t + Skew)
         IN  /\ req(certain) <= s.req /\ s.req <= req(all)
             /\ block(certain) <= s.block /\ s.block <= block(all)
<1> DEFINE q == evictOld(buf)
           hits == Scanned(q, t)
           Blocked(lines) == {i \in lines : log[i].verdict = "blocked"}
           blocked == {i \in hits : q[i].verdict = "blocked"}
<1>1. /\ Typed /\ Ordered(log, now) /\ t \in Int /\ Skew \in Nat /\ now \in Int
      /\ now - MaxWindow \in Int /\ now - MaxWindow <= t
  BY MetricsAssumptions DEF IInv, Typed
<1>2. /\ Handed \in SUBSET Nat
      /\ \A m \in Handed : m \in DOMAIN log /\ log[m].ts \in Int
  BY <1>1, HandedType
<1>3. buf \in Seq(Lines) /\ Follows(buf, log, Handed, now - MaxWindow)
  BY DEF IInv, Typed
<1>4. q \in Seq(Lines) /\ Follows(q, log, Handed, now - MaxWindow)
  BY <1>1, <1>2, <1>3, EvictOldFollows
<1>5. getSummary(rangeToSeconds[r]) = [req |-> Cardinality(hits), block |-> Cardinality(blocked)]
  BY DEF getSummary
<1> HIDE DEF q
<1>6. Follows(q, log, Handed, t)
  BY <1>1, <1>2, <1>4, FollowsLater
<1>7. PICK f \in [DOMAIN q -> Handed] :
        /\ \A i, j \in DOMAIN q : i < j => f[i] < f[j]
        /\ \A i \in DOMAIN q : q[i] = log[f[i]]
        /\ \A m \in Handed : log[m].ts >= t => \E i \in DOMAIN q : f[i] = m
  BY <1>6 DEF Follows
<1>8. \A i, j \in DOMAIN q : f[i] = f[j] => i = j
  BY <1>2, <1>4, <1>7, Distinct
<1>9. hits \in SUBSET DOMAIN q /\ \A i \in hits : q[i].ts >= t
  BY <1>4 DEF Scanned
<1>10. \A i \in hits : f[i] \in Since(t)
  BY <1>7, <1>9 DEF Since
<1>11. ASSUME NEW m \in Since(t + Skew) PROVE \E i \in hits : f[i] = m
  <2>1. m \in Handed /\ log[m].ts >= t + Skew /\ log[m].ts >= t
    BY <1>1, <1>2 DEF Since
  <2>2. PICK i \in DOMAIN q : f[i] = m
    BY <1>7, <2>1
  <2>3. ASSUME NEW j \in i..Len(q) PROVE q[j].ts >= t
    <3>1. j \in DOMAIN q /\ i \in Nat /\ j \in Nat /\ i <= j
      BY <1>4, <2>2
    <3>2. CASE j = i
      BY <1>7, <2>1, <2>2, <3>2
    <3>3. CASE j # i
      <4>1. f[i] < f[j] /\ f[i] \in DOMAIN log /\ f[j] \in DOMAIN log
        <5>1. i < j /\ i \in DOMAIN q
          BY <2>2, <3>1, <3>3
        <5>2. f[i] \in Handed /\ f[j] \in Handed
          BY <1>7, <3>1, <5>1
        <5> QED BY <1>2, <1>7, <3>1, <5>1, <5>2
      <4>2. log[m].ts - Skew <= log[f[j]].ts
        BY <1>1, <2>2, <4>1 DEF Ordered
      <4>3. q[j] = log[f[j]] /\ log[f[j]].ts \in Int /\ log[m].ts \in Int
        BY <1>2, <1>7, <2>1, <3>1
      <4> QED BY <1>1, <2>1, <4>2, <4>3
    <3> QED BY <3>2, <3>3
  <2> QED BY <2>2, <2>3 DEF Scanned
<1> HIDE DEF hits
<1>12. blocked \in SUBSET DOMAIN q /\ \A i \in blocked : f[i] \in Blocked(Since(t))
  BY <1>7, <1>9, <1>10
<1>13. \A m \in Blocked(Since(t + Skew)) : \E i \in blocked : f[i] = m
  BY <1>7, <1>9, <1>11
<1>14. IsFiniteSet(Since(t)) /\ IsFiniteSet(Blocked(Since(t)))
  <2>1. IsFiniteSet(Since(t)) /\ Blocked(Since(t)) \subseteq Since(t)
    BY <1>1, SinceFinite
  <2> HIDE DEF Blocked
  <2> QED BY <2>1, FS_Subset
<1>15. IsFiniteSet(hits) /\ IsFiniteSet(blocked)
  <2>1. IsFiniteSet(DOMAIN q)
    BY <1>4, FS_Interval
  <2> HIDE DEF blocked
  <2> QED BY <1>9, <1>12, <2>1, FS_Subset
<1> HIDE DEF blocked, Blocked
<1>16. Cardinality(hits) <= Cardinality(Since(t))
  BY <1>7, <1>8, <1>9, <1>10, <1>14, AtMost
<1>17. Cardinality(blocked) <= Cardinality(Blocked(Since(t)))
  BY <1>7, <1>8, <1>12, <1>14, AtMost
<1>18. Cardinality(Since(t + Skew)) <= Cardinality(hits)
  BY <1>11, <1>15, AtLeast
<1>19. Cardinality(Blocked(Since(t + Skew))) <= Cardinality(blocked)
  BY <1>13, <1>15, AtLeast
<1> QED BY <1>5, <1>16, <1>17, <1>18, <1>19 DEF Blocked

\* For any ranges and skew, the summary of a range counts the lines of a window
\* that begins between its start and the skew after it.
THEOREM SummariesHold == Spec => []SummaryWithinSkew
<1>1. ASSUME IInv PROVE SummaryWithinSkew
  BY <1>1, SummaryIsWithinSkew DEF SummaryWithinSkew
<1> QED BY <1>1, Inductive, PTL
----------------------------------------------------------------------------
(* The series *)

\* The recursive function that sums h over a set of points.
SumOver(h, D) ==
  CHOOSE s : s = [B \in SUBSET D |->
    IF B = {} THEN 0 ELSE h[CHOOSE b \in B : TRUE] + s[B \ {CHOOSE b \in B : TRUE}]]

\* The members of H whose key is in B.
Keyed(H, key, B) == {x \in H : key[x] \in B}

\* What it computes is shown by naming a function that satisfies its equation,
\* and by the smallest set of points on which another one would differ.
LEMMA SumOfCounts ==
  ASSUME NEW D, IsFiniteSet(D), NEW H, IsFiniteSet(H), NEW key, NEW h,
         \A b \in D : h[b] = Cardinality(Keyed(H, key, {b}))
  PROVE  SumOver(h, D)[D] = Cardinality(Keyed(H, key, D))
<1> DEFINE f == SumOver(h, D)
           Of(B) == Keyed(H, key, B)
           At(b) == Keyed(H, key, {b})
           pick(B) == CHOOSE b \in B : TRUE
           g == [B \in SUBSET D |-> Cardinality(Of(B))]
<1>1. ASSUME NEW X \in SUBSET H PROVE IsFiniteSet(X) /\ Cardinality(X) \in Nat
  BY <1>1, FS_Subset, FS_CardinalityType
<1>2. g[{}] = 0
  <2>1. Of({}) = {}
    BY DEF Keyed
  <2> QED BY <2>1, FS_EmptySet
<1>3. ASSUME NEW B \in SUBSET D, B # {}
      PROVE  pick(B) \in B /\ g[B] = h[pick(B)] + g[B \ {pick(B)}]
  <2> DEFINE b == pick(B)
             C == B \ {b}
  <2>1. b \in B /\ b \in D /\ C \in SUBSET D
    BY <1>3
  <2>2. Of(B) = At(b) \cup Of(C) /\ At(b) \cap Of(C) = {}
    BY <2>1 DEF Keyed
  <2>3. At(b) \in SUBSET H /\ Of(C) \in SUBSET H
    BY DEF Keyed
  <2>4. h[b] = Cardinality(At(b)) /\ g[B] = Cardinality(Of(B)) /\ g[C] = Cardinality(Of(C))
    BY <2>1
  <2> HIDE DEF Of, At, g, b, C
  <2>5. Cardinality(At(b) \cap Of(C)) = 0
    BY <2>2, FS_EmptySet
  <2>6. Cardinality(At(b) \cup Of(C)) = Cardinality(At(b)) + Cardinality(Of(C)) - Cardinality(At(b) \cap Of(C))
    BY <1>1, <2>3, FS_Union
  <2>7. g[B] = h[b] + g[C]
    BY <1>1, <2>2, <2>3, <2>4, <2>5, <2>6
  <2> QED BY <2>1, <2>7 DEF b, C
<1> HIDE DEF pick
<1>4. g = [B \in SUBSET D |-> IF B = {} THEN 0 ELSE h[pick(B)] + g[B \ {pick(B)}]]
  <2>1. ASSUME NEW B \in SUBSET D PROVE g[B] = IF B = {} THEN 0 ELSE h[pick(B)] + g[B \ {pick(B)}]
    <3> HIDE DEF g
    <3> QED BY <1>2, <1>3
  <2>2. g = [B \in SUBSET D |-> g[B]]
    OBVIOUS
  <2> HIDE DEF g
  <2> QED BY <2>1, <2>2
<1>5. f = [B \in SUBSET D |-> IF B = {} THEN 0 ELSE h[pick(B)] + f[B \ {pick(B)}]]
  <2> HIDE DEF g
  <2>1. \E s : s = [B \in SUBSET D |->
          IF B = {} THEN 0 ELSE h[CHOOSE b \in B : TRUE] + s[B \ {CHOOSE b \in B : TRUE}]]
    BY <1>4 DEF pick
  <2>2. f = [B \in SUBSET D |->
          IF B = {} THEN 0 ELSE h[CHOOSE b \in B : TRUE] + f[B \ {CHOOSE b \in B : TRUE}]]
    BY <2>1 DEF SumOver
  <2> HIDE DEF f
  <2> QED BY <2>2 DEF pick
<1> HIDE DEF f
<1> DEFINE T == {B \in SUBSET D : f[B] # g[B]}
<1>6. CASE T = {}
  <2>1. f[D] = g[D] /\ g[D] = Cardinality(Of(D))
    BY <1>6
  <2> QED BY <2>1 DEF f
<1>7. CASE T # {}
  <2>1. PICK B \in T : \A C \in T : ~(<<C, B>> \in StrictSubsetOrdering(D))
    <3>1. IsWellFoundedOn(StrictSubsetOrdering(D), FiniteSubsetsOf(D))
      BY FS_StrictSubsetOrderingWellFounded
    <3>2. T \subseteq FiniteSubsetsOf(D)
      BY FS_FiniteSubsetsOfFinite
    <3> HIDE DEF T
    <3> QED BY <1>7, <3>1, <3>2, WFMin
  <2>2. B \in SUBSET D /\ f[B] # g[B]
    OBVIOUS
  <2> HIDE DEF g
  <2>3. B # {}
    BY <1>2, <1>5, <2>2
  <2>4. pick(B) \in B /\ B \ {pick(B)} \in SUBSET D /\ g[B] = h[pick(B)] + g[B \ {pick(B)}]
    BY <1>3, <2>2, <2>3
  <2>5. B \ {pick(B)} \notin T
    <3>1. <<B \ {pick(B)}, B>> \in StrictSubsetOrdering(D)
      BY <2>2, <2>4 DEF StrictSubsetOrdering
    <3> HIDE DEF T
    <3> QED BY <2>1, <3>1
  <2>6. f[B] = h[pick(B)] + f[B \ {pick(B)}]
    BY <1>5, <2>2, <2>3
  <2>7. f[B \ {pick(B)}] = g[B \ {pick(B)}]
    BY <2>4, <2>5
  <2> QED BY <2>2, <2>4, <2>6, <2>7
<1> QED BY <1>6, <1>7

\* Whole buckets and what is left of them.
LEMMA Division ==
  ASSUME NEW a \in Int, NEW b \in Nat \ {0}
  PROVE  a \div b \in Int /\ b * (a \div b) <= a /\ a < b * (a \div b) + b
OBVIOUS

LEMMA Quotient ==
  ASSUME NEW a \in Int, NEW b \in Nat \ {0}, NEW x \in Int, b * x <= a, a < b * x + b
  PROVE  a \div b = x
OBVIOUS

LEMMA Multiples ==
  ASSUME NEW b \in Nat \ {0}, NEW x \in Int, NEW y \in Int
  PROVE  /\ b * x \in Int /\ b * (x - y) = b * x - b * y
         /\ x < y => b * x + b <= b * y
OBVIOUS

\* The bucket i buckets ago.
LEMMA BucketsAgo ==
  ASSUME NEW n \in Int, NEW b \in Nat \ {0}, NEW i \in Int
  PROVE  (n - i * b) \div b = n \div b - i
<1> DEFINE q == n \div b
           a == n - i * b
<1>1. q \in Int /\ b * q <= n /\ n < b * q + b
  BY Division
<1> HIDE DEF q
<1>2. q - i \in Int /\ b * (q - i) = b * q - b * i /\ i * b = b * i /\ b * i \in Int /\ b * q \in Int
  BY <1>1, Multiples
<1>3. a \in Int /\ b * (q - i) <= a /\ a < b * (q - i) + b
  BY <1>1, <1>2
<1> HIDE DEF a
<1>4. a \div b = q - i
  BY <1>2, <1>3, Quotient
<1> QED BY <1>4 DEF a, q

\* An event of the window is in a bucket that is not after the one under way,
\* and before it by no more than the series is long.
LEMMA InOneBucket ==
  ASSUME NEW t \in Int, NEW n \in Int, NEW w \in Nat, NEW b \in Nat \ {0},
         t <= n, n - w <= t
  PROVE  t \div b <= n \div b /\ n \div b - t \div b <= (w + b - 1) \div b
<1> DEFINE q == n \div b
           p == t \div b
           size == (w + b - 1) \div b
<1>1. q \in Int /\ p \in Int /\ size \in Int
  BY Division
<1>2. /\ b * q <= n /\ n < b * q + b
      /\ b * p <= t /\ t < b * p + b
      /\ b * size <= w + b - 1 /\ w + b - 1 < b * size + b
  BY Division
<1> HIDE DEF q, p, size
<1>3. b * q \in Int /\ b * p \in Int /\ b * size \in Int
  BY <1>1, Multiples
<1>4. p <= q
  <2> SUFFICES ASSUME q < p PROVE FALSE
    BY <1>1
  <2>1. b * q + b <= b * p
    BY <1>1, Multiples
  <2> QED BY <1>2, <1>3, <2>1
<1>5. q - p <= size
  <2> SUFFICES ASSUME size < q - p PROVE FALSE
    BY <1>1
  <2>1. b * size + b <= b * (q - p) /\ b * (q - p) = b * q - b * p
    BY <1>1, Multiples
  <2> QED BY <1>2, <1>3, <2>1
<1> QED BY <1>4, <1>5 DEF q, p, size

\* The points of a series are disjoint, and with the bucket under way they
\* hold every event of the window.
LEMMA SeriesCovers ==
  ASSUME IInv, NEW r \in Ranges, NEW W, W = rangeToSeconds[r]
  PROVE  LET series == getSeries(W)
             q == evictOld(buf)
             hits == Scanned(q, now - W)
             open == {i \in hits : q[i].ts \div Bucket = now \div Bucket}
             points == {i \in hits : q[i].ts \div Bucket \in DOMAIN series}
         IN  /\ IsFiniteSet(DOMAIN series) /\ IsFiniteSet(hits)
             /\ \A b \in DOMAIN series : series[b] = Cardinality({i \in hits : q[i].ts \div Bucket = b})
             /\ hits = points \cup open /\ points \cap open = {}
<1> DEFINE q == evictOld(buf)
           hits == Scanned(q, now - W)
           size == (W + Bucket - 1) \div Bucket
           D == {(now - i * Bucket) \div Bucket : i \in 1..size}
<1>1. Typed /\ now \in Int /\ W \in Nat /\ Bucket \in Nat \ {0} /\ Ordered(log, now)
  BY MetricsAssumptions DEF IInv, Typed
<1>2. getSeries(W) = [b \in D |-> Cardinality({i \in hits : q[i].ts \div Bucket = b})]
  BY DEF getSeries
<1>3. q \in Seq(Lines) /\ Follows(q, log, Handed, now - MaxWindow)
  <2>1. buf \in Seq(Lines) /\ Handed \in SUBSET Nat /\ Follows(buf, log, Handed, now - MaxWindow)
    BY <1>1, HandedType DEF IInv, Typed
  <2> QED BY <1>1, <2>1, EvictOldFollows
<1> HIDE DEF q
<1>4. ASSUME NEW i \in hits PROVE q[i].ts \in Int /\ q[i].ts <= now /\ now - W <= q[i].ts
  <2>1. i \in DOMAIN q /\ q[i].ts >= now - W /\ q[i] \in Lines
    BY <1>3 DEF Scanned
  <2>2. q[i].ts <= now
    <3>1. \E m \in Handed : q[i] = log[m]
      BY <1>3, <2>1 DEF Follows
    <3> QED BY <1>1, <3>1, HandedType DEF Ordered
  <2> QED BY <1>1, <2>1, <2>2 DEF Lines
<1>5. size \in Int
  <2>1. W + Bucket - 1 \in Int
    BY <1>1
  <2> QED BY <1>1, <2>1, Division
<1>6. \A i \in 1..size : (now - i * Bucket) \div Bucket = now \div Bucket - i
  <2> HIDE DEF size
  <2> TAKE i \in 1..size
  <2>1. i \in Int
    BY <1>5
  <2> QED BY <1>1, <2>1, BucketsAgo
<1>7. ASSUME NEW i \in hits
      PROVE  q[i].ts \div Bucket = now \div Bucket \/ q[i].ts \div Bucket \in D
  <2>1. q[i].ts \div Bucket = now \div Bucket \/ \E j \in 1..size : q[i].ts \div Bucket = now \div Bucket - j
    <3> DEFINE t == q[i].ts
    <3>1. t \in Int /\ t <= now /\ now - W <= t
      BY <1>4
    <3> HIDE DEF t
    <3>2. t \div Bucket <= now \div Bucket /\ now \div Bucket - t \div Bucket <= size
      BY <1>1, <3>1, InOneBucket
    <3> DEFINE a == t \div Bucket
               n == now \div Bucket
    <3>3. a \in Int /\ n \in Int
      BY <1>1, <3>1, Division
    <3> HIDE DEF a, n, size
    <3>4. a = n \/ \E j \in 1..size : a = n - j
      <4>1. CASE a # n
        <5>1. n - a \in 1..size /\ a = n - (n - a)
          BY <1>5, <3>2, <3>3, <4>1 DEF a, n
        <5> QED BY <5>1
      <4> QED BY <4>1
    <3> QED BY <3>4 DEF a, n, t
  <2> QED BY <1>6, <2>1
<1>8. now \div Bucket \notin D
  <2>1. now \div Bucket \in Int
    BY <1>1, Division
  <2>2. \A i \in 1..size : now \div Bucket # now \div Bucket - i
    BY <1>5, <2>1
  <2> QED BY <1>6, <2>2
<1>9. IsFiniteSet(D)
  <2> DEFINE f == [i \in 1..size |-> (now - i * Bucket) \div Bucket]
  <2>1. f \in Surjection(1..size, D)
    BY DEF Surjection
  <2>2. IsFiniteSet(1..size)
    BY <1>5, FS_Interval
  <2> HIDE DEF f, D, size
  <2> QED BY <2>1, <2>2, FS_Surjection
<1>10. IsFiniteSet(hits)
  <2>1. IsFiniteSet(DOMAIN q) /\ hits \subseteq DOMAIN q
    BY <1>3, FS_Interval DEF Scanned
  <2> HIDE DEF hits
  <2> QED BY <2>1, FS_Subset
<1> HIDE DEF hits, D
<1> DEFINE series == getSeries(W)
<1>11. DOMAIN series = D /\ \A b \in D : series[b] = Cardinality({i \in hits : q[i].ts \div Bucket = b})
  BY <1>2
<1> HIDE DEF series
<1> QED BY <1>7, <1>8, <1>9, <1>10, <1>11 DEF q, hits, series

\* For any ranges and buckets, the points of the series and the bucket under way
\* add up to the summary.
THEOREM SeriesSumsUp == Spec => []SeriesAddsUp
<1>1. ASSUME IInv, NEW r \in Ranges
      PROVE  LET series == getSeries(rangeToSeconds[r])
                 q == evictOld(buf)
                 open == {i \in Scanned(q, now - rangeToSeconds[r]) : q[i].ts \div Bucket = now \div Bucket}
                 Sum[B \in SUBSET DOMAIN series] ==
                   IF B = {} THEN 0 ELSE LET b == CHOOSE b \in B : TRUE IN series[b] + Sum[B \ {b}]
             IN  Sum[DOMAIN series] + Cardinality(open) = getSummary(rangeToSeconds[r]).req
  <2> DEFINE W == rangeToSeconds[r]
             series == getSeries(W)
             q == evictOld(buf)
             hits == Scanned(q, now - W)
             open == {i \in hits : q[i].ts \div Bucket = now \div Bucket}
             points == {i \in hits : q[i].ts \div Bucket \in DOMAIN series}
             key == [i \in hits |-> q[i].ts \div Bucket]
             Sum[B \in SUBSET DOMAIN series] ==
               IF B = {} THEN 0 ELSE LET b == CHOOSE b \in B : TRUE IN series[b] + Sum[B \ {b}]
  <2>1. /\ IsFiniteSet(DOMAIN series) /\ IsFiniteSet(hits)
        /\ \A b \in DOMAIN series : series[b] = Cardinality({i \in hits : q[i].ts \div Bucket = b})
        /\ hits = points \cup open /\ points \cap open = {}
    BY <1>1, SeriesCovers
  <2>2. Sum = SumOver(series, DOMAIN series)
    <3> HIDE DEF series
    <3> QED BY DEF SumOver
  <2>3. getSummary(W).req = Cardinality(hits)
    BY DEF getSummary
  <2> HIDE DEF series, q, hits, Sum, W
  <2>4. \A b \in DOMAIN series : series[b] = Cardinality(Keyed(hits, key, {b}))
    <3> SUFFICES ASSUME NEW b \in DOMAIN series PROVE {i \in hits : q[i].ts \div Bucket = b} = Keyed(hits, key, {b})
      BY <2>1
    <3> QED BY DEF Keyed
  <2>5. points = Keyed(hits, key, DOMAIN series)
    BY DEF Keyed
  <2> HIDE DEF key, points, open
  <2>6. Sum[DOMAIN series] = Cardinality(points)
    <3> DEFINE D == DOMAIN series
    <3>1. IsFiniteSet(D) /\ IsFiniteSet(hits) /\ \A b \in D : series[b] = Cardinality(Keyed(hits, key, {b}))
      BY <2>1, <2>4
    <3> HIDE DEF D
    <3>2. SumOver(series, D)[D] = Cardinality(Keyed(hits, key, D))
      BY <3>1, SumOfCounts
    <3> QED BY <2>2, <2>5, <3>2 DEF D
  <2>7. IsFiniteSet(points) /\ IsFiniteSet(open) /\ Cardinality(points) \in Nat /\ Cardinality(open) \in Nat
    BY <2>1, FS_Subset, FS_CardinalityType
  <2>8. Cardinality(hits) = Cardinality(points) + Cardinality(open)
    <3>1. Cardinality(points \cap open) = 0
      BY <2>1, FS_EmptySet
    <3>2. Cardinality(points \cup open) = Cardinality(points) + Cardinality(open) - Cardinality(points \cap open)
      BY <2>7, FS_Union
    <3> QED BY <2>1, <2>7, <3>1, <3>2
  <2>9. Sum[DOMAIN series] + Cardinality(open) = getSummary(W).req
    BY <2>3, <2>6, <2>7, <2>8
  <2> QED BY <2>9 DEF series, q, hits, open, Sum, W
<1>2. ASSUME IInv PROVE SeriesAddsUp
  BY <1>1, <1>2 DEF SeriesAddsUp
<1> QED BY <1>2, Inductive, PTL
=============================================================================
