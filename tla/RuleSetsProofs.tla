--------------------------- MODULE RuleSetsProofs ---------------------------
(***************************************************************************)
(* The versioned rule sets for any number of requests, names, rules and    *)
(* failures, the loss of the locks' sessions among them.                   *)
(*                                                                         *)
(* The argument has two layers.  The lower one needs no lock: the unique   *)
(* index lets two open transactions of a name touch different numbers only *)
(* (Apart), so that what a transaction has written is still consistent     *)
(* with the table when it commits (Writes), and rows and audit rows move   *)
(* together.  The upper one holds while the lock of the name was not lost: *)
(* its holder is alone, so the number it has read is still the next, and   *)
(* the file is the newest version or its own (InOrder, TemplateFile).      *)
(***************************************************************************)
EXTENDS RuleSets, FiniteSetTheorems, SequenceTheorems, TLAPS

Labels == {"idle", "global", "check", "policy", "test", "reload", "done", "restore",
           "lock", "read"} \cup InTxn

\* The versions of a policy tell whether a publish succeeded, the others hold
\* rules that sanitizeRules accepted.
Contents(n) == IF n \in Servers THEN Statuses ELSE Rules \ Malformed
Versions(n) == [no : Nat \ {0}, rules : Contents(n)]
Factories == [no |-> FACTORY_VERSION_NO, rules |-> Factory]

Typed ==
  /\ up \in BOOLEAN /\ seeded \subseteq Shipped
  /\ pc \in [Actors -> Labels] /\ req \in [Actors -> Calls \cup {None}]
  /\ outcome \in [Actors -> Statuses]
  /\ DOMAIN new = Actors /\ DOMAIN pend = Actors /\ DOMAIN rows = Names
  /\ \A p \in Actors : /\ new[p] \in [no : Nat, rules : Rules \cup Statuses \cup {None}]
                       /\ pend[p] = [ins |-> pend[p].ins, del |-> pend[p].del]
  /\ lock \in [Names \cup {Global} -> Actors \cup {None}]
  /\ audit \in [Names -> Int]
  /\ file \in [Templates \cup Cores -> Rules \cup {None, Torn}]
  /\ uses \in [Servers -> SUBSET Templates] /\ wired \subseteq Servers
  /\ was \in [Actors -> (SUBSET Servers) \cup {None}]
  /\ DOMAIN past = Names /\ DOMAIN left = Names /\ DOMAIN running = Servers

\* What a process runs, where, and with which lock.
Control(p) ==
  /\ pc[p] = "idle" <=> req[p] = None
  /\ req[p] # None => (req[p].op = "seed" <=> p = Boot)
  /\ IF up THEN p = Boot => pc[p] = "idle" ELSE p # Boot => pc[p] = "idle"
  /\ pc[p] \in {"global", "check", "policy", "test", "reload", "done", "restore"} =>
       req[p].op = "publish"
  /\ pc[p] \in {"truncate", "write"} =>
       req[p].op = "seed" \/ (req[p].op \in {"create", "rollback"} /\ req[p].name \in Templates)
  /\ pc[p] = "unlink" => req[p].op = "delete"
  /\ pc[p] = "commit" =>
       /\ req[p].op \in {"create", "rollback", "publish", "delete"}
       /\ req[p].op = "delete" => req[p].name \in deleted
  /\ pc[p] \in {"read"} \cup InTxn => lock[req[p].name] = p \/ req[p].name \in lost

\* A transaction that has written.
Writing(p) == pc[p] \in {"truncate", "write", "unlink", "commit"} /\ req[p].op # "seed"

\* What p is about to save, or has written and not committed.
Writes(p) ==
  LET n == req[p].name IN
  /\ pc[p] \in InTxn =>
       /\ req[p].op # "delete" => new[p] \in Versions(n)
       /\ req[p].op = "seed" =>
            new[p] = Factories /\ (pc[p] = "insert" <=> rows[n] = {})
       /\ req[p].op # "seed" /\ n \in Cores => rows[n] # {}
  /\ Writing(p) =>
       IF req[p].op = "delete" THEN pend[p].ins = {} /\ pend[p].del \subseteq rows[n]
       ELSE pend[p].ins = {new[p]} /\ pend[p].del = {} /\ new[p].no \notin Numbers(n)
  /\ ~Writing(p) => pend[p] = NoWrites

Touched(p) == pend[p].ins \cup pend[p].del
Apart(p, q) ==
  Writing(p) /\ Writing(q) /\ req[p].name = req[q].name /\ p # q =>
    \A r \in Touched(p), r2 \in Touched(q) : r.no # r2.no

\* While the lock was not lost its holder knows the state of the name.
InOrder(p) ==
  pc[p] \in InTxn /\ req[p].name \notin lost =>
    /\ req[p].op \in {"create", "rollback", "publish"} =>
         new[p].no = Cardinality(rows[req[p].name]) + 1
    /\ Writing(p) /\ req[p].op = "delete" => pend[p].del = rows[req[p].name]

Table(n) ==
  /\ rows[n] \subseteq Versions(n) /\ IsFiniteSet(rows[n])
  /\ \A r1, r2 \in rows[n] : r1.no = r2.no => r1 = r2
  /\ n \notin lost => Numbers(n) = 1..Cardinality(rows[n])
  /\ Cardinality(rows[n]) = audit[n] + IF n \in Cores /\ rows[n] # {} THEN 1 ELSE 0
  /\ n \in Cores /\ rows[n] # {} => Factories \in rows[n]
  /\ \A r \in rows[n] : r.rules \in past[n]

TemplateFile(t) ==
  t \notin lost =>
    /\ \A p \in Actors : pc[p] = "commit" /\ req[p].name = t =>
         file[t] = IF req[p].op = "delete" THEN None ELSE new[p].rules
    /\ \/ t \in spoilt
       \/ \E p \in Actors : pc[p] \in {"write", "commit"} /\ req[p].name = t
       \/ file[t] = Newest(t)

CoreFile(c) ==
  rows[c] # {} =>
    \/ c \in spoilt \/ file[c] = Factory
    \/ pc[Boot] \in {"truncate", "write"} /\ req[Boot].name = c

Seeded == /\ \A c \in seeded : rows[c] # {}
          /\ up => seeded = Shipped

Recorded(t, rules) ==
  \/ rules \in past[t] \cup left[t]
  \/ \E p \in Procs : /\ pc[p] = "commit" /\ req[p].name = t /\ req[p].op # "delete"
                      /\ rules = new[p].rules
Contained ==
  /\ \A t \in Templates : file[t] \in {None, Torn} \/ Recorded(t, file[t])
  /\ \A s \in Servers : \A t \in DOMAIN running[s] : t \in Templates /\ Recorded(t, running[s][t])

Referenced ==
  /\ \A s \in Servers : \A t \in uses[s] \ deleted : rows[t] # {}
  /\ \A p \in Actors : pc[p] = "policy" =>
       \A t \in (req[p].uses \cap Templates) \ deleted : rows[t] # {}

IInv ==
  /\ Typed
  /\ \A p \in Actors : Control(p) /\ Writes(p) /\ InOrder(p) /\ \A q \in Actors : Apart(p, q)
  /\ \A n \in Names : Table(n)
  /\ \A t \in Templates : TemplateFile(t)
  /\ \A c \in Cores : CoreFile(c)
  /\ Seeded /\ Contained /\ Referenced
----------------------------------------------------------------------------
(* Operators *)

LEMMA CallKinds ==
  ASSUME NEW r \in Calls
  PROVE  /\ r # None /\ r.name \in Names /\ r.name # Global
         /\ r.op \in {"create", "rollback", "delete", "publish", "seed"}
         /\ r.op \in {"create", "rollback"} => r.name \in Templates \cup Cores
         /\ r.op = "create" => r.rules \in Rules
         /\ r.op = "delete" => r.name \in Templates
         /\ r.op = "publish" => r.name \in Servers /\ r.uses \subseteq Templates \cup Cores
         /\ r.op = "seed" => r.name \in Cores /\ r.name \in Shipped
BY RuleSetsAssumptions DEF Calls, Creates, Rollbacks, Deletes, Publishes, Seeds, Names

LEMMA ContentsOf ==
  /\ \A n \in Templates \cup Cores : Contents(n) = Rules \ Malformed
  /\ \A n \in Servers : Contents(n) = Statuses
  /\ \A n \in Names : Contents(n) \in {Rules \ Malformed, Statuses}
BY RuleSetsAssumptions DEF Contents, Names

\* A finite set of numbers has a greatest one.
LEMMA FiniteMax ==
  ASSUME NEW S \in SUBSET Nat, IsFiniteSet(S), S # {}
  PROVE  \E x \in S : \A y \in S : x >= y
<1> DEFINE Greatest(X) == \E x \in X : \A y \in X : x >= y
           T == {X \in SUBSET S : X # {} /\ ~Greatest(X)}
<1>1. CASE T = {}
  BY <1>1
<1>2. CASE T # {}
  <2>1. IsWellFoundedOn(StrictSubsetOrdering(S), FiniteSubsetsOf(S))
    BY FS_StrictSubsetOrderingWellFounded
  <2>2. T \subseteq FiniteSubsetsOf(S)
    BY FS_FiniteSubsetsOfFinite
  <2>3. PICK X \in T : \A Y \in T : ~(<<Y, X>> \in StrictSubsetOrdering(S))
    <3> HIDE DEF T
    <3> QED BY <1>2, <2>1, <2>2, WFMin
  <2>4. PICK a \in X : TRUE
    OBVIOUS
  <2> DEFINE Y == X \ {a}
  <2>5. Y \subseteq S /\ X \subseteq S /\ Y \subseteq X /\ Y # X
    BY <2>4
  <2>6. <<Y, X>> \in StrictSubsetOrdering(S)
    BY <2>5 DEF StrictSubsetOrdering
  <2>7. Y \notin T
    BY <2>3, <2>6
  <2>8. Greatest(X)
    <3>1. CASE Y = {}
      BY <2>4, <2>5, <3>1
    <3>2. CASE Y # {}
      <4>1. PICK m \in Y : \A y \in Y : m >= y
        BY <2>5, <2>7, <3>2
      <4>2. a \in Nat /\ m \in Nat /\ X \subseteq Nat
        BY <2>4, <2>5, <4>1
      <4>3. CASE a >= m
        BY <2>4, <2>5, <4>1, <4>2, <4>3
      <4>4. CASE m >= a
        BY <2>4, <2>5, <4>1, <4>2, <4>4
      <4> QED BY <4>2, <4>3, <4>4
    <3> QED BY <3>1, <3>2
  <2> QED BY <2>3, <2>8
<1> QED BY <1>1, <1>2

\* Rows with different numbers are as many as their numbers.
LEMMA NumbersOf ==
  ASSUME NEW R, IsFiniteSet(R)
  PROVE  LET N == {r.no : r \in R} IN
         /\ IsFiniteSet(N)
         /\ (\A r1, r2 \in R : r1.no = r2.no => r1 = r2) => Cardinality(N) = Cardinality(R)
<1> DEFINE N == {r.no : r \in R}
           f == [r \in R |-> r.no]
<1>1. f \in Surjection(R, N)
  BY DEF Surjection
<1>2. IsFiniteSet(N) /\ (Cardinality(N) = Cardinality(R) <=> f \in Injection(R, N))
  <2> HIDE DEF f, N
  <2> QED BY <1>1, FS_Surjection
<1>3. (\A r1, r2 \in R : r1.no = r2.no => r1 = r2) => f \in Injection(R, N)
  BY DEF Injection, IsInjective
<1> QED BY <1>2, <1>3

\* The next number is a number, and follows the last one when there are no gaps.
LEMMA NextVersion ==
  ASSUME NEW n, NEW V, rows[n] \subseteq [no : Nat \ {0}, rules : V], IsFiniteSet(rows[n])
  PROVE  /\ nextVersion(n) \in Nat \ {0}
         /\ Numbers(n) = 1..Cardinality(rows[n]) => nextVersion(n) = Cardinality(rows[n]) + 1
<1>1. IsFiniteSet(Numbers(n)) /\ Numbers(n) \subseteq Nat /\ Cardinality(rows[n]) \in Nat
  BY NumbersOf, FS_CardinalityType DEF Numbers
<1>2. CASE rows[n] = {}
  BY <1>2, FS_EmptySet DEF nextVersion, FACTORY_VERSION_NO
<1>3. CASE rows[n] # {}
  <2>1. Numbers(n) # {} /\ nextVersion(n) = Max(Numbers(n)) + 1
    BY <1>3 DEF nextVersion, Numbers
  <2>2. /\ Max(Numbers(n)) \in Numbers(n)
        /\ \A no \in Numbers(n) : Max(Numbers(n)) >= no
    <3>1. \E x \in Numbers(n) : \A y \in Numbers(n) : x >= y
      BY <1>1, <2>1, FiniteMax
    <3> QED BY <3>1 DEF Max
  <2>3. Max(Numbers(n)) \in Nat
    BY <1>1, <2>2
  <2>4. ASSUME Numbers(n) = 1..Cardinality(rows[n]) PROVE Max(Numbers(n)) = Cardinality(rows[n])
    <3>1. Cardinality(rows[n]) \in Numbers(n)
      BY <1>1, <2>1, <2>4
    <3> QED BY <1>1, <2>2, <2>3, <2>4, <3>1
  <2> QED BY <2>1, <2>3, <2>4
<1> QED BY <1>2, <1>3

\* The newest version, when there are no gaps.
LEMMA NewestOf ==
  ASSUME NEW R, IsFiniteSet(R), {x.no : x \in R} = 1..Cardinality(R),
         NEW r \in R, r.no = Cardinality(R), \A x \in R : x.no = r.no => x = r
  PROVE  (CHOOSE x \in R : x.no = Max({y.no : y \in R})) = r
<1> DEFINE k == Cardinality(R)
<1>1. k \in Nat
  BY FS_CardinalityType
<1>2. k \in 1..k
  OBVIOUS
<1>3. \A y \in 1..k : k >= y
  BY <1>1
<1>4. \A x \in 1..k : (\A y \in 1..k : x >= y) => x = k
  BY <1>1, <1>2
<1>5. Max(1..k) = k
  <2> HIDE DEF k
  <2> QED BY <1>2, <1>3, <1>4 DEF Max
<1> QED BY <1>5

----------------------------------------------------------------------------
(* The initial state *)

LEMMA InvInit == Init => IInv
<1> SUFFICES ASSUME Init PROVE IInv
  OBVIOUS
<1> USE RuleSetsAssumptions
<1>1. /\ up = FALSE /\ seeded = {} /\ pc = [p \in Actors |-> "idle"]
      /\ req = [p \in Actors |-> None] /\ outcome = [p \in Actors |-> "SUCCESS"]
      /\ new = [p \in Actors |-> NoRow] /\ pend = [p \in Actors |-> NoWrites]
      /\ lock = [k \in Names \cup {Global} |-> None]
      /\ rows = [n \in Names |-> {}] /\ audit = [n \in Names |-> 0]
  BY DEF Init
<1>2. /\ file = [n \in Templates \cup Cores |-> None] /\ uses = [s \in Servers |-> {}]
      /\ wired = {} /\ was = [p \in Actors |-> None]
      /\ running = [s \in Servers |-> <<>>]
      /\ past = [n \in Names |-> {}] /\ left = [n \in Names |-> {}]
      /\ spoilt = {} /\ lost = {} /\ deleted = {}
  BY DEF Init, Loaded
<1>3. Typed
  <2>1. /\ pc \in [Actors -> Labels] /\ req \in [Actors -> Calls \cup {None}]
        /\ outcome \in [Actors -> Statuses]
        /\ lock \in [Names \cup {Global} -> Actors \cup {None}]
    BY <1>1 DEF Labels, Statuses
  <2>2. \A p \in Actors : /\ new[p] \in [no : Nat, rules : Rules \cup Statuses \cup {None}]
                          /\ pend[p] = [ins |-> pend[p].ins, del |-> pend[p].del]
    BY <1>1 DEF NoRow, NoWrites
  <2>3. /\ audit \in [Names -> Int] /\ file \in [Templates \cup Cores -> Rules \cup {None, Torn}]
        /\ uses \in [Servers -> SUBSET Templates] /\ was \in [Actors -> (SUBSET Servers) \cup {None}]
    BY <1>1, <1>2
  <2> QED BY <1>1, <1>2, <2>1, <2>2, <2>3 DEF Typed
<1>4. \A p \in Actors : Control(p) /\ Writes(p) /\ InOrder(p) /\ \A q \in Actors : Apart(p, q)
  BY <1>1 DEF Control, Writes, InOrder, Apart, Writing, InTxn
<1>5. ASSUME NEW n \in Names PROVE Table(n)
  <2>1. rows[n] = {} /\ audit[n] = 0 /\ IsFiniteSet(rows[n]) /\ Cardinality(rows[n]) = 0
    BY <1>1, FS_EmptySet
  <2>2. Numbers(n) = 1..Cardinality(rows[n])
    BY <2>1 DEF Numbers
  <2> QED BY <2>1, <2>2 DEF Table
<1>6. \A t \in Templates : TemplateFile(t)
  BY <1>1, <1>2 DEF TemplateFile, Newest, Names
<1>7. \A c \in Cores : CoreFile(c)
  BY <1>1 DEF CoreFile, Names
<1>8. Seeded /\ Contained /\ Referenced
  BY <1>1, <1>2 DEF Seeded, Contained, Referenced
<1> QED BY <1>3, <1>4, <1>5, <1>6, <1>7, <1>8 DEF IInv

----------------------------------------------------------------------------
(* What a step of one process must show *)

\* A step of another process leaves q as it is.
Same(q) ==
  /\ pc'[q] = pc[q] /\ req'[q] = req[q] /\ new'[q] = new[q] /\ pend'[q] = pend[q]
  /\ \A k \in Names \cup {Global} : lock[k] = q => lock'[k] = q

LEMMA SameRows ==
  ASSUME NEW n, rows'[n] = rows[n]
  PROVE  Numbers(n)' = Numbers(n) /\ Newest(n)' = Newest(n)
BY DEF Numbers, Newest, Row

\* The invariants of one process.
Mine(p) == Control(p) /\ Writes(p) /\ InOrder(p)

LEMMA SameMine ==
  ASSUME Typed, NEW q \in Actors, Same(q), Mine(q), up' = up, lost' = lost,
         deleted \subseteq deleted', pc[q] \in InTxn => rows'[req[q].name] = rows[req[q].name]
  PROVE  Mine(q)'
<1>1. req[q] \in Calls \cup {None}
  BY DEF Typed
<1>2. pc[q] # "idle" => req[q].name \in Names
  BY <1>1, CallKinds DEF Mine, Control
<1>3. Control(q)'
  BY <1>2 DEF Mine, Control, Same, InTxn
<1>4. pc[q] \in InTxn => Numbers(req[q].name)' = Numbers(req[q].name)
  BY DEF Same, Numbers
<1>5. Writing(q)' <=> Writing(q)
  BY DEF Writing, Same
<1>6. Writing(q) => pc[q] \in InTxn
  BY DEF Writing, InTxn
<1>7. Writes(q)'
  BY <1>4, <1>5, <1>6 DEF Mine, Writes, Same, Numbers, Versions, Contents
<1>8. InOrder(q)'
  BY <1>4, <1>5, <1>6 DEF Mine, InOrder, Same
<1> QED BY <1>3, <1>7, <1>8 DEF Mine

LEMMA SameApart ==
  ASSUME IInv, NEW p \in Actors, \A q \in Actors \ {p} : Same(q),
         Writing(p)' => Writing(p) /\ pend'[p] = pend[p] /\ req'[p] = req[p]
  PROVE  \A a, b \in Actors : Apart(a, b)'
<1>1. \A a \in Actors : Writing(a)' => Writing(a) /\ pend'[a] = pend[a] /\ req'[a] = req[a]
  BY DEF Same, Writing
<1> QED BY <1>1 DEF IInv, Apart, Touched

\* The step changes no version.
LEMMA Frame ==
  ASSUME IInv, NEW p \in Actors, Typed', \A q \in Actors \ {p} : Same(q),
         UNCHANGED <<up, rows, audit, past, lost>>, deleted \subseteq deleted',
         Mine(p)', \A a, b \in Actors : Apart(a, b)',
         \A t \in Templates : TemplateFile(t)', \A c \in Cores : CoreFile(c)',
         Seeded', Contained', Referenced'
  PROVE  IInv'
<1>1. ASSUME NEW q \in Actors PROVE Mine(q)'
  BY SameMine DEF IInv, Mine
<1>2. ASSUME NEW n \in Names PROVE Table(n)'
  BY SameRows DEF IInv, Table, Versions, Contents
<1> QED BY <1>1, <1>2 DEF IInv, Mine

\* A process at the file of a template.
Filing(p) == pc[p] \in {"write", "commit"} /\ req[p].name \in Templates

\* A step that has nothing to do with the files.
LEMMA SameFiles ==
  ASSUME IInv, NEW p \in Actors, \A q \in Actors \ {p} : Same(q),
         UNCHANGED <<rows, past, left, file, spoilt, lost, running>>,
         ~Filing(p), ~Filing(p)', pc[p] \in {"truncate", "write"} => p # Boot
  PROVE  /\ \A t \in Templates : TemplateFile(t)'
         /\ \A c \in Cores : CoreFile(c)'
         /\ Contained'
<1>1. ASSUME NEW t \in Templates PROVE TemplateFile(t)'
  <2>1. Newest(t)' = Newest(t) /\ TemplateFile(t)
    BY SameRows DEF IInv
  <2>2. \A q \in Actors : /\ pc'[q] \in {"write", "commit"} /\ req'[q].name = t
                             <=> pc[q] \in {"write", "commit"} /\ req[q].name = t
                          /\ pc'[q] = "commit" /\ req'[q].name = t =>
                               pc[q] = "commit" /\ req'[q] = req[q] /\ new'[q] = new[q]
    BY DEF Same, Filing
  <2> QED BY <2>1, <2>2 DEF TemplateFile
<1>2. ASSUME NEW c \in Cores PROVE CoreFile(c)'
  BY RuleSetsAssumptions DEF IInv, CoreFile, Same, Actors
<1>3. ASSUME NEW t \in Templates, NEW rules, Recorded(t, rules) PROVE Recorded(t, rules)'
  BY <1>3 DEF Recorded, Same, Filing, Actors
<1>4. Contained'
  BY <1>3 DEF IInv, Contained
<1> QED BY <1>1, <1>2, <1>4

LEMMA SameReferences ==
  ASSUME IInv, NEW p \in Actors, \A q \in Actors \ {p} : Same(q), UNCHANGED <<rows, uses>>,
         deleted \subseteq deleted', pc'[p] # "policy"
  PROVE  Referenced'
BY DEF IInv, Referenced, Same

LEMMA SameSeeded ==
  ASSUME IInv, UNCHANGED <<up, rows, seeded>>
  PROVE  Seeded'
BY DEF IInv, Seeded

LEMMA FreedEffect ==
  ASSUME Typed, NEW p \in Actors, NEW k \in Names \cup {Global}, lock' = Freed(p, k)
  PROVE  /\ lock' \in [Names \cup {Global} -> Actors \cup {None}]
         /\ \A q \in Actors \ {p}, j \in Names \cup {Global} : lock[j] = q => lock'[j] = q
BY DEF Typed, Freed

\* A process leaves its transaction and the lock of the name.
LEMMA LeaveEffect ==
  ASSUME IInv, NEW p \in Actors, req[p] \in Calls, NEW status, Leave(p, status)
  PROVE  /\ pc'[p] \in {"idle", "done", "lock", "restore"} /\ pend'[p] = NoWrites
         /\ req[p].op = "publish" => req'[p] = req[p] /\ pc'[p] # "idle"
         /\ req[p].op # "publish" => req'[p] = None /\ pc'[p] = "idle"
         /\ pc' \in [Actors -> Labels] /\ req' \in [Actors -> Calls \cup {None}]
         /\ outcome' \in [Actors -> Statuses] /\ DOMAIN new' = Actors /\ DOMAIN pend' = Actors
         /\ \A q \in Actors :
              /\ new'[q] \in [no : Nat, rules : Rules \cup Statuses \cup {None}]
              /\ pend'[q] = [ins |-> pend'[q].ins, del |-> pend'[q].del]
         /\ lock' \in [Names \cup {Global} -> Actors \cup {None}]
         /\ \A q \in Actors \ {p} : Same(q)
         /\ seeded' \subseteq Shipped
<1>1. Typed /\ req[p].name \in Names /\ (req[p].op = "seed" => req[p].name \in Shipped)
  BY CallKinds DEF IInv
<1>2. /\ lock' = Freed(p, req[p].name) /\ new' = [new EXCEPT ![p] = NoRow]
      /\ pend' = [pend EXCEPT ![p] = NoWrites]
  BY DEF Leave
<1>3. /\ lock' \in [Names \cup {Global} -> Actors \cup {None}]
      /\ \A q \in Actors \ {p}, k \in Names \cup {Global} : lock[k] = q => lock'[k] = q
  BY <1>1, <1>2, FreedEffect
<1>4. /\ DOMAIN new' = Actors /\ DOMAIN pend' = Actors /\ pend'[p] = NoWrites
      /\ \A q \in Actors :
           /\ new'[q] \in [no : Nat, rules : Rules \cup Statuses \cup {None}]
           /\ pend'[q] = [ins |-> pend'[q].ins, del |-> pend'[q].del]
      /\ \A q \in Actors \ {p} : new'[q] = new[q] /\ pend'[q] = pend[q]
  BY <1>1, <1>2 DEF Typed, NoRow, NoWrites
<1>5. CASE req[p].op = "publish"
  <2>1. UNCHANGED <<req, seeded>>
    BY <1>5 DEF Leave
  <2>2. PICK label \in {"done", "lock", "restore"} : Goto(p, label)
    BY <1>5 DEF Leave
  <2>3. /\ pc'[p] = label /\ pc' \in [Actors -> Labels]
        /\ \A q \in Actors \ {p} : pc'[q] = pc[q]
    BY <1>1, <2>2 DEF Goto, Typed, Labels
  <2>4. outcome' \in [Actors -> Statuses]
    BY <1>1, <1>5 DEF Leave, Typed, Statuses
  <2>5. \A q \in Actors \ {p} : Same(q)
    BY <1>3, <1>4, <2>1, <2>3 DEF Same
  <2> QED BY <1>1, <1>3, <1>4, <1>5, <2>1, <2>3, <2>4, <2>5 DEF Typed
<1>6. CASE req[p].op # "publish"
  <2>1. /\ Goto(p, "idle") /\ req' = [req EXCEPT ![p] = None] /\ UNCHANGED outcome
        /\ seeded' \in {seeded, seeded \cup {req[p].name}, {}}
        /\ req[p].op # "seed" => seeded' = seeded
    BY <1>6 DEF Leave
  <2>2. seeded' \subseteq Shipped
    BY <1>1, <2>1 DEF Typed
  <2>3. /\ pc'[p] = "idle" /\ req'[p] = None
        /\ pc' \in [Actors -> Labels] /\ req' \in [Actors -> Calls \cup {None}]
        /\ \A q \in Actors \ {p} : pc'[q] = pc[q] /\ req'[q] = req[q]
    BY <1>1, <2>1 DEF Goto, Typed, Labels
  <2>4. \A q \in Actors \ {p} : Same(q)
    BY <1>3, <1>4, <2>3 DEF Same
  <2> QED BY <1>1, <1>3, <1>4, <1>6, <2>1, <2>2, <2>3, <2>4 DEF Typed
<1> QED BY <1>5, <1>6

LEMMA LeaveMine ==
  ASSUME IInv, NEW p \in Actors, req[p] \in Calls, NEW status, Leave(p, status), UNCHANGED up
  PROVE  Mine(p)' /\ \A a, b \in Actors : Apart(a, b)'
<1>1. /\ pc'[p] \in {"idle", "done", "lock", "restore"} /\ pend'[p] = NoWrites
      /\ req[p].op = "publish" => req'[p] = req[p] /\ pc'[p] # "idle"
      /\ req[p].op # "publish" => req'[p] = None /\ pc'[p] = "idle"
      /\ \A q \in Actors \ {p} : Same(q)
  BY LeaveEffect
<1>2. Control(p) /\ req[p] # None /\ pc[p] # "idle"
  BY CallKinds DEF IInv, Control
<1>3. Control(p)'
  BY <1>1, <1>2 DEF Control, InTxn
<1>4. ~Writing(p)'
  BY <1>1 DEF Writing
<1>5. Writes(p)' /\ InOrder(p)'
  BY <1>1, <1>4 DEF Writes, InOrder, InTxn
<1> QED BY <1>1, <1>3, <1>4, <1>5, SameApart DEF Mine

\* A seed that answers has its row; every other answer changes no `seeded'.
LEMMA LeaveSeeded ==
  ASSUME IInv, NEW p \in Actors, req[p] \in Calls, NEW status, Leave(p, status),
         UNCHANGED <<up, rows>>,
         req[p].op = "seed" /\ status = "OK" => rows[req[p].name] # {}
  PROVE  Seeded'
<1>1. CASE req[p].op = "seed"
  <2>1. ~up
    <3>1. Control(p) /\ p = Boot /\ pc[p] # "idle"
      BY <1>1, CallKinds DEF IInv, Control
    <3> QED BY <3>1 DEF Control
  <2>2. seeded' = {} \/ (status = "OK" /\ seeded' = seeded \cup {req[p].name})
    BY <1>1 DEF Leave
  <2> QED BY <1>1, <2>1, <2>2 DEF IInv, Seeded
<1>2. CASE req[p].op # "seed"
  <2>1. seeded' = seeded
    BY <1>2 DEF Leave
  <2> QED BY <2>1, SameSeeded
<1> QED BY <1>1, <1>2

\* Before it touches a file.
LEMMA LeaveStep ==
  ASSUME IInv, NEW p \in Actors, pc[p] \in {"lock", "read", "insert"}, NEW status,
         Leave(p, status), UNCHANGED <<up, store, file, nginx, history>>,
         req[p].op = "seed" /\ status = "OK" => rows[req[p].name] # {}
  PROVE  IInv'
<1>1. UNCHANGED <<up, rows, audit, past, file, uses, wired, was, running, left, spoilt, lost, deleted>>
  BY DEF store, nginx, history
<1>2. req[p] \in Calls /\ Typed
  BY DEF IInv, Typed, Control
<1>3. Typed'
  BY <1>1, <1>2, LeaveEffect DEF Typed
<1>4. /\ pc'[p] \in {"idle", "done", "lock", "restore"} /\ \A q \in Actors \ {p} : Same(q)
  BY <1>2, LeaveEffect
<1>5. ~Filing(p) /\ ~Filing(p)'
  BY <1>4 DEF Filing
<1> QED BY <1>1, <1>2, <1>3, <1>4, <1>5, LeaveMine, LeaveSeeded, SameFiles, SameReferences, Frame

\* After it has touched a file: the file is spoilt, and what was written is left.
LEMMA AbortStep ==
  ASSUME IInv, NEW p \in Actors, pc[p] \in {"truncate", "write", "unlink", "commit"}, Abort(p),
         UNCHANGED <<up, store, file, nginx, lost, deleted>>
  PROVE  IInv'
<1>1. /\ UNCHANGED <<up, rows, audit, past, file, uses, wired, was, running, lost, deleted>>
      /\ Leave(p, "ERROR") /\ spoilt' = spoilt \cup IF Touching(p) THEN {req[p].name} ELSE {}
      /\ left' = [n \in Names |-> left[n] \cup Written(n, {p})]
  BY DEF store, nginx, Abort
<1>2. req[p] \in Calls /\ Typed /\ Control(p)
  BY DEF IInv, Typed, Control
<1>3. Typed'
  BY <1>1, <1>2, LeaveEffect DEF Typed
<1>4. /\ pc'[p] \in {"idle", "done", "lock", "restore"} /\ \A q \in Actors \ {p} : Same(q)
  BY <1>1, <1>2, LeaveEffect
<1>5. ASSUME NEW t \in Templates PROVE TemplateFile(t)'
  <2>1. Newest(t)' = Newest(t) /\ TemplateFile(t)
    BY <1>1, SameRows DEF IInv
  <2>2. CASE req[p].name = t
    <3>1. t \in spoilt'
      BY <1>1, <2>2 DEF Touching
    <3>2. \A q \in Actors : pc'[q] = "commit" /\ req'[q].name = t =>
            pc[q] = "commit" /\ req'[q] = req[q] /\ new'[q] = new[q]
      BY <1>4 DEF Same
    <3> QED BY <1>1, <2>1, <3>1, <3>2 DEF TemplateFile
  <2>3. CASE req[p].name # t
    <3>1. \A q \in Actors : /\ pc'[q] \in {"write", "commit"} /\ req'[q].name = t
                               <=> pc[q] \in {"write", "commit"} /\ req[q].name = t
                            /\ pc'[q] = "commit" /\ req'[q].name = t =>
                                 pc[q] = "commit" /\ req'[q] = req[q] /\ new'[q] = new[q]
      BY <1>4, <2>3 DEF Same
    <3> QED BY <1>1, <2>1, <3>1 DEF TemplateFile
  <2> QED BY <2>2, <2>3
<1>6. ASSUME NEW c \in Cores PROVE CoreFile(c)'
  <2>1. CoreFile(c)
    BY DEF IInv
  <2>2. CASE p = Boot
    BY <1>1, <2>1, <2>2 DEF CoreFile, Touching
  <2>3. CASE p # Boot
    BY <1>1, <1>4, <2>1, <2>3 DEF CoreFile, Same, Actors
  <2> QED BY <2>2, <2>3
<1>7. ASSUME NEW t \in Templates, NEW rules, Recorded(t, rules) PROVE Recorded(t, rules)'
  <2>1. t \in Names /\ left'[t] = left[t] \cup Written(t, {p})
    BY <1>1 DEF Names
  <2>2. CASE pc[p] = "commit" /\ req[p].name = t /\ rules = new[p].rules
    BY <2>1, <2>2 DEF Written, Recorded
  <2>3. CASE ~(pc[p] = "commit" /\ req[p].name = t /\ rules = new[p].rules)
    BY <1>1, <1>4, <1>7, <2>1, <2>3 DEF Recorded, Same, Actors
  <2> QED BY <2>2, <2>3
<1>8. Contained'
  BY <1>1, <1>7 DEF IInv, Contained
<1> QED BY <1>1, <1>2, <1>3, <1>4, <1>5, <1>6, <1>8, LeaveMine, LeaveSeeded, SameReferences, Frame

----------------------------------------------------------------------------
(* Requests and locks *)

LEMMA GotoEffect ==
  ASSUME Typed, NEW p \in Actors, NEW label \in Labels, Goto(p, label)
  PROVE  /\ pc'[p] = label /\ pc' \in [Actors -> Labels]
         /\ \A q \in Actors \ {p} : pc'[q] = pc[q]
BY DEF Typed, Goto

\* A step outside transactions and away from the rule sets.
LEMMA OutsideStep ==
  ASSUME IInv, NEW p \in Actors, Typed', \A q \in Actors \ {p} : Same(q),
         UNCHANGED <<up, seeded, pend, store, file, history>>, Control(p)',
         pc[p] \notin InTxn, pc'[p] \notin InTxn,
         Contained', Referenced'
  PROVE  IInv'
<1>1. UNCHANGED <<rows, audit, past, left, spoilt, lost, deleted>>
  BY DEF store, history
<1>2. ~Writing(p) /\ ~Writing(p)' /\ ~Filing(p) /\ ~Filing(p)'
  BY DEF Writing, Filing, InTxn
<1>3. Mine(p)'
  BY <1>2 DEF IInv, Mine, Writes, InOrder, Writing
<1>4. \A a, b \in Actors : Apart(a, b)'
  BY <1>2, SameApart
<1>5. ASSUME NEW t \in Templates PROVE TemplateFile(t)'
  <2>1. Newest(t)' = Newest(t) /\ TemplateFile(t)
    BY <1>1, SameRows DEF IInv
  <2>2. \A q \in Actors : /\ pc'[q] \in {"write", "commit"} /\ req'[q].name = t
                             <=> pc[q] \in {"write", "commit"} /\ req[q].name = t
                          /\ pc'[q] = "commit" /\ req'[q].name = t =>
                               pc[q] = "commit" /\ req'[q] = req[q] /\ new'[q] = new[q]
    BY <1>2 DEF Same, Filing
  <2> QED BY <1>1, <2>1, <2>2 DEF TemplateFile
<1>6. ASSUME NEW c \in Cores PROVE CoreFile(c)'
  BY <1>1, RuleSetsAssumptions DEF IInv, CoreFile, Same, Actors, InTxn
<1> QED BY <1>1, <1>3, <1>4, <1>5, <1>6, SameSeeded, Frame

LEMMA SameRecorded ==
  ASSUME NEW p \in Actors, \A q \in Actors \ {p} : Same(q), pc[p] # "commit",
         NEW t \in Templates, NEW rules, Recorded(t, rules), UNCHANGED <<past, left>>
  PROVE  Recorded(t, rules)'
BY DEF Recorded, Same, Actors

LEMMA OutsideContained ==
  ASSUME IInv, NEW p \in Actors, \A q \in Actors \ {p} : Same(q), pc[p] # "commit",
         UNCHANGED <<store, file, history, running>>
  PROVE  Contained'
BY SameRecorded DEF IInv, Contained, store, history

LEMMA SubmitStep == ASSUME IInv, NEW p \in Procs, Submit(p) PROVE IInv'
<1>1. /\ up /\ pc[p] = "idle"
      /\ UNCHANGED <<up, seeded, new, pend, lock, store, file, nginx, history>>
      /\ outcome' = [outcome EXCEPT ![p] = "SUCCESS"]
  BY DEF Submit
<1>2. PICK r \in Requests : /\ req' = [req EXCEPT ![p] = r]
                            /\ Goto(p, IF r.op = "publish" THEN "global" ELSE "lock")
  BY DEF Submit
<1>3. /\ p \in Actors /\ p # Boot /\ r \in Calls /\ r # None /\ r.op # "seed"
      /\ Typed /\ Control(p)
  BY RuleSetsAssumptions, CallKinds DEF IInv, Actors, Calls, Creates, Rollbacks, Deletes, Publishes
<1>4. PICK label \in {"global", "lock"} : /\ Goto(p, label) /\ label \in Labels
                                          /\ label = "global" => r.op = "publish"
  BY <1>2 DEF Labels
<1>5. pc'[p] = label /\ pc' \in [Actors -> Labels] /\ \A q \in Actors \ {p} : pc'[q] = pc[q]
  BY <1>3, <1>4, GotoEffect
<1>6. /\ req'[p] = r /\ req' \in [Actors -> Calls \cup {None}]
      /\ outcome' \in [Actors -> Statuses]
      /\ \A q \in Actors \ {p} : Same(q)
  BY <1>1, <1>2, <1>3, <1>5 DEF Typed, Same, Statuses
<1>7. Typed'
  BY <1>1, <1>3, <1>5, <1>6 DEF Typed, store, nginx, history
<1>8. Control(p)'
  BY <1>1, <1>3, <1>4, <1>5, <1>6 DEF Control, InTxn
<1>9. Contained' /\ Referenced'
  BY <1>1, <1>3, <1>4, <1>5, <1>6, OutsideContained, SameReferences DEF store, nginx, history
<1> QED BY <1>1, <1>3, <1>4, <1>5, <1>6, <1>7, <1>8, <1>9, OutsideStep DEF InTxn

LEMMA SeedStep == ASSUME IInv, seedFactoryVersions PROVE IInv'
<1>1. /\ ~up /\ pc[Boot] = "idle"
      /\ UNCHANGED <<seeded, outcome, new, pend, lock, store, file, nginx, history>>
  BY DEF seedFactoryVersions
<1>2. UNCHANGED <<rows, audit, past, left, spoilt, lost, deleted, uses, wired, was, running>>
  BY <1>1 DEF store, nginx, history
<1>3. Boot \in Actors /\ Typed
  BY DEF Actors, IInv
<1>4. ASSUME seeded = Shipped, up' = TRUE, UNCHANGED <<pc, req>> PROVE IInv'
  <2>1. Typed'
    BY <1>1, <1>2, <1>3, <1>4 DEF Typed
  <2>2. \A p \in Actors : pc[p] = "idle"
    BY <1>1 DEF IInv, Control
  <2>3. ASSUME NEW p \in Actors
        PROVE  Control(p)' /\ Writes(p)' /\ InOrder(p)' /\ \A q \in Actors : Apart(p, q)'
    BY <1>1, <1>4, <2>2 DEF IInv, Control, Writes, InOrder, Apart, Writing, InTxn
  <2>4. \A n \in Names : Table(n)'
    BY <1>2, SameRows DEF IInv, Table, Versions, Contents
  <2>5. \A t \in Templates : TemplateFile(t)'
    BY <1>1, <1>2, <1>4, SameRows DEF IInv, TemplateFile
  <2>6. (\A c \in Cores : CoreFile(c)') /\ Seeded'
    BY <1>1, <1>2, <1>4 DEF IInv, CoreFile, Seeded
  <2>7. Contained' /\ Referenced'
    BY <1>1, <1>2, <1>4 DEF IInv, Contained, Recorded, Referenced
  <2> QED BY <2>1, <2>3, <2>4, <2>5, <2>6, <2>7 DEF IInv
<1>5. ASSUME NEW c \in Shipped, req' = [req EXCEPT ![Boot] = [op |-> "seed", name |-> c]],
             Goto(Boot, "lock"), UNCHANGED up
      PROVE  IInv'
  <2>1. [op |-> "seed", name |-> c] \in Calls /\ [op |-> "seed", name |-> c] # None
    BY CallKinds DEF Calls, Seeds
  <2>2. /\ pc'[Boot] = "lock" /\ pc' \in [Actors -> Labels]
        /\ \A q \in Actors \ {Boot} : pc'[q] = pc[q]
    BY <1>3, <1>5, GotoEffect DEF Labels
  <2>3. /\ req'[Boot] = [op |-> "seed", name |-> c] /\ req' \in [Actors -> Calls \cup {None}]
        /\ \A q \in Actors \ {Boot} : Same(q)
    BY <1>1, <1>3, <1>5, <2>1, <2>2 DEF Typed, Same
  <2>4. Typed'
    BY <1>1, <1>2, <1>3, <1>5, <2>2, <2>3 DEF Typed
  <2>5. Control(Boot)'
    BY <1>1, <1>5, <2>1, <2>2, <2>3 DEF Control, InTxn
  <2>6. Contained' /\ Referenced'
    BY <1>1, <1>2, <1>3, <2>2, <2>3, OutsideContained, SameReferences
  <2> QED BY <1>1, <1>3, <1>5, <2>2, <2>3, <2>4, <2>5, <2>6, OutsideStep DEF InTxn
<1> QED BY <1>4, <1>5 DEF seedFactoryVersions

LEMMA LockStep == ASSUME IInv, NEW p \in Actors, Lock(p) PROVE IInv'
<1>1. UNCHANGED <<up, seeded, req, outcome, new, pend, store, file, nginx, history>>
  BY DEF Lock
<1>2. Typed /\ Control(p)
  BY DEF IInv
<1>3. ASSUME NEW k \in Names \cup {Global}, NEW label \in {"read", "check"},
             lock[k] = None, lock' = [lock EXCEPT ![k] = p], Goto(p, label),
             pc[p] \in {"lock", "global"}, Control(p)'
      PROVE  IInv'
  <2>1. pc'[p] = label /\ pc' \in [Actors -> Labels] /\ \A q \in Actors \ {p} : pc'[q] = pc[q]
    BY <1>2, <1>3, GotoEffect DEF Labels
  <2>2. lock' \in [Names \cup {Global} -> Actors \cup {None}] /\ \A q \in Actors \ {p} : Same(q)
    BY <1>1, <1>2, <1>3, <2>1, RuleSetsAssumptions DEF Typed, Same
  <2>3. Typed'
    BY <1>1, <1>2, <2>1, <2>2 DEF Typed, store, nginx, history
  <2>4. Contained' /\ Referenced'
    BY <1>1, <1>3, <2>1, <2>2, OutsideContained, SameReferences DEF store, nginx, history
  <2> QED BY <1>1, <1>3, <2>1, <2>2, <2>3, <2>4, OutsideStep DEF InTxn
<1>4. ASSUME pc[p] = "lock", lock[req[p].name] = None, lock' = [lock EXCEPT ![req[p].name] = p],
             Goto(p, "read")
      PROVE  IInv'
  <2>1. req[p] \in Calls /\ req[p].name \in Names
    BY <1>2, <1>4, CallKinds DEF Typed, Control
  <2>2. lock'[req[p].name] = p /\ pc'[p] = "read"
    BY <1>2, <1>4, <2>1, GotoEffect DEF Typed, Labels
  <2>3. Control(p)'
    BY <1>1, <1>2, <1>4, <2>2 DEF Control, InTxn
  <2> QED BY <1>3, <1>4, <2>1, <2>3
<1>5. ASSUME pc[p] = "global", lock[Global] = None, lock' = [lock EXCEPT ![Global] = p],
             Goto(p, "check")
      PROVE  IInv'
  <2>1. pc'[p] = "check"
    BY <1>2, <1>5, GotoEffect DEF Labels
  <2>2. Control(p)'
    BY <1>1, <1>2, <1>5, <2>1 DEF Control, InTxn
  <2> QED BY <1>3, <1>5, <2>2
<1> QED BY <1>4, <1>5 DEF Lock

LEMMA LockTimeoutStep == ASSUME IInv, NEW p \in Actors, LockTimeout(p) PROVE IInv'
<1>1. UNCHANGED <<up, store, file, nginx, history>>
  BY DEF LockTimeout
<1>2. CASE pc[p] = "lock" /\ Leave(p, "ERROR")
  BY <1>1, <1>2, LeaveStep
<1>3. ASSUME pc[p] = "global", Goto(p, "idle"), req' = [req EXCEPT ![p] = None],
             UNCHANGED <<lock, new, pend, outcome, seeded>>
      PROVE  IInv'
  <2>1. Typed /\ Control(p)
    BY DEF IInv
  <2>2. pc'[p] = "idle" /\ pc' \in [Actors -> Labels] /\ \A q \in Actors \ {p} : pc'[q] = pc[q]
    BY <1>3, <2>1, GotoEffect DEF Labels
  <2>3. /\ req'[p] = None /\ req' \in [Actors -> Calls \cup {None}]
        /\ \A q \in Actors \ {p} : Same(q)
    BY <1>3, <2>1, <2>2 DEF Typed, Same
  <2>4. Typed'
    BY <1>1, <1>3, <2>1, <2>2, <2>3 DEF Typed, store, nginx, history
  <2>5. Control(p)'
    BY <1>1, <1>3, <2>1, <2>2, <2>3 DEF Control, InTxn
  <2>6. Contained' /\ Referenced'
    BY <1>1, <1>3, <2>2, <2>3, OutsideContained, SameReferences DEF store, nginx, history
  <2> QED BY <1>1, <1>3, <2>2, <2>3, <2>4, <2>5, <2>6, OutsideStep DEF InTxn
<1> QED BY <1>2, <1>3 DEF LockTimeout

----------------------------------------------------------------------------
(* publish *)

LEMMA CheckStep == ASSUME IInv, NEW p \in Actors, CheckReferences(p) PROVE IInv'
<1>1. /\ pc[p] = "check" /\ was' = [was EXCEPT ![p] = None]
      /\ UNCHANGED <<up, seeded, req, new, pend, lock, store, file, uses, wired, running, history>>
  BY DEF CheckReferences
<1>2. Typed /\ Control(p) /\ req[p] \in Calls /\ req[p].op = "publish"
  BY <1>1 DEF IInv, Typed, Control
<1>3. PICK label \in {"policy", "lock"} :
        /\ Goto(p, label)
        /\ label = "policy" => \A n \in req[p].uses : rows[n] # {}
        /\ outcome' = outcome \/ outcome' = [outcome EXCEPT ![p] = "FAILED"]
  BY DEF CheckReferences
<1>4. /\ pc'[p] = label /\ pc' \in [Actors -> Labels] /\ \A q \in Actors \ {p} : pc'[q] = pc[q]
  BY <1>2, <1>3, GotoEffect DEF Labels
<1>5. \A q \in Actors \ {p} : Same(q)
  BY <1>1, <1>4 DEF Same
<1>6. outcome' \in [Actors -> Statuses] /\ was' \in [Actors -> (SUBSET Servers) \cup {None}]
  BY <1>1, <1>2, <1>3 DEF Typed, Statuses
<1>7. Typed'
  BY <1>1, <1>2, <1>4, <1>6 DEF Typed, store, history
<1>8. Control(p)'
  BY <1>1, <1>2, <1>4 DEF Control, InTxn
<1>9. Contained'
  BY <1>1, <1>5, OutsideContained
<1>10. Referenced'
  BY <1>1, <1>2, <1>3, <1>4, <1>5 DEF IInv, Referenced, Same, store, history
<1> QED BY <1>1, <1>4, <1>5, <1>7, <1>8, <1>9, <1>10, OutsideStep DEF InTxn

LEMMA PolicyStep == ASSUME IInv, NEW p \in Actors, WritePolicy(p) PROVE IInv'
<1>1. /\ pc[p] = "policy" /\ Goto(p, "test")
      /\ uses' = [uses EXCEPT ![req[p].name] = req[p].uses \cap Templates]
      /\ was' = [was EXCEPT ![p] = wired] /\ wired' = wired \cup {req[p].name}
      /\ UNCHANGED <<up, seeded, req, outcome, new, pend, lock, store, file, running, history>>
  BY DEF WritePolicy
<1>2. Typed /\ Control(p) /\ req[p] \in Calls /\ req[p].op = "publish" /\ req[p].name \in Servers
  BY <1>1, CallKinds DEF IInv, Typed, Control
<1>3. /\ pc'[p] = "test" /\ pc' \in [Actors -> Labels] /\ \A q \in Actors \ {p} : pc'[q] = pc[q]
  BY <1>1, <1>2, GotoEffect DEF Labels
<1>4. \A q \in Actors \ {p} : Same(q)
  BY <1>1, <1>3 DEF Same
<1>5. /\ uses' \in [Servers -> SUBSET Templates] /\ wired' \subseteq Servers
      /\ was' \in [Actors -> (SUBSET Servers) \cup {None}]
  BY <1>1, <1>2 DEF Typed
<1>6. Typed'
  BY <1>1, <1>2, <1>3, <1>5 DEF Typed, store, history
<1>7. Control(p)'
  BY <1>1, <1>2, <1>3 DEF Control, InTxn
<1>8. Contained'
  BY <1>1, <1>4, OutsideContained
<1>9. Referenced'
  <2>1. ASSUME NEW s \in Servers, NEW t \in uses'[s] \ deleted PROVE rows[t] # {}
    <3>1. CASE s = req[p].name
      BY <1>1, <1>2, <2>1, <3>1 DEF IInv, Referenced, Typed
    <3>2. CASE s # req[p].name
      BY <1>1, <1>2, <2>1, <3>2 DEF IInv, Referenced, Typed
    <3> QED BY <3>1, <3>2
  <2> QED BY <1>1, <1>3, <1>4, <2>1 DEF IInv, Referenced, Same, store, history
<1> QED BY <1>1, <1>3, <1>4, <1>6, <1>7, <1>8, <1>9, OutsideStep DEF InTxn

LEMMA ReloadStep == ASSUME IInv, NEW p \in Actors, Reload(p) PROVE IInv'
<1>1. /\ pc[p] \in {"test", "reload"}
      /\ UNCHANGED <<up, seeded, req, new, pend, lock, store, file, uses, wired, was, history>>
  BY DEF Reload
<1>2. Typed /\ Control(p) /\ req[p] \in Calls /\ req[p].op = "publish"
  BY <1>1 DEF IInv, Typed, Control
<1>3. PICK label \in {"reload", "lock"} :
        /\ Goto(p, label)
        /\ outcome' = outcome \/ outcome' = [outcome EXCEPT ![p] = "FAILED"]
        /\ running' = running \/ (Loadable /\ running' = Loaded)
  BY DEF Reload
<1>4. /\ pc'[p] = label /\ pc' \in [Actors -> Labels] /\ \A q \in Actors \ {p} : pc'[q] = pc[q]
  BY <1>2, <1>3, GotoEffect DEF Labels
<1>5. \A q \in Actors \ {p} : Same(q)
  BY <1>1, <1>4 DEF Same
<1>6. Typed'
  <2>1. outcome' \in [Actors -> Statuses] /\ DOMAIN running' = Servers
    BY <1>2, <1>3 DEF Typed, Statuses, Loaded
  <2> QED BY <1>1, <1>2, <1>4, <2>1 DEF Typed, store, history
<1>7. Control(p)'
  BY <1>1, <1>2, <1>4 DEF Control, InTxn
<1>8. Contained'
  <2>1. CASE running' = running
    BY <1>1, <1>5, <2>1, OutsideContained
  <2>2. CASE Loadable /\ running' = Loaded
    <3>1. ASSUME NEW t \in Templates, NEW rules, Recorded(t, rules) PROVE Recorded(t, rules)'
      BY <1>1, <1>5, <3>1, SameRecorded DEF store, history
    <3>2. ASSUME NEW s \in Servers, NEW t \in DOMAIN running'[s]
          PROVE  t \in Templates /\ Recorded(t, running'[s][t])
      <4>1. s \in wired /\ t \in uses[s] /\ running'[s][t] = file[t]
        BY <2>2, <3>2 DEF Loaded
      <4>2. t \in Templates /\ file[t] \notin {None, Torn}
        BY <1>2, <2>2, <4>1 DEF Typed, Loadable
      <4> QED BY <4>1, <4>2 DEF IInv, Contained
    <3>3. ASSUME NEW s \in Servers, NEW t \in DOMAIN running'[s]
          PROVE  t \in Templates /\ Recorded(t, running[s][t])'
      BY <3>1, <3>2
    <3> QED BY <1>1, <3>1, <3>3 DEF IInv, Contained
  <2> QED BY <1>3, <2>1, <2>2
<1>9. Referenced'
  BY <1>1, <1>4, <1>5, SameReferences DEF store, history
<1> QED BY <1>1, <1>4, <1>5, <1>6, <1>7, <1>8, <1>9, OutsideStep DEF InTxn

LEMMA FinishStep == ASSUME IInv, NEW p \in Actors, Finish(p) PROVE IInv'
<1>1. /\ pc[p] \in {"done", "restore"} /\ Goto(p, "idle") /\ req' = [req EXCEPT ![p] = None]
      /\ lock' = Freed(p, Global)
      /\ wired' = IF pc[p] = "restore" /\ was[p] # None THEN was[p] ELSE wired
      /\ UNCHANGED <<up, seeded, outcome, new, pend, store, file, uses, was, running, history>>
  BY DEF Finish
<1>2. Typed /\ Control(p)
  BY DEF IInv
<1>3. pc'[p] = "idle" /\ pc' \in [Actors -> Labels] /\ \A q \in Actors \ {p} : pc'[q] = pc[q]
  BY <1>1, <1>2, GotoEffect DEF Labels
<1>4. /\ lock' \in [Names \cup {Global} -> Actors \cup {None}]
      /\ \A q \in Actors \ {p}, k \in Names \cup {Global} : lock[k] = q => lock'[k] = q
  BY <1>1, <1>2, FreedEffect
<1>5. /\ req'[p] = None /\ req' \in [Actors -> Calls \cup {None}] /\ wired' \subseteq Servers
      /\ \A q \in Actors \ {p} : req'[q] = req[q]
  BY <1>1, <1>2 DEF Typed
<1>6. \A q \in Actors \ {p} : Same(q)
  BY <1>1, <1>3, <1>4, <1>5 DEF Same
<1>7. Typed'
  BY <1>1, <1>2, <1>3, <1>4, <1>5 DEF Typed, store, history
<1>8. Control(p)'
  BY <1>1, <1>2, <1>3, <1>5 DEF Control, InTxn
<1>9. Contained' /\ Referenced'
  BY <1>1, <1>3, <1>6, OutsideContained, SameReferences DEF store, history
<1> QED BY <1>1, <1>3, <1>6, <1>7, <1>8, <1>9, OutsideStep DEF InTxn

----------------------------------------------------------------------------
(* The transaction *)

LEMMA ReadDraft ==
  ASSUME IInv, NEW p \in Actors, pc[p] = "read", NEW no \in Nat,
         NEW rules \in Rules \cup Statuses \cup {None},
         new' = [new EXCEPT ![p] = [no |-> no, rules |-> rules]], Goto(p, "insert"),
         UNCHANGED <<up, req, seeded, outcome, lock, pend, store, file, nginx, history>>,
         req[p].op # "delete" => [no |-> no, rules |-> rules] \in Versions(req[p].name),
         req[p].op = "seed" =>
           [no |-> no, rules |-> rules] = Factories /\ rows[req[p].name] = {},
         req[p].op # "seed" /\ req[p].name \in Cores => rows[req[p].name] # {},
         req[p].name \notin lost /\ req[p].op \in {"create", "rollback", "publish"} =>
           no = Cardinality(rows[req[p].name]) + 1
  PROVE  IInv'
<1>1. UNCHANGED <<rows, audit, past, uses, wired, was, running, left, spoilt, lost, deleted>>
  BY DEF store, nginx, history
<1>2. Typed /\ Control(p) /\ Writes(p)
  BY DEF IInv
<1>3. /\ pc'[p] = "insert" /\ pc' \in [Actors -> Labels]
      /\ \A q \in Actors \ {p} : pc'[q] = pc[q]
  BY <1>2, GotoEffect DEF Labels, InTxn
<1>4. /\ new'[p] = [no |-> no, rules |-> rules] /\ DOMAIN new' = Actors
      /\ \A q \in Actors : new'[q] \in [no : Nat, rules : Rules \cup Statuses \cup {None}]
      /\ \A q \in Actors \ {p} : Same(q)
  BY <1>2, <1>3 DEF Typed, Same
<1>5. Typed'
  BY <1>1, <1>2, <1>3, <1>4 DEF Typed
<1>6. ~Writing(p)' /\ ~Writing(p)
  BY <1>3 DEF Writing
<1>7. Control(p)'
  BY <1>1, <1>2, <1>3 DEF Control, InTxn
<1>8. Writes(p)' /\ InOrder(p)'
  BY <1>1, <1>2, <1>3, <1>4, <1>6 DEF Writes, InOrder, Versions, Contents
<1>9. \A a, b \in Actors : Apart(a, b)'
  BY <1>4, <1>6, SameApart
<1>10. Seeded' /\ Referenced'
  BY <1>1, <1>3, <1>4, SameSeeded, SameReferences
<1>11. ~Filing(p) /\ ~Filing(p)'
  BY <1>3 DEF Filing
<1> QED BY <1>1, <1>4, <1>5, <1>7, <1>8, <1>9, <1>10, <1>11, SameFiles, Frame DEF Mine

LEMMA ReadStep == ASSUME IInv, NEW p \in Actors, Read(p) PROVE IInv'
<1> DEFINE r == req[p]
           n == r.name
<1>1. pc[p] = "read" /\ UNCHANGED <<up, store, file, nginx, history>>
  BY DEF Read
<1>2. Typed /\ Control(p) /\ r \in Calls /\ n \in Names /\ Table(n)
  <2>1. Typed /\ Control(p) /\ r \in Calls
    BY <1>1 DEF IInv, Typed, Control
  <2> QED BY <2>1, CallKinds DEF IInv
<1>3. /\ rows[n] \subseteq Versions(n) /\ IsFiniteSet(rows[n])
      /\ n \notin lost => Numbers(n) = 1..Cardinality(rows[n])
      /\ n \in Cores /\ rows[n] # {} => Factories \in rows[n]
  BY <1>2 DEF Table
<1>4. /\ nextVersion(n) \in Nat \ {0}
      /\ n \notin lost => nextVersion(n) = Cardinality(rows[n]) + 1
  BY <1>3, NextVersion DEF Versions
<1>5. ASSUME NEW no, NEW rules, new' = [new EXCEPT ![p] = [no |-> no, rules |-> rules]],
             Goto(p, "insert"), UNCHANGED <<req, reply, seeded, outcome, lock, pend>>,
             no \in Nat, rules \in Rules \cup Statuses \cup {None},
             r.op # "delete" => [no |-> no, rules |-> rules] \in Versions(n),
             r.op = "seed" => [no |-> no, rules |-> rules] = Factories /\ rows[n] = {},
             r.op # "seed" /\ n \in Cores => rows[n] # {},
             n \notin lost /\ r.op \in {"create", "rollback", "publish"} =>
               no = Cardinality(rows[n]) + 1
      PROVE  IInv'
  BY <1>1, <1>5, ReadDraft
<1> DEFINE Draft(no, rules) == /\ new' = [new EXCEPT ![p] = [no |-> no, rules |-> rules]]
                               /\ Goto(p, "insert")
                               /\ UNCHANGED <<req, reply, seeded, outcome, lock, pend>>
<1>6. ASSUME NEW status, Leave(p, status), r.op = "seed" /\ status = "OK" => rows[n] # {}
      PROVE  IInv'
  BY <1>1, <1>6, LeaveStep
<1>7. CASE r.op = "create" /\ (n \in Cores => FACTORY_VERSION_NO \in Numbers(n))
           /\ r.rules \notin Malformed /\ Draft(nextVersion(n), r.rules)
  <2>1. r.rules \in Rules \ Malformed /\ Contents(n) = Rules \ Malformed /\ (n \in Cores => rows[n] # {})
    BY <1>2, <1>7, CallKinds, ContentsOf DEF Numbers
  <2>2. [no |-> nextVersion(n), rules |-> r.rules] \in Versions(n)
    BY <1>4, <2>1 DEF Versions
  <2> QED BY <1>4, <1>5, <1>7, <2>1, <2>2
<1>8. CASE r.op = "rollback" /\ r.to \in Numbers(n) /\ Draft(nextVersion(n), Row(n, r.to).rules)
  <2>1. Contents(n) = Rules \ Malformed /\ rows[n] # {}
    BY <1>2, <1>8, CallKinds, ContentsOf DEF Numbers
  <2>2. Row(n, r.to) \in rows[n]
    BY <1>8 DEF Row, Numbers
  <2>3. Row(n, r.to).rules \in Rules \ Malformed
    BY <1>3, <2>1, <2>2 DEF Versions
  <2>4. [no |-> nextVersion(n), rules |-> Row(n, r.to).rules] \in Versions(n)
    BY <1>4, <2>1, <2>3 DEF Versions
  <2> QED BY <1>4, <1>5, <1>8, <2>1, <2>3, <2>4
<1>9. CASE r.op = "seed" /\ FACTORY_VERSION_NO \notin Numbers(n)
           /\ Draft(FACTORY_VERSION_NO, Factory)
  <2>1. n \in Cores /\ Contents(n) = Rules \ Malformed
    BY <1>2, <1>9, CallKinds, ContentsOf
  <2>2. rows[n] = {}
    BY <1>3, <1>9, <2>1 DEF Numbers, Factories
  <2>3. Factories \in Versions(n) /\ FACTORY_VERSION_NO \in Nat /\ Factory \in Rules \ Malformed
    BY <2>1, RuleSetsAssumptions DEF Versions, Factories, FACTORY_VERSION_NO
  <2> QED BY <1>5, <1>9, <2>1, <2>2, <2>3 DEF Factories
<1>10. CASE r.op = "seed" /\ FACTORY_VERSION_NO \in Numbers(n) /\ Leave(p, "OK")
  BY <1>6, <1>10 DEF Numbers
<1>11. CASE r.op = "publish" /\ Draft(nextVersion(n), outcome[p])
  <2>1. n \in Servers /\ n \notin Cores /\ Contents(n) = Statuses /\ outcome[p] \in Statuses
    BY <1>2, <1>11, CallKinds, ContentsOf, RuleSetsAssumptions DEF Typed
  <2>2. [no |-> nextVersion(n), rules |-> outcome[p]] \in Versions(n)
    BY <1>4, <2>1 DEF Versions
  <2> QED BY <1>4, <1>5, <1>11, <2>1, <2>2
<1>12. CASE r.op = "delete" /\ Draft(0, None)
  <2>1. n \notin Cores
    BY <1>2, <1>12, CallKinds, RuleSetsAssumptions
  <2> QED BY <1>5, <1>12, <2>1
<1> QED BY <1>6, <1>7, <1>8, <1>9, <1>10, <1>11, <1>12 DEF Read

\* A process writes; nobody else has written a row of the same number.
LEMMA ApartNow ==
  ASSUME IInv, NEW p \in Actors, \A q \in Actors \ {p} : Same(q), UNCHANGED req,
         \A q \in Actors \ {p} : Writing(q) /\ req[q].name = req[p].name =>
           \A r \in Touched(p)', r2 \in Touched(q) : r.no # r2.no
  PROVE  \A a, b \in Actors : Apart(a, b)'
<1>1. \A a \in Actors \ {p} : (Writing(a)' <=> Writing(a)) /\ Touched(a)' = Touched(a)
  BY DEF Same, Writing, Touched
<1>2. ASSUME NEW a \in Actors, NEW b \in Actors PROVE Apart(a, b)'
  <2>1. CASE a # p /\ b # p
    BY <1>1, <2>1 DEF IInv, Apart
  <2>2. CASE a = p /\ b # p
    BY <1>1, <2>2 DEF Apart
  <2>3. CASE a # p /\ b = p
    BY <1>1, <2>3 DEF Apart
  <2>4. CASE a = b
    BY <2>4 DEF Apart
  <2> QED BY <2>1, <2>2, <2>3, <2>4
<1> QED BY <1>2

LEMMA NotBlocked ==
  ASSUME NEW p \in Actors, NEW no, ~Blocked(p, no), NEW q \in Actors \ {p}, Writing(q),
         req[q].name = req[p].name
  PROVE  \A r \in Touched(q) : r.no # no
BY DEF Blocked, Writing, Touched, InTxn

LEMMA InsertStep == ASSUME IInv, NEW p \in Actors, Insert(p) PROVE IInv'
<1> DEFINE n == req[p].name
<1>1. /\ pc[p] = "insert" /\ req[p].op \notin {"delete", "seed"} /\ ~Blocked(p, new[p].no)
      /\ UNCHANGED <<up, store, file, nginx, history>>
  BY DEF Insert
<1>2. Typed /\ Control(p) /\ Writes(p) /\ InOrder(p) /\ req[p] \in Calls
  BY <1>1 DEF IInv, Typed, Control
<1>3. CASE Leave(p, "ERROR")
  BY <1>1, <1>3, LeaveStep
<1>4. ASSUME new[p].no \notin Numbers(n), pend' = [pend EXCEPT ![p].ins = {new[p]}],
             Goto(p, IF n \in Templates THEN "truncate" ELSE "commit"),
             UNCHANGED <<seeded, req, outcome, new, lock, reply>>
      PROVE  IInv'
  <2>1. UNCHANGED <<rows, audit, past, uses, wired, was, running, left, spoilt, lost, deleted>>
    BY <1>1 DEF store, nginx, history
  <2>2. PICK label \in {"truncate", "commit"} :
          /\ Goto(p, label) /\ label \in Labels
          /\ label = "truncate" <=> n \in Templates
    BY <1>4 DEF Labels, InTxn
  <2>3. pc'[p] = label /\ pc' \in [Actors -> Labels] /\ \A q \in Actors \ {p} : pc'[q] = pc[q]
    BY <1>2, <2>2, GotoEffect
  <2>4. pend[p] = NoWrites /\ DOMAIN pend = Actors
    BY <1>1, <1>2 DEF Typed, Writes, Writing
  <2>5. /\ DOMAIN pend' = Actors /\ pend'[p] = [ins |-> {new[p]}, del |-> {}]
        /\ \A q \in Actors \ {p} : pend'[q] = pend[q]
    BY <1>4, <2>4 DEF NoWrites
  <2>6. \A q \in Actors \ {p} : Same(q)
    BY <1>4, <2>3, <2>5 DEF Same
  <2>7. Typed'
    <3>1. \A q \in Actors : pend'[q] = [ins |-> pend'[q].ins, del |-> pend'[q].del]
      BY <1>2, <2>5 DEF Typed
    <3> QED BY <1>1, <1>2, <1>4, <2>1, <2>3, <2>5, <3>1 DEF Typed
  <2>8. Control(p)'
    <3>1. n \in Templates => req[p].op \in {"create", "rollback"}
      BY <1>1, <1>2, CallKinds, RuleSetsAssumptions
    <3>2. req[p].op \in {"create", "rollback", "publish"}
      BY <1>1, <1>2, CallKinds
    <3> QED BY <1>1, <1>2, <1>4, <2>1, <2>2, <2>3, <3>1, <3>2 DEF Control, InTxn
  <2>9. Writes(p)'
    BY <1>1, <1>2, <1>4, <2>1, <2>3, <2>5 DEF Writes, Writing, InTxn, Numbers
  <2>10. InOrder(p)'
    BY <1>1, <1>2, <1>4, <2>1, <2>3 DEF InOrder, InTxn
  <2>11. \A a, b \in Actors : Apart(a, b)'
    <3>1. Touched(p)' = {new[p]}
      BY <2>5 DEF Touched
    <3> QED BY <1>1, <1>4, <2>6, <3>1, NotBlocked, ApartNow
  <2>12. ~Filing(p) /\ ~Filing(p)'
    BY <1>1, <1>4, <2>2, <2>3 DEF Filing
  <2>13. Seeded' /\ Referenced'
    BY <1>1, <1>4, <2>1, <2>3, <2>6, SameSeeded, SameReferences
  <2> QED BY <1>1, <2>1, <2>6, <2>7, <2>8, <2>9, <2>10, <2>11, <2>12, <2>13, SameFiles, Frame
          DEF Mine
<1> QED BY <1>3, <1>4 DEF Insert

LEMMA DeleteStep == ASSUME IInv, NEW p \in Actors, Delete(p) PROVE IInv'
<1> DEFINE n == req[p].name
<1>1. /\ pc[p] = "insert" /\ req[p].op = "delete" /\ \A no \in Numbers(n) : ~Blocked(p, no)
      /\ UNCHANGED <<up, store, file, nginx, history>>
  BY DEF Delete
<1>2. Typed /\ Control(p) /\ Writes(p) /\ InOrder(p) /\ req[p] \in Calls
  BY <1>1 DEF IInv, Typed, Control
<1>3. CASE Leave(p, "ERROR")
  BY <1>1, <1>3, LeaveStep
<1>4. ASSUME pend' = [pend EXCEPT ![p].del = rows[n]], Goto(p, "unlink"),
             UNCHANGED <<seeded, req, outcome, new, lock, reply>>
      PROVE  IInv'
  <2>1. UNCHANGED <<rows, audit, past, uses, wired, was, running, left, spoilt, lost, deleted>>
    BY <1>1 DEF store, nginx, history
  <2>2. pc'[p] = "unlink" /\ pc' \in [Actors -> Labels] /\ \A q \in Actors \ {p} : pc'[q] = pc[q]
    BY <1>2, <1>4, GotoEffect DEF Labels, InTxn
  <2>3. pend[p] = NoWrites /\ DOMAIN pend = Actors
    BY <1>1, <1>2 DEF Typed, Writes, Writing
  <2>4. /\ DOMAIN pend' = Actors /\ pend'[p] = [ins |-> {}, del |-> rows[n]]
        /\ \A q \in Actors \ {p} : pend'[q] = pend[q]
    BY <1>4, <2>3 DEF NoWrites
  <2>5. \A q \in Actors \ {p} : Same(q)
    BY <1>4, <2>2, <2>4 DEF Same
  <2>6. Typed'
    <3>1. \A q \in Actors : pend'[q] = [ins |-> pend'[q].ins, del |-> pend'[q].del]
      BY <1>2, <2>4 DEF Typed
    <3> QED BY <1>1, <1>2, <1>4, <2>1, <2>2, <2>4, <3>1 DEF Typed
  <2>7. Control(p)'
    BY <1>1, <1>2, <1>4, <2>1, <2>2 DEF Control, InTxn
  <2>8. Writes(p)' /\ InOrder(p)'
    BY <1>1, <1>2, <1>4, <2>1, <2>2, <2>4 DEF Writes, InOrder, Writing, InTxn
  <2>9. \A a, b \in Actors : Apart(a, b)'
    <3>1. Touched(p)' = rows[n]
      BY <2>4 DEF Touched
    <3>2. \A r \in rows[n] : ~Blocked(p, r.no)
      BY <1>1 DEF Numbers
    <3> QED BY <1>4, <2>5, <3>1, <3>2, NotBlocked, ApartNow
  <2>10. ~Filing(p) /\ ~Filing(p)'
    BY <1>1, <2>2 DEF Filing
  <2>11. Seeded' /\ Referenced'
    BY <1>1, <1>4, <2>1, <2>2, <2>5, SameSeeded, SameReferences
  <2> QED BY <1>1, <2>1, <2>5, <2>6, <2>7, <2>8, <2>9, <2>10, <2>11, SameFiles, Frame DEF Mine
<1> QED BY <1>3, <1>4 DEF Delete

\* The start is alone: nothing else runs before the process listens.
LEMMA SeedsAlone ==
  ASSUME IInv, NEW p \in Actors, pc[p] # "idle", req[p].op = "seed"
  PROVE  p = Boot /\ ~up /\ \A q \in Actors \ {p} : pc[q] = "idle"
<1>1. \A q \in Actors : Control(q)
  BY DEF IInv
<1>2. p = Boot
  BY <1>1 DEF Control
<1>3. ~up
  BY <1>1, <1>2 DEF Control
<1> QED BY <1>1, <1>2, <1>3 DEF Control

\* Two processes at work on a name have lost its lock.
LEMMA Exclusive ==
  ASSUME IInv, NEW p \in Actors, NEW q \in Actors, p # q, pc[p] \in InTxn, pc[q] \in InTxn,
         req[p].name = req[q].name
  PROVE  req[p].name \in lost
BY DEF IInv, Control

\* The row of a factory version is saved, and the seeding goes on to the file or ends.
LEMMA Stored ==
  ASSUME IInv, NEW p \in Actors, pc[p] = "insert", req[p].op = "seed",
         NEW n, n = req[p].name,
         rows' = [rows EXCEPT ![n] = @ \cup {new[p]}],
         past' = [past EXCEPT ![n] = @ \cup {Factory}],
         UNCHANGED <<up, audit, file, uses, wired, was, running, left, lost, deleted>>,
         Typed', \A q \in Actors \ {p} : Same(q),
         Control(p)', pend'[p] = pend[p], Seeded',
         \/ pc'[p] = "truncate" /\ req'[p] = req[p] /\ new'[p] = new[p] /\ spoilt' = spoilt
         \/ pc'[p] = "idle" /\ spoilt' = spoilt \cup {n}
  PROVE  IInv'
<1>1. Typed /\ Control(p) /\ Writes(p) /\ req[p] \in Calls
  BY DEF IInv, Typed, Control
<1>2. /\ n \in Cores /\ n \in Names /\ n \notin Templates /\ Contents(n) = Rules \ Malformed
      /\ p = Boot /\ ~up /\ \A q \in Actors \ {p} : pc[q] = "idle"
  BY <1>1, CallKinds, ContentsOf, SeedsAlone, RuleSetsAssumptions
<1>3. new[p] = Factories /\ rows[n] = {}
  BY <1>1 DEF Writes, InTxn
<1>4. /\ rows'[n] = {Factories} /\ DOMAIN rows' = Names /\ DOMAIN past' = Names
      /\ past'[n] = past[n] \cup {Factory}
      /\ \A m \in Names \ {n} : rows'[m] = rows[m] /\ past'[m] = past[m]
  BY <1>1, <1>2, <1>3 DEF Typed
<1>5. ~Writing(p) /\ ~Writing(p)'
  <2>1. pc'[p] = "truncate" => req'[p].op = "seed"
    OBVIOUS
  <2> QED BY <2>1 DEF Writing
<1>6. ASSUME NEW q \in Actors PROVE Control(q)' /\ Writes(q)' /\ InOrder(q)'
  <2>1. CASE q = p
    <3>1. rows'[n] # {} /\ Factories \in Versions(n)
      BY <1>1, <1>3, <1>4 DEF Writes, InTxn
    <3>2. CASE pc'[p] = "truncate"
      <4>1. req'[p] = req[p] /\ new'[p] = Factories
        BY <1>3, <3>2
      <4> QED BY <1>1, <1>5, <2>1, <3>1, <3>2, <4>1 DEF Writes, InOrder, Versions, Contents
    <3>3. CASE pc'[p] = "idle"
      BY <1>1, <1>5, <2>1, <3>3 DEF Writes, InOrder, InTxn
    <3> QED BY <3>2, <3>3
  <2>2. CASE q # p
    <3>1. Mine(q) /\ pc[q] \notin InTxn
      BY <1>2, <2>2 DEF IInv, Mine, InTxn
    <3> QED BY <1>1, <2>2, <3>1, SameMine DEF Mine
  <2> QED BY <2>1, <2>2
<1>7. \A a, b \in Actors : Apart(a, b)'
  BY <1>5, SameApart
<1>8. ASSUME NEW m \in Names PROVE Table(m)'
  <2>1. CASE m = n
    <3>1. IsFiniteSet(rows'[n]) /\ Cardinality(rows'[n]) = 1
      <4>1. IsFiniteSet({Factories}) /\ Cardinality({Factories}) = 1
        BY FS_Singleton
      <4> QED BY <1>4, <4>1
    <3>2. Numbers(n)' = 1..1
      <4>1. Factories.no = 1
        BY DEF Factories, FACTORY_VERSION_NO
      <4>2. {r.no : r \in rows'[n]} = {1}
        BY <1>4, <4>1
      <4> QED BY <4>1, <4>2 DEF Numbers
    <3>3. Cardinality(rows[n]) = 0 /\ 0 = audit[n]
      <4>1. Cardinality(rows[n]) = 0
        BY <1>3, FS_EmptySet
      <4>2. audit[n] \in Int
        BY <1>1, <1>2 DEF Typed
      <4>3. Cardinality(rows[n]) = audit[n] + 0
        <5>1. Table(n)
          BY <1>2 DEF IInv
        <5> QED BY <1>3, <5>1 DEF Table
      <4> QED BY <4>1, <4>2, <4>3
    <3>4. Factories \in Versions(n) /\ Factories.rules \in past'[n]
      BY <1>1, <1>3, <1>4 DEF Writes, InTxn, Factories
    <3>5. /\ rows'[n] \subseteq Versions(n)
          /\ \A r1, r2 \in rows'[n] : r1.no = r2.no => r1 = r2
          /\ Factories \in rows'[n] /\ \A r \in rows'[n] : r.rules \in past'[n]
      BY <1>4, <3>4
    <3>6. Cardinality(rows'[n]) = audit'[n] + IF n \in Cores /\ rows'[n] # {} THEN 1 ELSE 0
      BY <1>2, <1>4, <3>1, <3>3
    <3>7. {r.no : r \in rows'[n]} = 1..Cardinality(rows'[n])
      BY <3>1, <3>2 DEF Numbers
    <3> QED BY <2>1, <3>1, <3>5, <3>6, <3>7 DEF Table, Versions, Contents, Numbers
  <2>2. CASE m # n
    BY <1>4, <2>2, SameRows DEF IInv, Table, Versions, Contents
  <2> QED BY <2>1, <2>2
<1>9. ASSUME NEW t \in Templates PROVE TemplateFile(t)'
  <2>1. t \in Names /\ t # n
    BY <1>2 DEF Names
  <2>2. Newest(t)' = Newest(t) /\ TemplateFile(t) /\ (t \in spoilt <=> t \in spoilt')
    BY <1>4, <2>1, SameRows DEF IInv
  <2>3. \A q \in Actors : pc'[q] \notin {"write", "commit"} /\ pc[q] \notin {"write", "commit"}
    BY <1>2 DEF Same
  <2> QED BY <2>2, <2>3 DEF TemplateFile
<1>10. ASSUME NEW c \in Cores PROVE CoreFile(c)'
  <2>1. CoreFile(c) /\ pc[Boot] \notin {"truncate", "write"}
    BY <1>2 DEF IInv
  <2>2. CASE c = n
    BY <1>2, <2>2 DEF CoreFile
  <2>3. CASE c # n
    BY <1>4, <2>1, <2>3 DEF CoreFile, Names
  <2> QED BY <2>2, <2>3
<1>11. ASSUME NEW t \in Templates, NEW rules, Recorded(t, rules) PROVE Recorded(t, rules)'
  BY <1>2, <1>4, <1>11 DEF Recorded, Names, Actors
<1>12. Contained'
  BY <1>11 DEF IInv, Contained
<1>13. Referenced'
  <2>1. \A t \in Templates : rows'[t] = rows[t]
    BY <1>2, <1>4 DEF Names
  <2>2. /\ \A s \in Servers : \A t \in uses[s] \ deleted : rows[t] # {}
        /\ \A q \in Actors : pc[q] # "policy"
    BY <1>2 DEF IInv, Referenced
  <2>3. \A s \in Servers : uses[s] \subseteq Templates
    BY <1>1 DEF Typed
  <2>4. \A q \in Actors : pc'[q] # "policy"
    BY <2>2 DEF Same
  <2> QED BY <2>1, <2>2, <2>3, <2>4 DEF Referenced
<1> QED BY <1>6, <1>7, <1>8, <1>9, <1>10, <1>12, <1>13 DEF IInv

LEMMA SeedRowStep == ASSUME IInv, NEW p \in Actors, SeedRow(p) PROVE IInv'
<1> DEFINE n == req[p].name
<1>1. /\ pc[p] = "insert" /\ req[p].op = "seed"
      /\ UNCHANGED <<up, audit, file, uses, wired, was, running, left, lost, deleted>>
  BY DEF SeedRow, nginx
<1>2. Typed /\ Control(p) /\ Writes(p) /\ req[p] \in Calls
  BY <1>1 DEF IInv, Typed, Control
<1>3. CASE Leave(p, "ERROR") /\ UNCHANGED <<rows, past, spoilt>>
  BY <1>1, <1>3, LeaveStep DEF store, nginx, history
<1>4. ~up /\ n \in Cores /\ n \in Names /\ pend[p] = NoWrites
  <2>1. ~Writing(p)
    BY <1>1 DEF Writing
  <2> QED BY <1>1, <1>2, <2>1, CallKinds, RuleSetsAssumptions DEF Control, Writes
<1>5. ASSUME rows' = [rows EXCEPT ![n] = @ \cup {new[p]}],
             past' = [past EXCEPT ![n] = @ \cup {Factory}]
      PROVE  /\ DOMAIN rows' = Names /\ DOMAIN past' = Names
             /\ \A m \in Names : rows[m] \subseteq rows'[m]
  BY <1>2, <1>4, <1>5 DEF Typed
<1>6. ASSUME rows' = [rows EXCEPT ![n] = @ \cup {new[p]}],
             past' = [past EXCEPT ![n] = @ \cup {Factory}], Goto(p, "truncate"),
             UNCHANGED <<seeded, req, outcome, new, pend, lock, reply, spoilt>>
      PROVE  IInv'
  <2>1. pc'[p] = "truncate" /\ pc' \in [Actors -> Labels]
        /\ \A q \in Actors \ {p} : pc'[q] = pc[q]
    BY <1>2, <1>6, GotoEffect DEF Labels, InTxn
  <2>2. \A q \in Actors \ {p} : Same(q)
    BY <1>6, <2>1 DEF Same
  <2>3. Typed'
    BY <1>1, <1>2, <1>5, <1>6, <2>1 DEF Typed
  <2>4. Control(p)'
    BY <1>1, <1>2, <1>6, <2>1 DEF Control, InTxn
  <2>5. Seeded'
    <3>1. \A c \in seeded : c \in Names
      BY <1>2, RuleSetsAssumptions DEF Typed, Names
    <3> QED BY <1>1, <1>4, <1>5, <1>6, <3>1 DEF IInv, Seeded
  <2> QED BY <1>1, <1>6, <2>1, <2>2, <2>3, <2>4, <2>5, Stored
<1>7. ASSUME rows' = [rows EXCEPT ![n] = @ \cup {new[p]}],
             past' = [past EXCEPT ![n] = @ \cup {Factory}], Leave(p, "ERROR"),
             spoilt' = spoilt \cup {n}
      PROVE  IInv'
  <2>1. pc'[p] = "idle" /\ pend'[p] = NoWrites /\ \A q \in Actors \ {p} : Same(q)
    BY <1>1, <1>2, <1>7, LeaveEffect
  <2>2. Typed'
    BY <1>1, <1>2, <1>5, <1>7, LeaveEffect DEF Typed
  <2>3. Control(p)'
    BY <1>1, <1>2, <1>7, LeaveMine DEF Mine
  <2>4. Seeded'
    BY <1>1, <1>4, <1>7 DEF Leave, Seeded
  <2> QED BY <1>1, <1>4, <1>7, <2>1, <2>2, <2>3, <2>4, Stored
<1> QED BY <1>3, <1>6, <1>7 DEF SeedRow

----------------------------------------------------------------------------
(* The files *)

\* One file changes, under the lock of its template or not.
LEMMA TemplateFileStep ==
  ASSUME IInv, NEW p \in Actors, Typed', \A q \in Actors \ {p} : Same(q),
         pc[p] \in {"truncate", "write", "unlink"}, NEW t \in Templates, req[p].name = t,
         NEW label \in {"write", "commit"}, pc'[p] = label, UNCHANGED req,
         NEW rules \in Rules \cup {None, Torn}, file' = [file EXCEPT ![t] = rules],
         label = "commit" => rules = IF req[p].op = "delete" THEN None ELSE new[p].rules,
         rules \in {None, Torn} \/ (pc'[p] = "commit" /\ req[p].op # "delete" /\ rules = new[p].rules),
         UNCHANGED <<rows, new, past, left, spoilt, lost, running>>
  PROVE  /\ \A t2 \in Templates : TemplateFile(t2)'
         /\ \A c \in Cores : CoreFile(c)'
         /\ Contained'
<1>1. /\ p # Boot /\ req[p].op # "seed" /\ pc[p] \in InTxn
  <2>1. Control(p) /\ req[p] \in Calls
    BY DEF IInv, Control, Typed
  <2>2. req[p].op # "seed"
    BY <2>1, CallKinds, RuleSetsAssumptions
  <2> QED BY <2>1, <2>2, CallKinds DEF Control, InTxn
<1>2. /\ DOMAIN file = Templates \cup Cores /\ file'[t] = rules
      /\ \A n \in (Templates \cup Cores) \ {t} : file'[n] = file[n]
  BY DEF IInv, Typed
<1>3. ASSUME NEW t2 \in Templates PROVE TemplateFile(t2)'
  <2>1. Newest(t2)' = Newest(t2) /\ TemplateFile(t2)
    BY SameRows DEF IInv
  <2>2. CASE t2 = t
    <3>1. ASSUME t \notin lost, NEW q \in Actors \ {p}, pc'[q] = "commit", req'[q].name = t
          PROVE  FALSE
      BY <1>1, <3>1, Exclusive DEF Same, InTxn
    <3> QED BY <1>2, <2>2, <3>1 DEF TemplateFile
  <2>3. CASE t2 # t
    <3>1. \A q \in Actors : req[q].name = t2 =>
            (pc'[q] \in {"write", "commit"} <=> pc[q] \in {"write", "commit"})
            /\ (pc'[q] = "commit" => pc[q] = "commit")
      BY <2>3 DEF Same
    <3> QED BY <1>2, <2>1, <2>3, <3>1 DEF TemplateFile
  <2> QED BY <2>2, <2>3
<1>4. ASSUME NEW c \in Cores PROVE CoreFile(c)'
  <2>1. CoreFile(c) /\ file'[c] = file[c]
    BY <1>2, RuleSetsAssumptions DEF IInv
  <2>2. pc'[Boot] = pc[Boot] /\ req'[Boot] = req[Boot]
    BY <1>1 DEF Same, Actors
  <2> QED BY <2>1, <2>2 DEF CoreFile
<1>5. ASSUME NEW t2 \in Templates, NEW r2, Recorded(t2, r2) PROVE Recorded(t2, r2)'
  BY <1>5, SameRecorded
<1>6. Contained'
  <2>1. p \in Procs
    BY <1>1 DEF Actors
  <2>2. file'[t] \in {None, Torn} \/ Recorded(t, file[t])'
    BY <1>2, <2>1 DEF Recorded
  <2>3. ASSUME NEW t2 \in Templates PROVE file'[t2] \in {None, Torn} \/ Recorded(t2, file[t2])'
    BY <1>2, <1>5, <2>2 DEF IInv, Contained
  <2> QED BY <1>5, <2>3 DEF IInv, Contained
<1> QED BY <1>3, <1>4, <1>6

\* The start writes the managed file of a core set.
LEMMA CoreFileStep ==
  ASSUME IInv, NEW p \in Actors, \A q \in Actors \ {p} : Same(q),
         pc[p] \in {"truncate", "write"}, req[p].op = "seed",
         NEW rules, file' = [file EXCEPT ![req[p].name] = rules],
         \/ pc'[p] = "write" /\ UNCHANGED req
         \/ pc'[p] = "idle" /\ rules = Factory,
         UNCHANGED <<rows, past, left, spoilt, lost, running>>
  PROVE  /\ \A t \in Templates : TemplateFile(t)'
         /\ \A c \in Cores : CoreFile(c)'
         /\ Contained'
<1>1. /\ p = Boot /\ req[p].name \in Cores /\ req[p].name \notin Templates
      /\ \A q \in Actors \ {p} : pc[q] = "idle"
  <2>1. req[p] \in Calls /\ pc[p] # "idle"
    BY DEF IInv, Typed, Control
  <2> QED BY <2>1, CallKinds, SeedsAlone, RuleSetsAssumptions
<1>2. /\ DOMAIN file = Templates \cup Cores /\ file'[req[p].name] = rules
      /\ \A n \in (Templates \cup Cores) \ {req[p].name} : file'[n] = file[n]
  BY <1>1 DEF IInv, Typed
<1>3. ASSUME NEW t \in Templates PROVE TemplateFile(t)'
  <2>1. Newest(t)' = Newest(t) /\ TemplateFile(t) /\ file'[t] = file[t]
    BY <1>1, <1>2, SameRows DEF IInv
  <2>2. \A q \in Actors : ~(pc[q] \in {"write", "commit"} /\ req[q].name = t)
    BY <1>1
  <2>3. \A q \in Actors : pc'[q] # "commit"
    BY <1>1 DEF Same
  <2> QED BY <2>1, <2>2, <2>3 DEF TemplateFile
<1>4. ASSUME NEW c \in Cores PROVE CoreFile(c)'
  BY <1>1, <1>2 DEF IInv, CoreFile
<1>5. ASSUME NEW t \in Templates, NEW r2, Recorded(t, r2) PROVE Recorded(t, r2)'
  BY <1>5, SameRecorded
<1>6. Contained'
  BY <1>1, <1>2, <1>5 DEF IInv, Contained
<1> QED BY <1>3, <1>4, <1>6

\* On from one file operation to the next.
LEMMA FileMove ==
  ASSUME IInv, NEW p \in Actors, pc[p] \in {"truncate", "write", "unlink"},
         NEW label \in {"write", "commit"}, Goto(p, label),
         NEW rules \in Rules \cup {None, Torn},
         req[p].name \in Templates \cup Cores,
         file' = [file EXCEPT ![req[p].name] = rules],
         UNCHANGED <<up, seeded, req, outcome, new, pend, lock, store, nginx, left, spoilt, lost>>,
         deleted' = deleted \/ deleted' = deleted \cup {req[p].name},
         label = "write" => pc[p] = "truncate",
         label = "commit" => /\ req[p].op \in {"create", "rollback", "delete"}
                             /\ req[p].op = "delete" => req[p].name \in deleted',
         \A t \in Templates : TemplateFile(t)', \A c \in Cores : CoreFile(c)', Contained'
  PROVE  IInv'
<1>1. UNCHANGED <<rows, audit, past, uses, wired, was, running>>
  BY DEF store, nginx
<1>2. Typed /\ Control(p) /\ Writes(p) /\ InOrder(p)
  BY DEF IInv
<1>3. pc'[p] = label /\ pc' \in [Actors -> Labels] /\ \A q \in Actors \ {p} : pc'[q] = pc[q]
  BY <1>2, GotoEffect DEF Labels, InTxn
<1>4. \A q \in Actors \ {p} : Same(q)
  BY <1>3 DEF Same
<1>5. Typed'
  <2>1. file' \in [Templates \cup Cores -> Rules \cup {None, Torn}]
    BY <1>2 DEF Typed
  <2> QED BY <1>1, <1>2, <1>3, <2>1 DEF Typed
<1>6. Control(p)'
  BY <1>2, <1>3 DEF Control, InTxn
<1>7. Writing(p)' <=> Writing(p)
  BY <1>2, <1>3 DEF Writing, Control
<1>8. Writes(p)' /\ InOrder(p)'
  BY <1>1, <1>2, <1>3, <1>7 DEF Writes, InOrder, InTxn, Numbers
<1>9. \A a, b \in Actors : Apart(a, b)'
  BY <1>4, <1>7, SameApart
<1>10. deleted \subseteq deleted' /\ Seeded' /\ Referenced'
  BY <1>1, <1>3, <1>4, SameSeeded, SameReferences
<1> QED BY <1>1, <1>4, <1>5, <1>6, <1>8, <1>9, <1>10, Frame DEF Mine

LEMMA TruncateStep == ASSUME IInv, NEW p \in Actors, Truncate(p) PROVE IInv'
<1>1. pc[p] = "truncate" /\ UNCHANGED <<up, store, nginx>>
  BY DEF Truncate
<1>2. Typed /\ Control(p) /\ req[p] \in Calls
  BY <1>1 DEF IInv, Typed, Control
<1>3. req[p].name \in Templates \cup Cores
  BY <1>1, <1>2, CallKinds DEF Control
<1>4. CASE Abort(p) /\ UNCHANGED <<file, lost, deleted>>
  BY <1>1, <1>4, AbortStep
<1>5. ASSUME file' = [file EXCEPT ![req[p].name] = Torn], Goto(p, "write"),
             UNCHANGED <<seeded, req, outcome, new, pend, lock, reply, history>>
      PROVE  IInv'
  <2>1. UNCHANGED <<rows, past, running, left, spoilt, lost, deleted>>
    BY <1>1, <1>5 DEF store, nginx, history
  <2>2. pc'[p] = "write" /\ \A q \in Actors \ {p} : pc'[q] = pc[q]
    BY <1>2, <1>5, GotoEffect DEF Labels, InTxn
  <2>3. \A q \in Actors \ {p} : Same(q)
    BY <1>5, <2>2 DEF Same
  <2>4. (\A t \in Templates : TemplateFile(t)') /\ (\A c \in Cores : CoreFile(c)') /\ Contained'
    <3>1. CASE req[p].op = "seed"
      BY <1>1, <1>5, <2>1, <2>2, <2>3, <3>1, CoreFileStep
    <3>2. CASE req[p].op # "seed"
      <4>1. req[p].name \in Templates
        BY <1>1, <1>2, <3>2 DEF Control
      <4>2. Typed'
        <5>1. /\ file' \in [Templates \cup Cores -> Rules \cup {None, Torn}]
              /\ pc' \in [Actors -> Labels]
          BY <1>2, <1>5, GotoEffect DEF Typed, Labels, InTxn
        <5> QED BY <1>1, <1>2, <1>5, <2>1, <5>1 DEF Typed, store, nginx
      <4> QED BY <1>1, <1>5, <2>1, <2>2, <2>3, <4>1, <4>2, TemplateFileStep
    <3> QED BY <3>1, <3>2
  <2> QED BY <1>1, <1>3, <1>5, <2>1, <2>4, FileMove
<1> QED BY <1>4, <1>5 DEF Truncate

LEMMA WriteStep == ASSUME IInv, NEW p \in Actors, Write(p) PROVE IInv'
<1> DEFINE n == req[p].name
<1>1. pc[p] = "write" /\ UNCHANGED <<up, store, nginx>>
  BY DEF Write
<1>2. Typed /\ Control(p) /\ Writes(p) /\ req[p] \in Calls
  BY <1>1 DEF IInv, Typed, Control
<1>3. /\ n \in Templates \cup Cores
      /\ req[p].op \in {"seed", "create", "rollback"} /\ Contents(n) = Rules \ Malformed
      /\ new[p] \in Versions(n) /\ new[p].rules \in Rules
      /\ req[p].op = "seed" => new[p].rules = Factory /\ rows[n] # {}
      /\ req[p].op # "seed" => n \in Templates
  <2>1. req[p].op \in {"seed", "create", "rollback"} /\ n \in Templates \cup Cores
    BY <1>1, <1>2, CallKinds DEF Control
  <2>2. Contents(n) = Rules \ Malformed /\ new[p] \in Versions(n)
    BY <1>1, <1>2, <2>1, ContentsOf DEF Writes, InTxn
  <2> QED BY <1>1, <1>2, <2>1, <2>2 DEF Control, Writes, Versions, Factories, InTxn
<1>4. CASE Abort(p) /\ UNCHANGED <<file, lost, deleted>>
  BY <1>1, <1>4, AbortStep
<1>5. ASSUME file' = [file EXCEPT ![n] = new[p].rules], req[p].op = "seed", Leave(p, "OK"),
             UNCHANGED history
      PROVE  IInv'
  <2>1. UNCHANGED <<rows, audit, past, uses, wired, was, running, left, spoilt, lost, deleted>>
    BY <1>1, <1>5 DEF store, nginx, history
  <2>2. /\ pc'[p] = "idle" /\ \A q \in Actors \ {p} : Same(q)
    BY <1>2, <1>5, LeaveEffect
  <2>3. Typed'
    <3>1. file' \in [Templates \cup Cores -> Rules \cup {None, Torn}]
      BY <1>2, <1>3, <1>5 DEF Typed
    <3> QED BY <1>1, <1>2, <1>5, <2>1, <3>1, LeaveEffect DEF Typed
  <2>4. (\A t \in Templates : TemplateFile(t)') /\ (\A c \in Cores : CoreFile(c)') /\ Contained'
    BY <1>1, <1>3, <1>5, <2>1, <2>2, CoreFileStep
  <2>5. Mine(p)' /\ (\A a, b \in Actors : Apart(a, b)') /\ Seeded'
    BY <1>1, <1>2, <1>3, <1>5, <2>1, LeaveMine, LeaveSeeded
  <2>6. Referenced'
    BY <2>1, <2>2, SameReferences
  <2> QED BY <1>1, <2>1, <2>2, <2>3, <2>4, <2>5, <2>6, Frame
<1>6. ASSUME file' = [file EXCEPT ![n] = new[p].rules], req[p].op # "seed", Goto(p, "commit"),
             UNCHANGED <<seeded, req, outcome, new, pend, lock, reply, history>>
      PROVE  IInv'
  <2>1. UNCHANGED <<rows, past, running, left, spoilt, lost, deleted>>
    BY <1>1, <1>6 DEF store, nginx, history
  <2>2. pc'[p] = "commit" /\ \A q \in Actors \ {p} : pc'[q] = pc[q]
    BY <1>2, <1>6, GotoEffect DEF Labels, InTxn
  <2>3. \A q \in Actors \ {p} : Same(q)
    BY <1>6, <2>2 DEF Same
  <2>4. Typed'
    <3>1. /\ file' \in [Templates \cup Cores -> Rules \cup {None, Torn}]
          /\ pc' \in [Actors -> Labels]
      BY <1>2, <1>3, <1>6, GotoEffect DEF Typed, Labels, InTxn
    <3> QED BY <1>1, <1>2, <1>6, <2>1, <3>1 DEF Typed, store, nginx
  <2>5. (\A t \in Templates : TemplateFile(t)') /\ (\A c \in Cores : CoreFile(c)') /\ Contained'
    BY <1>1, <1>3, <1>6, <2>1, <2>2, <2>3, <2>4, TemplateFileStep
  <2> QED BY <1>1, <1>3, <1>6, <2>1, <2>5, FileMove
<1> QED BY <1>4, <1>5, <1>6 DEF Write

LEMMA UnlinkStep == ASSUME IInv, NEW p \in Actors, Unlink(p) PROVE IInv'
<1> DEFINE n == req[p].name
<1>1. pc[p] = "unlink" /\ UNCHANGED <<up, store, nginx, lost>>
  BY DEF Unlink
<1>2. Typed /\ Control(p) /\ req[p] \in Calls /\ req[p].op = "delete" /\ n \in Templates
  <2>1. Typed /\ Control(p) /\ req[p] \in Calls
    BY <1>1 DEF IInv, Typed, Control
  <2> QED BY <1>1, <2>1, CallKinds DEF Control
<1>3. CASE Abort(p) /\ UNCHANGED <<file, deleted>>
  BY <1>1, <1>3, AbortStep
<1>4. ASSUME file' = [file EXCEPT ![n] = None], deleted' = deleted \cup {n}, Goto(p, "commit"),
             UNCHANGED <<seeded, req, outcome, new, pend, lock, reply, left, spoilt>>
      PROVE  IInv'
  <2>1. UNCHANGED <<rows, past, running, left, spoilt, lost>>
    BY <1>1, <1>4 DEF store, nginx
  <2>2. pc'[p] = "commit" /\ \A q \in Actors \ {p} : pc'[q] = pc[q]
    BY <1>2, <1>4, GotoEffect DEF Labels, InTxn
  <2>3. \A q \in Actors \ {p} : Same(q)
    BY <1>4, <2>2 DEF Same
  <2>4. Typed'
    <3>1. /\ file' \in [Templates \cup Cores -> Rules \cup {None, Torn}]
          /\ pc' \in [Actors -> Labels]
      BY <1>2, <1>4, GotoEffect DEF Typed, Labels, InTxn
    <3> QED BY <1>1, <1>2, <1>4, <2>1, <3>1 DEF Typed, store, nginx
  <2>5. (\A t \in Templates : TemplateFile(t)') /\ (\A c \in Cores : CoreFile(c)') /\ Contained'
    BY <1>1, <1>2, <1>4, <2>1, <2>2, <2>3, <2>4, TemplateFileStep
  <2> QED BY <1>1, <1>2, <1>4, <2>1, <2>5, FileMove
<1> QED BY <1>3, <1>4 DEF Unlink

\* The process dies.
LEMMA CrashStep == ASSUME IInv, Crash PROVE IInv'
<1> USE RuleSetsAssumptions
<1>1. /\ up' = FALSE /\ seeded' = {} /\ pc' = [p \in Actors |-> "idle"]
      /\ req' = [p \in Actors |-> None] /\ outcome' = [p \in Actors |-> "SUCCESS"]
      /\ new' = [p \in Actors |-> NoRow] /\ pend' = [p \in Actors |-> NoWrites]
      /\ lock' = [k \in Names \cup {Global} |-> None] /\ was' = [p \in Actors |-> None]
      /\ spoilt' = spoilt \cup {req[p].name : p \in {q \in Actors : Touching(q)}}
      /\ left' = [n \in Names |-> left[n] \cup Written(n, Actors)]
      /\ UNCHANGED <<rows, audit, past, file, uses, wired, running, lost, deleted>>
  BY DEF Crash, store
<1>2. Typed
  BY DEF IInv
<1>3. Typed'
  <2>1. /\ pc' \in [Actors -> Labels] /\ req' \in [Actors -> Calls \cup {None}]
        /\ outcome' \in [Actors -> Statuses]
        /\ lock' \in [Names \cup {Global} -> Actors \cup {None}]
        /\ was' \in [Actors -> (SUBSET Servers) \cup {None}]
    BY <1>1 DEF Labels, Statuses
  <2>2. \A p \in Actors : /\ new'[p] \in [no : Nat, rules : Rules \cup Statuses \cup {None}]
                          /\ pend'[p] = [ins |-> pend'[p].ins, del |-> pend'[p].del]
    BY <1>1 DEF NoRow, NoWrites
  <2> QED BY <1>1, <1>2, <2>1, <2>2 DEF Typed
<1>4. \A p \in Actors : Control(p)' /\ Writes(p)' /\ InOrder(p)' /\ \A q \in Actors : Apart(p, q)'
  BY <1>1 DEF Control, Writes, InOrder, Apart, Writing, InTxn
<1>5. \A n \in Names : Table(n)'
  BY <1>1, SameRows DEF IInv, Table, Versions, Contents
<1>6. ASSUME NEW t \in Templates PROVE TemplateFile(t)'
  <2>1. Newest(t)' = Newest(t) /\ TemplateFile(t)
    BY <1>1, SameRows DEF IInv
  <2>2. \A q \in Actors : pc[q] \in {"write", "commit"} /\ req[q].name = t => t \in spoilt'
    BY <1>1 DEF Touching
  <2> QED BY <1>1, <2>1, <2>2 DEF TemplateFile
<1>7. ASSUME NEW c \in Cores PROVE CoreFile(c)'
  <2>1. CoreFile(c) /\ Boot \in Actors
    BY DEF IInv, Actors
  <2> QED BY <1>1, <2>1 DEF CoreFile, Touching
<1>8. ASSUME NEW t \in Templates, NEW rules, Recorded(t, rules) PROVE Recorded(t, rules)'
  <2>1. t \in Names /\ left'[t] = left[t] \cup Written(t, Actors)
    BY <1>1 DEF Names
  <2> QED BY <1>1, <1>8, <2>1 DEF Recorded, Written, Actors
<1>9. Seeded' /\ Contained' /\ Referenced'
  BY <1>1, <1>8 DEF IInv, Seeded, Contained, Referenced
<1> QED BY <1>3, <1>4, <1>5, <1>6, <1>7, <1>9 DEF IInv

\* A lock is lost, and with it what only the lock ensured.
LEMMA SessionLossStep == ASSUME IInv, SessionLoss PROVE IInv'
<1>1. UNCHANGED <<up, seeded, pc, req, outcome, new, pend, rows, audit, past, file, uses, wired,
                  was, running, left, spoilt, deleted>>
  BY DEF SessionLoss, store, nginx
<1>2. PICK k \in Names \cup {Global} : lock' = [lock EXCEPT ![k] = None] /\ lost' = lost \cup {k}
  BY DEF SessionLoss
<1>3. Typed
  BY DEF IInv
<1>4. Typed'
  BY <1>1, <1>2, <1>3 DEF Typed
<1>5. ASSUME NEW p \in Actors PROVE Control(p)'
  <2>1. Control(p) /\ (pc[p] # "idle" => req[p].name \in Names)
    BY <1>3, CallKinds DEF IInv, Control, Typed
  <2>2. pc[p] # "idle" /\ lock[req[p].name] = p =>
          lock'[req[p].name] = p \/ req[p].name \in lost'
    BY <1>2, <1>3, <2>1 DEF Typed
  <2> QED BY <1>1, <1>2, <2>1, <2>2 DEF Control, InTxn
<1>6. ASSUME NEW p \in Actors
      PROVE  Writes(p)' /\ InOrder(p)' /\ \A q \in Actors : Apart(p, q)'
  BY <1>1, <1>2 DEF IInv, Writes, InOrder, Apart, Writing, Touched, Numbers, Versions, Contents
<1>7. \A n \in Names : Table(n)'
  BY <1>1, <1>2, SameRows DEF IInv, Table, Versions, Contents
<1>8. \A t \in Templates : TemplateFile(t)'
  BY <1>1, <1>2, SameRows DEF IInv, TemplateFile
<1>9. (\A c \in Cores : CoreFile(c)') /\ Seeded'
  BY <1>1 DEF IInv, CoreFile, Seeded
<1>10. Contained' /\ Referenced'
  BY <1>1 DEF IInv, Contained, Recorded, Referenced
<1> QED BY <1>4, <1>5, <1>6, <1>7, <1>8, <1>9, <1>10 DEF IInv

----------------------------------------------------------------------------
(* The commit *)

\* A version more.
LEMMA TableGrows ==
  ASSUME NEW n \in Names, Table(n), audit[n] \in Int, lost' = lost, NEW r \in Versions(n),
         r.no \notin Numbers(n), n \notin lost => r.no = Cardinality(rows[n]) + 1,
         n \in Cores => rows[n] # {},
         rows'[n] = rows[n] \cup {r}, audit'[n] = audit[n] + 1, past'[n] = past[n] \cup {r.rules}
  PROVE  Table(n)' /\ (n \notin lost => Newest(n)' = r.rules)
<1>1. /\ rows[n] \subseteq Versions(n) /\ IsFiniteSet(rows[n])
      /\ \A r1, r2 \in rows[n] : r1.no = r2.no => r1 = r2
      /\ \A r1 \in rows[n] : r1.no # r.no
  BY DEF Table, Numbers
<1>2. /\ IsFiniteSet(rows'[n]) /\ Cardinality(rows'[n]) = Cardinality(rows[n]) + 1
      /\ Cardinality(rows[n]) \in Nat
  BY <1>1, FS_AddElement, FS_CardinalityType
<1>3. /\ rows'[n] \subseteq Versions(n) /\ r \in rows'[n] /\ rows'[n] # {}
      /\ \A r1, r2 \in rows'[n] : r1.no = r2.no => r1 = r2
  BY <1>1
<1>4. {x.no : x \in rows'[n]} = Numbers(n) \cup {r.no}
  BY DEF Numbers
<1>5. n \notin lost => {x.no : x \in rows'[n]} = 1..Cardinality(rows'[n])
  <2>1. n \notin lost => Numbers(n) = 1..Cardinality(rows[n])
    BY DEF Table
  <2> QED BY <1>2, <1>4, <2>1
<1>6. Cardinality(rows'[n]) = audit'[n] + IF n \in Cores /\ rows'[n] # {} THEN 1 ELSE 0
  <2>1. CASE n \in Cores
    <3>1. Cardinality(rows[n]) = audit[n] + 1
      BY <2>1 DEF Table
    <3> QED BY <1>2, <1>3, <2>1, <3>1
  <2>2. CASE n \notin Cores
    <3>1. Cardinality(rows[n]) = audit[n] + 0
      BY <2>2 DEF Table
    <3> QED BY <1>2, <2>2, <3>1
  <2> QED BY <2>1, <2>2
<1>7. n \in Cores => Factories \in rows'[n]
  BY DEF Table
<1>8. \A x \in rows'[n] : x.rules \in past'[n]
  BY DEF Table
<1>9. Table(n)'
  <2>1. Versions(n)' = Versions(n)
    BY DEF Versions, Contents
  <2>2. n \notin lost' => Numbers(n)' = 1..Cardinality(rows'[n])
    BY <1>5 DEF Numbers
  <2>3. (rows[n] \subseteq Versions(n) /\ IsFiniteSet(rows[n]))'
    BY <1>2, <1>3, <2>1
  <2>4. (\A r1, r2 \in rows[n] : r1.no = r2.no => r1 = r2)'
    BY <1>3
  <2>5. (n \in Cores /\ rows[n] # {} => Factories \in rows[n])'
    BY <1>7
  <2>6. (\A x \in rows[n] : x.rules \in past[n])'
    BY <1>8
  <2>7. (Cardinality(rows[n]) = audit[n] + IF n \in Cores /\ rows[n] # {} THEN 1 ELSE 0)'
    BY <1>6
  <2> QED BY <2>2, <2>3, <2>4, <2>5, <2>6, <2>7 DEF Table
<1>10. ASSUME n \notin lost PROVE Newest(n)' = r.rules
  <2>1. /\ IsFiniteSet(rows'[n]) /\ r \in rows'[n] /\ r.no = Cardinality(rows'[n])
        /\ \A x \in rows'[n] : x.no = r.no => x = r
    BY <1>2, <1>3, <1>10
  <2>2. (CHOOSE x \in rows'[n] : x.no = Max({y.no : y \in rows'[n]})) = r
    BY <1>5, <1>10, <2>1, NewestOf
  <2> QED BY <1>3, <2>2 DEF Newest, Row, Numbers
<1> QED BY <1>9, <1>10

\* All versions go, or, when the lock was lost, those that were there.
LEMMA TableShrinks ==
  ASSUME NEW n \in Templates, Table(n), audit[n] \in Int, lost' = lost,
         NEW del \in SUBSET rows[n], n \notin lost => del = rows[n],
         rows'[n] = rows[n] \ del, audit'[n] = audit[n] - Cardinality(del), past'[n] = past[n]
  PROVE  Table(n)' /\ (n \notin lost => Newest(n)' = None)
<1>1. n \notin Cores /\ IsFiniteSet(rows[n]) /\ IsFiniteSet(del)
  BY FS_Subset, RuleSetsAssumptions DEF Table
<1>2. /\ IsFiniteSet(rows'[n]) /\ Cardinality(del) \in Nat /\ Cardinality(rows[n]) \in Nat
      /\ Cardinality(rows'[n]) = Cardinality(rows[n]) - Cardinality(del)
  <2>1. rows[n] \cap del = del
    OBVIOUS
  <2>2. /\ IsFiniteSet(rows[n] \ del)
        /\ Cardinality(rows[n] \ del) = Cardinality(rows[n]) - Cardinality(rows[n] \cap del)
    BY <1>1, FS_Difference
  <2>3. Cardinality(del) \in Nat /\ Cardinality(rows[n]) \in Nat
    BY <1>1, FS_CardinalityType
  <2> QED BY <2>1, <2>2, <2>3
<1>3. Cardinality(rows[n]) = audit[n] + 0
  BY <1>1 DEF Table
<1>4. Cardinality(rows'[n]) = audit'[n] + 0
  BY <1>2, <1>3
<1>5. n \notin lost => rows'[n] = {} /\ {x.no : x \in rows'[n]} = 1..Cardinality(rows'[n])
  <2>1. n \notin lost => rows'[n] = {} /\ Cardinality(rows'[n]) = 0
    BY FS_EmptySet
  <2> QED BY <2>1
<1>6. /\ rows'[n] \subseteq Versions(n) /\ \A r \in rows'[n] : r.rules \in past'[n]
      /\ \A r1, r2 \in rows'[n] : r1.no = r2.no => r1 = r2
  BY DEF Table
<1>7. Table(n)'
  BY <1>1, <1>2, <1>4, <1>5, <1>6 DEF Table, Numbers, Versions, Contents
<1> QED BY <1>5, <1>7 DEF Newest

\* The writes of a transaction become the rows of its name.
Committing(p) ==
  LET n == req[p].name
      w == pend[p]
  IN
  /\ pc[p] = "commit"
  /\ rows' = [rows EXCEPT ![n] = (@ \ w.del) \cup w.ins]
  /\ audit' = [audit EXCEPT ![n] = @ + Cardinality(w.ins) - Cardinality(w.del)]
  /\ past' = [past EXCEPT ![n] = @ \cup {r.rules : r \in w.ins}]

LEMMA CommittedRows ==
  ASSUME IInv, NEW p \in Actors, Committing(p), lost' = lost, NEW n, n = req[p].name
  PROVE  /\ n \in Names /\ p # Boot /\ (n \in Cores => rows[n] # {})
         /\ DOMAIN rows' = Names /\ DOMAIN past' = Names /\ audit' \in [Names -> Int]
         /\ \A m \in Names \ {n} :
              rows'[m] = rows[m] /\ audit'[m] = audit[m] /\ past'[m] = past[m]
         /\ req[p].op # "delete" =>
              rows'[n] = rows[n] \cup {new[p]} /\ past'[n] = past[n] \cup {new[p].rules}
         /\ req[p].op = "delete" =>
              /\ n \in Templates /\ rows'[n] = rows[n] \ pend[p].del /\ past'[n] = past[n]
         /\ Table(n)'
         /\ n \notin lost =>
              Newest(n)' = IF req[p].op = "delete" THEN None ELSE new[p].rules
<1>1. /\ pc[p] = "commit" /\ Typed /\ Control(p) /\ Writes(p) /\ InOrder(p)
      /\ req[p] \in Calls /\ req[p].op \in {"create", "rollback", "publish", "delete"}
  BY DEF IInv, Typed, Control, Committing
<1>2. /\ n \in Names /\ Table(n) /\ audit[n] \in Int /\ Writing(p) /\ p # Boot
      /\ req[p].op = "delete" => n \in Templates
      /\ n \in Cores => rows[n] # {}
  <2>1. n \in Names /\ (req[p].op = "delete" => n \in Templates) /\ p # Boot
    BY <1>1, CallKinds DEF Control
  <2>2. n \in Cores => rows[n] # {}
    BY <1>1 DEF Writes, InTxn
  <2> QED BY <1>1, <2>1, <2>2 DEF IInv, Typed, Writing
<1>3. /\ DOMAIN rows' = Names /\ DOMAIN past' = Names
      /\ rows'[n] = (rows[n] \ pend[p].del) \cup pend[p].ins
      /\ audit'[n] = audit[n] + Cardinality(pend[p].ins) - Cardinality(pend[p].del)
      /\ past'[n] = past[n] \cup {r.rules : r \in pend[p].ins}
      /\ \A m \in Names \ {n} :
           rows'[m] = rows[m] /\ audit'[m] = audit[m] /\ past'[m] = past[m]
  BY <1>1, <1>2 DEF Committing, Typed
<1>4. CASE req[p].op = "delete"
  <2>1. /\ pend[p].ins = {} /\ pend[p].del \in SUBSET rows[n]
        /\ n \notin lost => pend[p].del = rows[n]
    BY <1>1, <1>2, <1>4 DEF Writes, InOrder, InTxn
  <2>2. Cardinality(pend[p].ins) = 0 /\ Cardinality(pend[p].del) \in Nat
    BY <1>2, <2>1, FS_EmptySet, FS_Subset, FS_CardinalityType DEF Table
  <2>3. /\ rows'[n] = rows[n] \ pend[p].del /\ past'[n] = past[n]
        /\ audit'[n] = audit[n] - Cardinality(pend[p].del) /\ audit'[n] \in Int
    BY <1>2, <1>3, <2>1, <2>2
  <2>4. audit' \in [Names -> Int]
    BY <1>1, <2>3 DEF Committing, Typed
  <2>5. Table(n)' /\ (n \notin lost => Newest(n)' = None)
    BY <1>2, <1>4, <2>1, <2>3, TableShrinks
  <2> QED BY <1>2, <1>3, <1>4, <2>3, <2>4, <2>5
<1>5. CASE req[p].op # "delete"
  <2>1. /\ pend[p].ins = {new[p]} /\ pend[p].del = {} /\ new[p] \in Versions(n)
        /\ new[p].no \notin Numbers(n)
        /\ n \notin lost => new[p].no = Cardinality(rows[n]) + 1
    BY <1>1, <1>2, <1>5 DEF Writes, InOrder, InTxn
  <2>2. Cardinality(pend[p].ins) = 1
    BY <2>1, FS_Singleton
  <2>3. Cardinality(pend[p].del) = 0
    BY <2>1, FS_EmptySet
  <2>4. /\ rows'[n] = rows[n] \cup {new[p]} /\ past'[n] = past[n] \cup {new[p].rules}
        /\ audit'[n] = audit[n] + 1 /\ audit'[n] \in Int
    BY <1>2, <1>3, <2>1, <2>2, <2>3
  <2>5. audit' \in [Names -> Int]
    BY <1>1, <2>4 DEF Committing, Typed
  <2>6. Table(n)' /\ (n \notin lost => Newest(n)' = new[p].rules)
    BY <1>2, <2>1, <2>4, TableGrows
  <2> QED BY <1>2, <1>3, <1>5, <2>4, <2>5, <2>6
<1> QED BY <1>4, <1>5

\* Another transaction finds its writes still consistent with the table.
LEMMA OthersGoOn ==
  ASSUME IInv, NEW p \in Actors, Committing(p), UNCHANGED <<up, lost, deleted>>,
         NEW q \in Actors \ {p}, Same(q)
  PROVE  Mine(q)'
<1> PICK n : n = req[p].name
  OBVIOUS
<1>1. /\ n \in Names /\ p # Boot /\ (n \in Cores => rows[n] # {})
      /\ \A m \in Names \ {n} : rows'[m] = rows[m]
      /\ req[p].op # "delete" => rows'[n] = rows[n] \cup {new[p]}
      /\ req[p].op = "delete" => n \in Templates /\ rows'[n] = rows[n] \ pend[p].del
  BY CommittedRows
<1>2. Typed /\ Mine(q) /\ pc[p] = "commit" /\ Control(p) /\ Writes(p) /\ Apart(p, q)
  BY DEF IInv, Mine, Committing
<1>3. CASE ~(pc[q] \in InTxn /\ req[q].name = n)
  <2>1. pc[q] \in InTxn => req[q].name \in Names
    BY <1>2, CallKinds DEF Mine, Control, Typed, InTxn
  <2>2. pc[q] \in InTxn => rows'[req[q].name] = rows[req[q].name]
    BY <1>1, <1>3, <2>1
  <2> QED BY <1>2, <2>2, SameMine
<1>4. CASE pc[q] \in InTxn /\ req[q].name = n
  <2>1. n \in lost
    BY <1>2, <1>4, Exclusive DEF InTxn
  <2>2. req[q].op # "seed" /\ pc[q] # "idle"
    BY <1>2, <1>4, SeedsAlone DEF InTxn
  <2>3. Writing(p) /\ req[p].op # "seed"
    BY <1>2 DEF Control, Writing
  <2>4. (Writing(q)' <=> Writing(q)) /\ Touched(q) = pend[q].ins \cup pend[q].del
    BY DEF Same, Writing, Touched
  <2>5. Control(q)'
    BY <1>2, <1>4, <2>1 DEF Mine, Control, Same
  <2>6. n \in Cores => rows'[n] # {}
    BY <1>1, RuleSetsAssumptions
  <2>7. ASSUME Writing(q), req[q].op = "delete"
        PROVE  pend[q].ins = {} /\ pend[q].del \subseteq rows'[n]
    <3>1. pend[q].ins = {} /\ pend[q].del \subseteq rows[n]
      BY <1>2, <1>4, <2>7 DEF Mine, Writes
    <3>2. req[p].op = "delete" => \A r \in pend[p].del, r2 \in pend[q].del : r # r2
      BY <1>2, <1>4, <2>3, <2>7 DEF Apart, Touched
    <3> QED BY <1>1, <3>1, <3>2
  <2>8. ASSUME Writing(q), req[q].op # "delete"
        PROVE  /\ pend[q].ins = {new[q]} /\ pend[q].del = {}
               /\ \A r \in rows'[n] : r.no # new[q].no
    <3>1. pend[q].ins = {new[q]} /\ pend[q].del = {} /\ \A r \in rows[n] : r.no # new[q].no
      BY <1>2, <1>4, <2>8 DEF Mine, Writes, Numbers
    <3>2. req[p].op # "delete" => new[p].no # new[q].no
      BY <1>2, <1>4, <2>3, <2>8, <3>1 DEF Apart, Touched, Writes
    <3> QED BY <1>1, <3>1, <3>2
  <2>9. Writes(q)'
    BY <1>2, <1>4, <2>2, <2>4, <2>6, <2>7, <2>8
       DEF Mine, Writes, Same, Numbers, Versions, Contents
  <2>10. InOrder(q)'
    BY <1>4, <2>1 DEF InOrder, Same
  <2> QED BY <2>5, <2>9, <2>10 DEF Mine
<1> QED BY <1>3, <1>4

LEMMA CommitStep == ASSUME IInv, NEW p \in Actors, Commit(p) PROVE IInv'
<1> PICK n : n = req[p].name
  OBVIOUS
<1>1. pc[p] = "commit" /\ UNCHANGED <<up, file, nginx, lost, deleted>>
  BY DEF Commit
<1>2. /\ Typed /\ Control(p) /\ req[p] \in Calls
      /\ req[p].op \in {"create", "rollback", "publish", "delete"}
  BY <1>1 DEF IInv, Typed, Control
<1>3. CASE Abort(p) /\ UNCHANGED store
  BY <1>1, <1>3, AbortStep
<1>4. ASSUME NEW status, Leave(p, status), Committing(p),
             spoilt' = spoilt \ ({n} \cap Templates), UNCHANGED left
      PROVE  IInv'
  <2>1. /\ n \in Names /\ p # Boot /\ (n \in Cores => rows[n] # {})
        /\ DOMAIN rows' = Names /\ DOMAIN past' = Names /\ audit' \in [Names -> Int]
        /\ \A m \in Names \ {n} :
             rows'[m] = rows[m] /\ audit'[m] = audit[m] /\ past'[m] = past[m]
        /\ req[p].op # "delete" =>
             rows'[n] = rows[n] \cup {new[p]} /\ past'[n] = past[n] \cup {new[p].rules}
        /\ req[p].op = "delete" =>
             n \in Templates /\ rows'[n] = rows[n] \ pend[p].del /\ past'[n] = past[n]
        /\ Table(n)'
        /\ n \notin lost => Newest(n)' = IF req[p].op = "delete" THEN None ELSE new[p].rules
    BY <1>1, <1>4, CommittedRows
  <2>2. UNCHANGED <<uses, wired, was, running>>
    BY <1>1 DEF nginx
  <2>3. /\ pc'[p] \in {"idle", "done", "lock", "restore"} /\ \A q \in Actors \ {p} : Same(q)
        /\ req[p].op # "seed" => seeded' = seeded
    <3>1. req[p].op # "seed" => seeded' = seeded
      BY <1>4 DEF Leave
    <3> QED BY <1>2, <1>4, <3>1, LeaveEffect
  <2>4. Typed'
    BY <1>1, <1>2, <1>4, <2>1, <2>2, LeaveEffect DEF Typed
  <2>5. ASSUME NEW q \in Actors PROVE Control(q)' /\ Writes(q)' /\ InOrder(q)'
    <3>1. CASE q = p
      BY <1>1, <1>2, <1>4, <3>1, LeaveMine DEF Mine
    <3>2. CASE q # p
      BY <1>1, <1>4, <2>3, <3>2, OthersGoOn DEF Mine
    <3> QED BY <3>1, <3>2
  <2>6. \A a, b \in Actors : Apart(a, b)'
    BY <1>1, <1>2, <1>4, LeaveMine
  <2>7. ASSUME NEW m \in Names PROVE Table(m)'
    BY <1>1, <2>1, SameRows DEF IInv, Table, Versions, Contents
  <2>8. ASSUME NEW t \in Templates PROVE TemplateFile(t)'
    <3>1. t \in Names /\ TemplateFile(t)
      BY DEF IInv, Names
    <3>2. CASE t = n
      <4>1. ASSUME t \notin lost, NEW q \in Actors PROVE ~(pc'[q] = "commit" /\ req'[q].name = t)
        BY <1>1, <2>3, <3>2, <4>1, Exclusive DEF Same, InTxn
      <4>2. t \notin lost => file[t] = IF req[p].op = "delete" THEN None ELSE new[p].rules
        BY <1>1, <3>1, <3>2 DEF TemplateFile
      <4>3. t \notin lost => file'[t] = Newest(t)'
        BY <1>1, <2>1, <3>2, <4>2
      <4> QED BY <1>1, <4>1, <4>3 DEF TemplateFile
    <3>3. CASE t # n
      <4>1. Newest(t)' = Newest(t)
        BY <2>1, <3>1, <3>3, SameRows
      <4>2. \A q \in Actors : /\ pc'[q] \in {"write", "commit"} /\ req'[q].name = t
                                 <=> pc[q] \in {"write", "commit"} /\ req[q].name = t
                              /\ pc'[q] = "commit" /\ req'[q].name = t =>
                                   pc[q] = "commit" /\ req'[q] = req[q] /\ new'[q] = new[q]
        BY <2>3, <3>3 DEF Same
      <4> QED BY <1>1, <1>4, <3>1, <3>3, <4>1, <4>2 DEF TemplateFile
    <3> QED BY <3>2, <3>3
  <2>9. ASSUME NEW c \in Cores PROVE CoreFile(c)'
    <3>1. c \in Names /\ c \notin Templates /\ CoreFile(c) /\ (c \in spoilt => c \in spoilt')
      BY <1>4, RuleSetsAssumptions DEF IInv, Names
    <3>2. rows'[c] # {} => rows[c] # {}
      BY <2>1, <3>1
    <3> QED BY <1>1, <2>1, <2>3, <3>1, <3>2 DEF CoreFile, Same, Actors
  <2>10. Seeded'
    <3>1. seeded' = seeded /\ (up => seeded = Shipped) /\ \A c \in seeded : rows[c] # {}
      BY <1>2, <2>3 DEF IInv, Seeded
    <3>2. \A c \in seeded : c \in Names /\ c \notin Templates
      BY <1>2, RuleSetsAssumptions DEF Typed, Names
    <3>3. \A c \in seeded : rows'[c] # {}
      BY <2>1, <3>1, <3>2
    <3> QED BY <1>1, <3>1, <3>3 DEF Seeded
  <2>11. ASSUME NEW t \in Templates, NEW rules, Recorded(t, rules) PROVE Recorded(t, rules)'
    <3>1. t \in Names /\ past[t] \subseteq past'[t]
      BY <2>1 DEF Names
    <3>2. CASE n = t /\ req[p].op # "delete" /\ rules = new[p].rules
      BY <2>1, <3>2 DEF Recorded
    <3>3. CASE ~(n = t /\ req[p].op # "delete" /\ rules = new[p].rules)
      BY <1>4, <2>3, <2>11, <3>1, <3>3 DEF Recorded, Same, Actors
    <3> QED BY <3>2, <3>3
  <2>12. Contained'
    BY <1>1, <2>2, <2>11 DEF IInv, Contained
  <2>13. Referenced'
    <3>1. \A t \in Templates \ deleted : rows[t] # {} => rows'[t] # {}
      BY <1>1, <1>2, <2>1 DEF Control, Names
    <3>2. ASSUME NEW s \in Servers, NEW t \in uses[s] \ deleted PROVE rows'[t] # {}
      BY <1>2, <3>1 DEF IInv, Referenced, Typed
    <3>3. ASSUME NEW q \in Actors, pc'[q] = "policy", NEW t \in (req'[q].uses \cap Templates) \ deleted
          PROVE  rows'[t] # {}
      <4>1. pc[q] = "policy" /\ req'[q] = req[q]
        BY <2>3, <3>3 DEF Same
      <4> QED BY <3>1, <3>3, <4>1 DEF IInv, Referenced
    <3> QED BY <1>1, <2>2, <3>2, <3>3 DEF Referenced
  <2> QED BY <2>4, <2>5, <2>6, <2>7, <2>8, <2>9, <2>10, <2>12, <2>13 DEF IInv
<1> QED BY <1>3, <1>4 DEF Commit, Committing

----------------------------------------------------------------------------
(* The theorems *)

LEMMA StutterStep == ASSUME IInv, UNCHANGED vars PROVE IInv'
<1>1. UNCHANGED <<up, seeded, pc, req, outcome, new, pend, lock, rows, audit, file, uses, wired,
                  was, running, past, left, spoilt, lost, deleted>>
  BY DEF vars, store, nginx, history
<1>2. Typed'
  BY <1>1 DEF IInv, Typed
<1>3. ASSUME NEW p \in Actors
      PROVE  Control(p)' /\ Writes(p)' /\ InOrder(p)' /\ \A q \in Actors : Apart(p, q)'
  BY <1>1 DEF IInv, Control, Writes, InOrder, Apart, Writing, Touched, Numbers, Versions, Contents
<1>4. \A n \in Names : Table(n)'
  BY <1>1, SameRows DEF IInv, Table, Versions, Contents
<1>5. \A t \in Templates : TemplateFile(t)'
  BY <1>1, SameRows DEF IInv, TemplateFile
<1>6. (\A c \in Cores : CoreFile(c)') /\ Seeded' /\ Contained' /\ Referenced'
  BY <1>1 DEF IInv, CoreFile, Seeded, Contained, Recorded, Referenced
<1> QED BY <1>2, <1>3, <1>4, <1>5, <1>6 DEF IInv

LEMMA InvStep == IInv /\ [Next]_vars => IInv'
<1> SUFFICES ASSUME IInv, [Next]_vars PROVE IInv'
  OBVIOUS
<1>1. ASSUME NEW p \in Procs, Submit(p) PROVE IInv'
  BY <1>1, SubmitStep
<1>2. ASSUME NEW p \in Actors, Step(p) PROVE IInv'
  BY <1>2, LockStep, LockTimeoutStep, ReadStep, InsertStep, DeleteStep, SeedRowStep, TruncateStep,
     WriteStep, UnlinkStep, CommitStep, CheckStep, PolicyStep, ReloadStep, FinishStep DEF Step
<1>3. CASE seedFactoryVersions
  BY <1>3, SeedStep
<1>4. CASE Crash
  BY <1>4, CrashStep
<1>5. CASE SessionLoss
  BY <1>5, SessionLossStep
<1>6. CASE UNCHANGED vars
  BY <1>6, StutterStep
<1> QED BY <1>1, <1>2, <1>3, <1>4, <1>5, <1>6 DEF Next

\* Open transactions of a name touch different numbers, and the holder of a lock
\* that was not lost knows the versions and the file: in every reachable state.
THEOREM Inductive == Spec => []IInv
<1>1. Init => IInv
  BY InvInit
<1>2. IInv /\ [Next]_vars => IInv'
  BY InvStep
<1> QED BY <1>1, <1>2, PTL DEF Spec

\* The values that the processes, the tables and the files hold.
THEOREM TypeCorrect == Spec => []TypeOK
<1>1. IInv => TypeOK
  <2> SUFFICES ASSUME IInv PROVE TypeOK
    OBVIOUS
  <2>1. \A p \in Actors : pc[p] = "idle" <=> req[p] = None
    BY DEF IInv, Control
  <2>2. ASSUME NEW n \in Names, NEW r \in rows[n]
        PROVE  r.no \in Nat \ {0} /\ r.rules \in Rules \cup Statuses
    BY ContentsOf DEF IInv, Table, Versions
  <2> QED BY <2>1, <2>2 DEF IInv, Typed, TypeOK
<1> QED BY <1>1, Inductive, PTL

\* No number is given twice to a name, with its advisory lock or without it, and
\* none is left out while the lock was not lost: nextVersion and the unique index.
THEOREM NumbersStayDense == Spec => []NumbersAreDense
<1>1. IInv => NumbersAreDense
  <2> SUFFICES ASSUME IInv, NEW n \in Names
               PROVE  /\ Cardinality(Numbers(n)) = Cardinality(rows[n])
                      /\ n \notin lost => Numbers(n) = 1..Cardinality(rows[n])
    BY DEF NumbersAreDense
  <2>1. Table(n)
    BY DEF IInv
  <2> QED BY <2>1, NumbersOf DEF Table, Numbers
<1> QED BY <1>1, Inductive, PTL

\* A version and its audit row are made, and unmade, in one transaction: the two
\* tables tell the same however many operations fail, crash or lose a lock.
THEOREM AuditKeepsPace == Spec => []AuditBalances
<1>1. IInv => AuditBalances
  BY DEF IInv, Table, AuditBalances
<1> QED BY <1>1, Inductive, PTL

\* writeTemplate and deleteTemplate run under the lock and before the commit: the
\* file of a template that nobody works on is its newest version.
THEOREM FileFollowsVersions == Spec => []FileIsNewest
<1>1. IInv => FileIsNewest
  <2> SUFFICES ASSUME IInv, NEW t \in Templates \ (spoilt \cup lost), ~Busy(t)
               PROVE  file[t] = Newest(t)
    BY DEF FileIsNewest
  <2>1. TemplateFile(t) /\ \A p \in Actors : Control(p)
    BY DEF IInv
  <2>2. ASSUME NEW p \in Actors PROVE ~(pc[p] \in {"write", "commit"} /\ req[p].name = t)
    BY <2>1 DEF Busy, Control, InTxn
  <2> QED BY <2>1, <2>2 DEF TemplateFile
<1> QED BY <1>1, Inductive, PTL

\* What nginx has loaded for a template was a version of it, is about to be one,
\* or was left in the file by an operation that failed.
THEOREM OnlyRecordedRulesRun == Spec => []RunsRecordedRules
<1>1. IInv => RunsRecordedRules
  <2> SUFFICES ASSUME IInv, NEW s \in Servers, NEW t \in DOMAIN running[s]
               PROVE  \/ running[s][t] \in past[t] \cup left[t]
                      \/ \E p \in Procs : /\ pc[p] = "commit" /\ req[p].name = t
                                          /\ running[s][t] = new[p].rules
    BY DEF RunsRecordedRules
  <2>1. Recorded(t, running[s][t])
    BY DEF IInv, Contained
  <2> QED BY <2>1 DEF Recorded
<1> QED BY <1>1, Inductive, PTL

\* A template without a gap in its versions holds the rules of the last one.
LEMMA NewestAreRules ==
  ASSUME IInv, NEW t \in Templates, t \notin lost, rows[t] # {}
  PROVE  Newest(t) \in Rules
<1>1. Table(t) /\ Contents(t) = Rules \ Malformed
  BY ContentsOf DEF IInv, Names
<1>2. /\ IsFiniteSet(rows[t]) /\ {x.no : x \in rows[t]} = 1..Cardinality(rows[t])
      /\ \A r1, r2 \in rows[t] : r1.no = r2.no => r1 = r2
      /\ \A r \in rows[t] : r.rules \in Rules
  BY <1>1 DEF Table, Numbers, Versions
<1>3. Cardinality(rows[t]) \in Nat /\ Cardinality(rows[t]) # 0
  BY <1>2, FS_CardinalityType, FS_EmptySet
<1>4. Cardinality(rows[t]) \in 1..Cardinality(rows[t])
  BY <1>3
<1>5. PICK r \in rows[t] : r.no = Cardinality(rows[t])
  BY <1>2, <1>4
<1>6. (CHOOSE x \in rows[t] : x.no = Max({y.no : y \in rows[t]})) = r
  BY <1>2, <1>5, NewestOf
<1> QED BY <1>2, <1>6 DEF Newest, Row, Numbers

\* A policy names only templates that had a version when it was written, and a
\* template keeps its file as long as it is not deleted: updateTemplate and
\* rollbackTemplate leave every published policy loadable.
THEOREM UsedFilesRemain == Spec => []UsedFilesStay
<1>1. IInv => UsedFilesStay
  <2> SUFFICES ASSUME IInv, NEW s \in wired, NEW t \in uses[s] \ (spoilt \cup lost \cup deleted)
               PROVE  \/ file[t] \notin {None, Torn}
                      \/ \E p \in Procs : pc[p] = "write" /\ req[p].name = t
    BY DEF UsedFilesStay
  <2>1. s \in Servers /\ t \in Templates /\ rows[t] # {}
    BY DEF IInv, Typed, Referenced
  <2>2. Newest(t) \in Rules /\ \A r \in Rules : r \notin {None, Torn}
    BY <2>1, NewestAreRules, RuleSetsAssumptions
  <2>3. TemplateFile(t)
    BY <2>1 DEF IInv
  <2>4. ASSUME NEW p \in Actors, pc[p] \in {"write", "commit"}, req[p].name = t PROVE p \in Procs
    <3>1. Control(p) /\ Typed /\ req[p] \in Calls
      BY <2>4 DEF IInv, Control, Typed
    <3>2. req[p].op # "seed"
      BY <2>1, <2>4, <3>1, CallKinds, RuleSetsAssumptions
    <3> QED BY <3>1, <3>2, CallKinds DEF Control, Actors
  <2>5. ASSUME NEW p \in Actors, pc[p] = "commit", req[p].name = t PROVE file[t] \in Rules
    <3>1. Control(p) /\ Writes(p) /\ Contents(t) = Rules \ Malformed
      BY <2>1, ContentsOf DEF IInv
    <3>2. req[p].op # "delete" /\ new[p].rules \in Rules
      BY <2>5, <3>1 DEF Control, Writes, Versions, InTxn
    <3> QED BY <2>3, <2>5, <3>2 DEF TemplateFile
  <2> QED BY <2>2, <2>3, <2>4, <2>5 DEF TemplateFile
<1> QED BY <1>1, Inductive, PTL

\* CoreRulesBootstrap seeds each shipped core set before the process listens, and
\* no operation removes or replaces version 1.
THEOREM BaselineStays == Spec => []FactoryIsBaseline
<1>1. IInv => FactoryIsBaseline
  <2> SUFFICES ASSUME IInv, NEW c \in Cores
               PROVE  /\ rows[c] # {} => Factories \in rows[c]
                      /\ up /\ c \in Shipped => rows[c] # {} /\ (c \in spoilt \/ file[c] = Factory)
    BY DEF FactoryIsBaseline, Factories
  <2>1. Table(c) /\ CoreFile(c) /\ Control(Boot) /\ Seeded
    BY DEF IInv, Names, Actors
  <2>2. rows[c] # {} => Factories \in rows[c]
    BY <2>1 DEF Table
  <2>3. up => pc[Boot] = "idle"
    BY <2>1 DEF Control
  <2>4. up /\ c \in Shipped => rows[c] # {}
    BY <2>1 DEF Seeded
  <2> QED BY <2>1, <2>2, <2>3, <2>4 DEF CoreFile
<1> QED BY <1>1, Inductive, PTL
----------------------------------------------------------------------------
(* Refinement *)

\* The rows of R have the numbers 1 to their number and rules from E.
InSequence(R, E) ==
  /\ IsFiniteSet(R) /\ {x.no : x \in R} = 1..Cardinality(R)
  /\ \A x, y \in R : x.no = y.no => x = y
  /\ \A x \in R : x.rules \in E

\* The rules of the rows of R in the order of their numbers.
Ordered(R) == [i \in 1..Cardinality(R) |-> (CHOOSE x \in R : x.no = i).rules]

LEMMA OrderedEmpty == Ordered({}) = <<>>
BY FS_EmptySet DEF Ordered

LEMMA OrderedGrows ==
  ASSUME NEW E, NEW R, InSequence(R, E), NEW r, r.no = Cardinality(R) + 1, r.rules \in E,
         NEW Grown, Grown = R \cup {r}
  PROVE  Ordered(Grown) = Append(Ordered(R), r.rules)
<1> DEFINE k == Cardinality(R)
<1>1. k \in Nat /\ IsFiniteSet(R)
  BY FS_CardinalityType DEF InSequence
<1>2. /\ \A x \in R : x.no \in 1..k
      /\ \A i \in 1..k : \E x \in R : x.no = i
      /\ \A x, y \in R : x.no = y.no => x = y
      /\ \A x \in R : x.rules \in E
  BY DEF InSequence
<1>3. r \notin R /\ Cardinality(Grown) = k + 1
  <2>1. r \notin R
    <3>1. k + 1 \notin 1..k
      BY <1>1
    <3> QED BY <1>2, <3>1
  <2> QED BY <1>1, <2>1, FS_AddElement
<1>4. ASSUME NEW i \in 1..k
      PROVE  \E x \in R : x.no = i /\ (CHOOSE y \in R : y.no = i) = x
                                   /\ (CHOOSE y \in Grown : y.no = i) = x
  <2>1. PICK x \in R : x.no = i
    BY <1>2
  <2>2. \A y \in Grown : y.no = i => y = x
    BY <1>1, <1>2, <2>1
  <2>3. (CHOOSE y \in R : y.no = i) = x
    BY <2>1, <2>2
  <2>4. (CHOOSE y \in Grown : y.no = i) = x
    BY <2>1, <2>2
  <2> QED BY <2>1, <2>3, <2>4
<1>5. (CHOOSE y \in Grown : y.no = k + 1) = r
  <2>1. \A y \in Grown : y.no = k + 1 => y = r
    <3>1. k + 1 \notin 1..k
      BY <1>1
    <3> QED BY <1>2, <3>1
  <2> QED BY <2>1
<1>6. Ordered(R) \in Seq(E) /\ Len(Ordered(R)) = k
  <2>1. Ordered(R) \in [1..k -> E]
    BY <1>2, <1>4 DEF Ordered
  <2> HIDE DEF k
  <2> QED BY <1>1, <2>1
<1>7. /\ Append(Ordered(R), r.rules) \in Seq(E)
      /\ Len(Append(Ordered(R), r.rules)) = k + 1
      /\ \A i \in 1..k : Append(Ordered(R), r.rules)[i] = Ordered(R)[i]
      /\ Append(Ordered(R), r.rules)[k + 1] = r.rules
  BY <1>6, AppendProperties
<1>8. Append(Ordered(R), r.rules) =
        [i \in 1..k + 1 |-> Append(Ordered(R), r.rules)[i]]
  BY <1>7
<1>9. ASSUME NEW i \in 1..k + 1
      PROVE  (CHOOSE y \in Grown : y.no = i).rules = Append(Ordered(R), r.rules)[i]
  <2>1. CASE i \in 1..k
    <3>1. (CHOOSE y \in Grown : y.no = i).rules = (CHOOSE y \in R : y.no = i).rules
      BY <1>4, <2>1
    <3>2. Ordered(R)[i] = (CHOOSE y \in R : y.no = i).rules
      BY <2>1 DEF Ordered
    <3> QED BY <1>7, <2>1, <3>1, <3>2
  <2>2. CASE i = k + 1
    BY <1>5, <1>7, <2>2
  <2>3. i \in 1..k \/ i = k + 1
    <3> HIDE DEF k
    <3> QED BY <1>1
  <2> QED BY <2>1, <2>2, <2>3
<1>10. Ordered(Grown) = [i \in 1..k + 1 |-> (CHOOSE y \in Grown : y.no = i).rules]
  BY <1>3 DEF Ordered
<1>11. [i \in 1..k + 1 |-> (CHOOSE y \in Grown : y.no = i).rules] =
         [i \in 1..k + 1 |-> Append(Ordered(R), r.rules)[i]]
  <2> DEFINE at(i) == (CHOOSE y \in Grown : y.no = i).rules
             longer == Append(Ordered(R), r.rules)
  <2>1. \A i \in 1..k + 1 : at(i) = longer[i]
    BY <1>9
  <2> HIDE DEF k, at, longer
  <2>2. [i \in 1..k + 1 |-> at(i)] = [i \in 1..k + 1 |-> longer[i]]
    BY <2>1
  <2> QED BY <2>2 DEF at, longer
<1> QED BY <1>8, <1>10, <1>11

LEMMA LoggedIs == Logged = [n \in Names |-> IF n \in lost THEN <<>> ELSE Ordered(rows[n])]
BY DEF Logged, Ordered, Row

\* A step that leaves the rows and the lost locks alone is a stutter.
LEMMA SameLog == ASSUME UNCHANGED <<rows, lost>> PROVE UNCHANGED <<Logged, lost \ {Global}>>
BY LoggedIs DEF Logged, Row

\* A row with the next number.
LEMMA Added ==
  ASSUME IInv, NEW n \in Names, NEW r \in Versions(n), lost' = lost, DOMAIN rows' = Names,
         rows'[n] = rows[n] \cup {r}, n \notin lost => r.no = Cardinality(rows[n]) + 1,
         \A m \in Names \ {n} : rows'[m] = rows[m]
  PROVE  [Promise!Next]_<<Logged, lost \ {Global}>>
<1>1. Logged' = [m \in Names |-> IF m \in lost THEN <<>> ELSE Ordered(rows'[m])]
  BY DEF Logged, Ordered, Row
<1>2. CASE n \in lost
  <2>1. Logged' = Logged
    BY <1>1, <1>2, LoggedIs
  <2> QED BY <2>1
<1>3. CASE n \notin lost
  <2>1. n # Global
    BY RuleSetsAssumptions DEF Names
  <2>2. Table(n) /\ r.rules \in Contents(n) /\ Contents(n) \subseteq (Rules \ Malformed) \cup Statuses
    BY DEF IInv, Versions, Contents
  <2>3. Ordered(rows'[n]) = Append(Ordered(rows[n]), r.rules)
    <3>1. InSequence(rows[n], Contents(n))
      BY <1>3, <2>2 DEF Table, Versions, Numbers, InSequence
    <3> QED BY <1>3, <2>2, <3>1, OrderedGrows
  <2>4. Logged' = [Logged EXCEPT ![n] = Append(@, r.rules)]
    BY <1>1, <1>3, <2>3, LoggedIs
  <2>5. Promise!Add(n, r.rules)
    BY <2>4 DEF Promise!Add
  <2> QED BY <1>3, <2>1, <2>2, <2>5 DEF Promise!Next
<1> QED BY <1>2, <1>3

LEMMA CommitLogs ==
  ASSUME IInv, NEW p \in Actors, Committing(p), lost' = lost
  PROVE  [Promise!Next]_<<Logged, lost \ {Global}>>
<1> PICK n : n = req[p].name
  OBVIOUS
<1>1. /\ n \in Names /\ DOMAIN rows' = Names /\ Writing(p)
      /\ \A m \in Names \ {n} : rows'[m] = rows[m]
      /\ req[p].op # "delete" => rows'[n] = rows[n] \cup {new[p]}
      /\ req[p].op = "delete" => n \in Templates /\ rows'[n] = rows[n] \ pend[p].del
  <2>1. Control(p) /\ pc[p] = "commit"
    BY DEF IInv, Committing
  <2>2. Writing(p)
    BY <2>1 DEF Control, Writing
  <2> QED BY <2>2, CommittedRows
<1>2. CASE req[p].op # "delete"
  <2>1. new[p] \in Versions(n) /\ (n \notin lost => new[p].no = Cardinality(rows[n]) + 1)
    BY <1>2, CommittedRows DEF IInv, Control, Writes, InOrder, InTxn, Committing
  <2> QED BY <1>1, <1>2, <2>1, Added
<1>3. CASE req[p].op = "delete"
  <2>1. n \notin lost => pend[p].del = rows[n]
    BY <1>1, <1>3 DEF IInv, InOrder, InTxn, Committing
  <2>2. Logged' = [m \in Names |-> IF m \in lost THEN <<>> ELSE Ordered(rows'[m])]
    BY DEF Logged, Ordered, Row
  <2>3. CASE n \in lost
    <3>1. Logged' = Logged
      BY <1>1, <2>2, <2>3, LoggedIs
    <3> QED BY <3>1
  <2>4. CASE n \notin lost
    <3>1. rows'[n] = {} /\ n # Global
      BY <1>1, <1>3, <2>1, <2>4, RuleSetsAssumptions DEF Names
    <3>2. Logged' = [Logged EXCEPT ![n] = <<>>]
      BY <1>1, <2>2, <2>4, <3>1, LoggedIs, OrderedEmpty
    <3>3. Promise!Clear(n)
      BY <3>2 DEF Promise!Clear
    <3> QED BY <1>1, <1>3, <2>4, <3>1, <3>3 DEF Promise!Next
  <2> QED BY <2>3, <2>4
<1> QED BY <1>2, <1>3

LEMMA SeedLogs ==
  ASSUME IInv, NEW p \in Actors, SeedRow(p)
  PROVE  [Promise!Next]_<<Logged, lost \ {Global}>>
<1> PICK n : n = req[p].name
  OBVIOUS
<1>1. lost' = lost /\ (rows' = rows \/ rows' = [rows EXCEPT ![n] = @ \cup {new[p]}])
  BY DEF SeedRow
<1>2. CASE rows' = rows
  BY <1>1, <1>2, SameLog
<1>3. CASE rows' = [rows EXCEPT ![n] = @ \cup {new[p]}]
  <2>1. /\ Typed /\ Control(p) /\ Writes(p) /\ req[p] \in Calls
        /\ pc[p] = "insert" /\ req[p].op = "seed"
    BY DEF IInv, Typed, Control, SeedRow
  <2>2. /\ n \in Names /\ rows[n] = {} /\ new[p] = Factories /\ new[p] \in Versions(n)
        /\ DOMAIN rows = Names
    BY <2>1, CallKinds DEF Writes, InTxn, Typed
  <2>3. new[p].no = Cardinality(rows[n]) + 1
    BY <2>2, FS_EmptySet DEF Factories, FACTORY_VERSION_NO
  <2>4. /\ DOMAIN rows' = Names /\ rows'[n] = rows[n] \cup {new[p]}
        /\ \A m \in Names \ {n} : rows'[m] = rows[m]
    BY <1>3, <2>2
  <2> QED BY <1>1, <2>2, <2>3, <2>4, Added
<1> QED BY <1>1, <1>2, <1>3

LEMMA LossVoids == ASSUME IInv, SessionLoss PROVE [Promise!Next]_<<Logged, lost \ {Global}>>
<1>1. PICK k \in Names \cup {Global} : lost' = lost \cup {k} /\ rows' = rows
  BY DEF SessionLoss, store
<1>2. Logged' = [m \in Names |-> IF m \in lost' THEN <<>> ELSE Ordered(rows[m])]
  BY <1>1 DEF Logged, Ordered, Row
<1>3. CASE k \in Names
  <2>1. Logged' = [Logged EXCEPT ![k] = <<>>]
    BY <1>1, <1>2, <1>3, LoggedIs
  <2>2. (lost \ {Global})' = (lost \ {Global}) \cup {k}
    BY <1>1, <1>3, RuleSetsAssumptions DEF Names
  <2>3. Promise!Void(k)
    BY <2>1, <2>2 DEF Promise!Void
  <2> QED BY <1>3, <2>3 DEF Promise!Next
<1>4. CASE k = Global
  <2>1. Logged' = Logged
    BY <1>1, <1>2, <1>4, LoggedIs, RuleSetsAssumptions DEF Names
  <2>2. (lost \ {Global})' = lost \ {Global}
    BY <1>1, <1>4
  <2> QED BY <2>1, <2>2
<1> QED BY <1>3, <1>4

\* The version tables implement VersionLog: whatever else fails, the versions of
\* a name whose lock's session lives are numbered in the order of their commits
\* and say only what sanitizeRules accepted; no operation edits or removes one of
\* them, except that deleteTemplate removes all.
THEOREM Refinement == Spec => KeepsPromise
<1>1. Init => Promise!Init
  <2> SUFFICES ASSUME Init PROVE Promise!Init
    OBVIOUS
  <2>1. lost = {} /\ \A n \in Names : rows[n] = {}
    BY DEF Init
  <2>2. Logged = [n \in Names |-> <<>>]
    BY <2>1, LoggedIs, OrderedEmpty
  <2> QED BY <2>1, <2>2 DEF Promise!Init
<1>2. IInv /\ [Next]_vars => [Promise!Next]_<<Logged, lost \ {Global}>>
  <2> SUFFICES ASSUME IInv, [Next]_vars PROVE [Promise!Next]_<<Logged, lost \ {Global}>>
    OBVIOUS
  <2>1. CASE SessionLoss
    BY <2>1, LossVoids
  <2>2. CASE UNCHANGED <<rows, lost>>
    BY <2>2, SameLog
  <2>3. ASSUME NEW p \in Actors, SeedRow(p) PROVE [Promise!Next]_<<Logged, lost \ {Global}>>
    BY <2>3, SeedLogs
  <2>4. ASSUME NEW p \in Actors, Commit(p) PROVE [Promise!Next]_<<Logged, lost \ {Global}>>
    <3>1. lost' = lost /\ (Committing(p) \/ rows' = rows)
      BY <2>4 DEF Commit, Committing, store
    <3> QED BY <2>2, <3>1, CommitLogs
  <2>5. ASSUME NEW p \in Actors, Step(p), ~SeedRow(p), ~Commit(p) PROVE UNCHANGED <<rows, lost>>
    <3>1. CASE Lock(p) \/ LockTimeout(p) \/ Read(p) \/ Insert(p) \/ Delete(p)
      BY <3>1 DEF Lock, LockTimeout, Read, Insert, Delete, store, history
    <3>2. CASE Truncate(p) \/ Write(p) \/ Unlink(p)
      BY <3>2 DEF Truncate, Write, Unlink, store, history
    <3>3. CASE CheckReferences(p) \/ WritePolicy(p) \/ Reload(p) \/ Finish(p)
      BY <3>3 DEF CheckReferences, WritePolicy, Reload, Finish, store, history
    <3> QED BY <2>5, <3>1, <3>2, <3>3 DEF Step
  <2>6. CASE (\E p \in Procs : Submit(p)) \/ seedFactoryVersions \/ Crash \/ UNCHANGED vars
    BY <2>2, <2>6 DEF Submit, seedFactoryVersions, Crash, vars, store, history
  <2> QED BY <2>1, <2>2, <2>3, <2>4, <2>5, <2>6 DEF Next
<1> QED BY <1>1, <1>2, Inductive, PTL DEF KeepsPromise, Promise!Spec, Spec
=============================================================================
