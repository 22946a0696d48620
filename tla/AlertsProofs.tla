---------------------------- MODULE AlertsProofs ----------------------------
(***************************************************************************)
(* The alerts for any number of overlapping checks and clients, any        *)
(* cooldown and any failures.                                              *)
(*                                                                         *)
(* The argument has two halves.  While the lock is held the row that its   *)
(* holder has read is the row that is there (Current), because rows are    *)
(* changed under the lock only; so updates add up, and a mail is sent by   *)
(* the configuration in force.  And unless two checks overlapped or a mail *)
(* was not logged, the newest log row is no older than the newest mail     *)
(* (Quiet), so that a cooldown counted from the one holds for the other.   *)
(***************************************************************************)
EXTENDS Alerts, SequenceTheorems, TLAPS

Labels == {"idle", "find", "insert", "last", "lock", "mail", "log", "save"}

Typed ==
  /\ pc \in [Procs -> Labels]
  /\ op \in [Procs -> Ops \cup {None}]
  /\ dto \in [Procs -> Updates \cup {None}]
  /\ cfg \in [Procs -> Configs \cup {None}]
  /\ id \in [Procs -> Nat]
  /\ result \in [Procs -> {"sent", "error", None}]
  /\ lock \in Procs \cup {None}
  /\ rows \in Seq(Configs) /\ want \in Configs
  /\ lastLog \in Ages \cup {None} /\ lastMail \in Ages \cup {None}
  /\ load \subseteq Checked
  /\ firstRace \in BOOLEAN /\ blind \in BOOLEAN

\* What a process runs, where, and with or without the lock.
Control(p) ==
  /\ pc[p] = "idle" <=> op[p] = None
  /\ op[p] = "check" => p \in Checks
  /\ op[p] \in {"send", "update", "get"} => p \in Clients
  /\ op[p] = "update" => dto[p] \in Updates
  /\ lock = p => pc[p] \in {"find", "insert", "mail", "log", "save"} /\ op[p] # "get"
  /\ pc[p] = "last" => op[p] = "check" /\ cfg[p] \in Configs
  /\ pc[p] = "lock" => op[p] # "get"
  /\ pc[p] \in {"mail", "log"} => lock = p /\ op[p] \in {"check", "send"}
  /\ pc[p] = "save" => lock = p /\ op[p] = "update"
  /\ pc[p] \in {"find", "insert"} /\ op[p] \in {"send", "update"} => lock = p

\* The row that the holder of the lock has read is still what it has read.
Current(p) ==
  /\ id[p] \in 0..Len(rows)
  /\ pc[p] = "insert" => id[p] = 0
  /\ pc[p] \in {"mail", "log", "save"} => cfg[p] \in Configs
  /\ pc[p] = "mail" => id[p] # 0
  /\ pc[p] \in {"mail", "save"} => cfg[p] = IF id[p] = 0 THEN Default ELSE rows[id[p]]

\* The processes whose row is not in the table yet.
Creating(p) == pc[p] = "insert" \/ (pc[p] = "save" /\ id[p] = 0)

Table ==
  /\ rows = <<>> => want = Default
  /\ Len(rows) = 1 => rows[1] = want
  /\ ~firstRace =>
       /\ Len(rows) <= 1
       /\ \A p \in Procs : Creating(p) => rows = <<>>
       /\ \A p, q \in Procs : Creating(p) /\ Creating(q) => p = q

\* The checks that have found the cooldown over and are not done.
Sending(k) == pc[k] \in {"lock", "mail", "log"} \/ lock = k

Quiet ==
  ~blind =>
    /\ \A k, q \in Checks : Sending(k) /\ Sending(q) => k = q
    /\ \A k \in Checks : Sending(k) /\ pc[k] # "log" => lastMail \in {None, Cooldown}
    /\ (\A k \in Checks : pc[k] # "log") =>
         lastMail = None \/ (lastLog # None /\ lastLog <= lastMail)

IInv == /\ Typed /\ \A p \in Procs : Control(p) /\ Current(p)
        /\ Table /\ Quiet
----------------------------------------------------------------------------
(* Operators *)

LEMMA MergeType ==
  ASSUME NEW c \in Configs, NEW d \in UpdateAlertConfigDto
  PROVE  Merge(c, d) \in Configs
BY DEF Merge, Or, Configs, UpdateAlertConfigDto

LEMMA DefaultType == Default \in Configs
BY DEF Default, Configs

LEMMA OlderType ==
  ASSUME NEW age \in Ages \cup {None}
  PROVE  /\ Older(age) \in Ages \cup {None}
         /\ age \in {None, Cooldown} => Older(age) = age
         /\ age = None <=> Older(age) = None
BY AlertsAssumptions DEF Older, Ages

LEMMA OlderKeepsOrder ==
  ASSUME NEW a \in Ages, NEW b \in Ages, a <= b
  PROVE  Older(a) <= Older(b)
BY AlertsAssumptions DEF Older, Ages

\* A step of another process leaves q as it is.
Same(q) ==
  /\ pc'[q] = pc[q] /\ op'[q] = op[q] /\ dto'[q] = dto[q]
  /\ cfg'[q] = cfg[q] /\ id'[q] = id[q]
  /\ lock' = q <=> lock = q

\* The return of a handler.
LEMMA ReturnEffect ==
  ASSUME Typed, NEW p \in Procs, Return(p)
  PROVE  /\ pc'[p] = "idle" /\ op'[p] = None /\ id'[p] = 0
         /\ lock' # p
         /\ lock' \in Procs \cup {None}
         /\ pc' \in [Procs -> Labels] /\ op' \in [Procs -> Ops \cup {None}]
         /\ dto' \in [Procs -> Updates \cup {None}] /\ cfg' \in [Procs -> Configs \cup {None}]
         /\ id' \in [Procs -> Nat] /\ result' \in [Procs -> {"sent", "error", None}]
         /\ \A q \in Procs \ {p} : Same(q)
BY AlertsAssumptions DEF Return, Goto, Typed, Labels, Same

LEMMA IdleControl ==
  ASSUME NEW p \in Procs, pc'[p] = "idle", op'[p] = None, id'[p] = 0, lock' # p,
         rows' \in Seq(Configs)
  PROVE  Control(p)' /\ Current(p)' /\ ~Creating(p)' /\ ~Sending(p)'
BY AlertsAssumptions DEF Control, Current, Creating, Sending, Ops

LEMMA SameControl ==
  ASSUME NEW q \in Procs, Same(q), Control(q)
  PROVE  Control(q)'
BY DEF Same, Control

\* Rows are added at the end, or changed by the holder of the lock.
LEMMA SameCurrent ==
  ASSUME NEW q \in Procs, Same(q), Control(q), Current(q),
         rows \in Seq(Configs), rows' \in Seq(Configs), Len(rows') >= Len(rows),
         id[q] \in Nat,
         lock = q => \A i \in 1..Len(rows) : rows'[i] = rows[i]
  PROVE  Current(q)'
BY DEF Same, Control, Current

----------------------------------------------------------------------------
(* The initial state *)

LEMMA InvInit == Init => IInv
<1> SUFFICES ASSUME Init PROVE IInv
  OBVIOUS
<1> USE AlertsAssumptions DEF Init
<1>1. PICK k \in Checks : /\ pc = [p \in Procs |-> IF p = k THEN "find" ELSE "idle"]
                         /\ op = [p \in Procs |-> IF p = k THEN "check" ELSE None]
  OBVIOUS
<1>2. pc \in [Procs -> Labels] /\ op \in [Procs -> Ops \cup {None}]
  BY <1>1 DEF Labels, Ops
<1>3. /\ dto \in [Procs -> Updates \cup {None}] /\ cfg \in [Procs -> Configs \cup {None}]
      /\ id \in [Procs -> Nat] /\ result \in [Procs -> {"sent", "error", None}]
  OBVIOUS
<1>4. Typed
  <2>1. rows \in Seq(Configs)
    OBVIOUS
  <2>2. /\ lock \in Procs \cup {None} /\ want \in Configs
        /\ lastLog \in Ages \cup {None} /\ lastMail \in Ages \cup {None}
        /\ load \subseteq Checked /\ firstRace \in BOOLEAN /\ blind \in BOOLEAN
    BY DefaultType
  <2> QED BY <1>2, <1>3, <2>1, <2>2 DEF Typed
<1>5. \A p \in Procs : Control(p) /\ Current(p)
  BY <1>1 DEF Control, Current, Ops, Procs
<1>6. Table
  BY <1>1 DEF Table, Creating
<1>7. Quiet
  BY <1>1 DEF Quiet, Sending, Procs
<1> QED BY <1>4, <1>5, <1>6, <1>7 DEF IInv

----------------------------------------------------------------------------
(* What a step of one process must show *)

LEMMA Frame ==
  ASSUME IInv, NEW p \in Procs, Typed', \A q \in Procs \ {p} : Same(q),
         Len(rows') >= Len(rows),
         \A q \in Procs \ {p} : lock = q => \A i \in 1..Len(rows) : rows'[i] = rows[i],
         Control(p)', Current(p)', Table', Quiet'
  PROVE  IInv'
<1>1. ASSUME NEW q \in Procs \ {p} PROVE Control(q)' /\ Current(q)'
  <2>1. Same(q) /\ Control(q) /\ Current(q) /\ id[q] \in Nat
    BY DEF IInv, Typed
  <2>2. rows \in Seq(Configs) /\ rows' \in Seq(Configs)
    BY DEF IInv, Typed
  <2> QED BY <2>1, <2>2, SameControl, SameCurrent
<1> QED BY <1>1 DEF IInv

LEMMA SameTable ==
  ASSUME IInv, NEW p \in Procs, \A q \in Procs \ {p} : Same(q),
         UNCHANGED <<rows, want, firstRace>>, Creating(p)' => Creating(p)
  PROVE  Table'
<1>1. \A q \in Procs : Creating(q)' => Creating(q)
  BY DEF Same, Creating
<1> QED BY <1>1 DEF IInv, Table

LEMMA SameQuiet ==
  ASSUME IInv, NEW p \in Procs, \A q \in Procs \ {p} : Same(q),
         UNCHANGED <<lastLog, lastMail>>, blind => blind',
         p \in Checks => (Sending(p)' => Sending(p)) /\ (pc'[p] = "log" <=> pc[p] = "log")
  PROVE  Quiet'
<1>1. \A k \in Checks : (Sending(k)' => Sending(k)) /\ (pc'[k] = "log" <=> pc[k] = "log")
  BY DEF Same, Sending, Procs
<1> QED BY <1>1 DEF IInv, Quiet

----------------------------------------------------------------------------
(* The steps *)

\* A handler that returns without having done anything.
LEMMA ReturnStep ==
  ASSUME IInv, NEW p \in Procs, Return(p), UNCHANGED <<rows, lastLog, load, lastMail, want>>,
         firstRace' \in BOOLEAN, firstRace => firstRace', blind' \in BOOLEAN, blind => blind',
         p \in Checks => (pc[p] = "log" => blind')
  PROVE  IInv'
<1>1. Typed
  BY DEF IInv
<1>2. Typed'
  BY <1>1, ReturnEffect DEF Typed
<1>3. Control(p)' /\ Current(p)' /\ ~Creating(p)' /\ ~Sending(p)'
  BY <1>1, <1>2, ReturnEffect, IdleControl DEF Typed
<1>4. \A q \in Procs \ {p} : Same(q)
  BY <1>1, ReturnEffect
<1>5. Table'
  <2>1. \A q \in Procs : Creating(q)' => Creating(q)
    BY <1>3, <1>4 DEF Same, Creating
  <2> QED BY <2>1 DEF IInv, Table
<1>6. Quiet'
  <2>1. pc'[p] # "log"
    BY <1>1, ReturnEffect
  <2>2. \A k \in Checks : /\ Sending(k)' => Sending(k)
                          /\ ~blind' => (pc'[k] = "log" <=> pc[k] = "log")
    BY <1>3, <1>4, <2>1 DEF Same, Sending, Procs
  <2> QED BY <2>2 DEF IInv, Quiet
<1>7. Len(rows') >= Len(rows)
  BY <1>1 DEF Typed
<1> QED BY <1>2, <1>3, <1>4, <1>5, <1>6, <1>7, Frame

MoveTyped ==
  /\ pc' \in [Procs -> Labels] /\ op' \in [Procs -> Ops \cup {None}]
  /\ dto' \in [Procs -> Updates \cup {None}] /\ cfg' \in [Procs -> Configs \cup {None}]
  /\ id' \in [Procs -> Nat] /\ result' \in [Procs -> {"sent", "error", None}]
  /\ lock' \in Procs \cup {None}

\* From one await to the next, the lock and the rows staying as they are.
LEMMA MoveEffect ==
  ASSUME Typed, NEW p \in Procs, NEW label \in Labels, Goto(p, label), Stay,
         NEW c \in Configs \cup {None}, cfg' = [cfg EXCEPT ![p] = c],
         NEW i \in Nat, id' = [id EXCEPT ![p] = i]
  PROVE  /\ pc'[p] = label /\ cfg'[p] = c /\ id'[p] = i
         /\ op'[p] = op[p] /\ dto'[p] = dto[p] /\ lock' = lock
         /\ MoveTyped /\ \A q \in Procs \ {p} : Same(q)
BY DEF Goto, Stay, Typed, Same, MoveTyped

LEMMA ThenLabel ==
  ASSUME NEW p \in Procs, Control(p), op[p] \in Ops \cup {None}, pc[p] \in {"find", "insert"}
  PROVE  /\ Then(p) \in Labels
         /\ Then(p) = "save" => op[p] = "update" /\ lock = p
         /\ Then(p) = "mail" => op[p] \in {"check", "send"} /\ lock = p
         /\ Then(p) = "last" => op[p] = "check" /\ lock # p
         /\ Then(p) \in {"save", "mail", "last", "idle"}
BY DEF Then, Control, Labels, Ops

LEMMA FindStep == ASSUME IInv, NEW p \in Procs, Find(p) PROVE IInv'
<1> DEFINE race == rows = <<>> /\ Inserting(p)
<1>1. /\ pc[p] = "find" /\ firstRace' = (firstRace \/ race)
      /\ UNCHANGED <<rows, lastLog, load, lastMail, want, blind, ops>>
  BY DEF Find
<1>2. Typed /\ Control(p) /\ Current(p) /\ op[p] \in Ops \cup {None}
  BY DEF IInv, Typed
<1>3. firstRace' \in BOOLEAN /\ (firstRace => firstRace') /\ blind' \in BOOLEAN
  BY <1>1, <1>2 DEF Typed
<1>4. CASE Return(p)
  BY <1>1, <1>3, <1>4, ReturnStep
<1>5. ASSUME NEW i \in DOMAIN rows, Goto(p, Then(p)), Stay, Then(p) # "idle",
             cfg' = [cfg EXCEPT ![p] = rows[i]], id' = [id EXCEPT ![p] = i]
      PROVE  IInv'
  <2>1. rows[i] \in Configs /\ i \in 1..Len(rows) /\ rows \in Seq(Configs)
    BY <1>2 DEF Typed
  <2>2. /\ i \in Nat /\ rows[i] \in Configs \cup {None} /\ Then(p) \in Labels
        /\ Then(p) = "save" => op[p] = "update" /\ lock = p
        /\ Then(p) = "mail" => op[p] \in {"check", "send"} /\ lock = p
        /\ Then(p) = "last" => op[p] = "check" /\ lock # p
        /\ Then(p) \in {"save", "mail", "last"}
    BY <1>1, <1>2, <1>5, <2>1, ThenLabel
  <2>3. /\ pc'[p] = Then(p) /\ cfg'[p] = rows[i] /\ id'[p] = i
        /\ op'[p] = op[p] /\ dto'[p] = dto[p] /\ lock' = lock
        /\ MoveTyped /\ \A q \in Procs \ {p} : Same(q)
    BY <1>2, <1>5, <2>2, MoveEffect
  <2> Typed'
    BY <1>1, <1>2, <1>3, <2>3 DEF Typed, MoveTyped
  <2>4. Control(p)'
    BY <1>1, <1>2, <2>1, <2>2, <2>3 DEF Control
  <2>5. Current(p)'
    BY <1>1, <1>2, <2>1, <2>2, <2>3 DEF Current
  <2>6. Table'
    <3>1. \A q \in Procs : Creating(q)' => Creating(q)
      BY <1>1, <1>2, <2>1, <2>2, <2>3 DEF Same, Creating
    <3> QED BY <1>1, <3>1 DEF IInv, Table
  <2>7. Quiet'
    BY <1>1, <2>2, <2>3, SameQuiet DEF Sending
  <2>8. Len(rows') >= Len(rows)
    BY <1>1, <1>2 DEF Typed
  <2> QED BY <1>1, <2>3, <2>4, <2>5, <2>6, <2>7, <2>8, Frame
<1>6. ASSUME rows = <<>>, Goto(p, "insert"), Stay, UNCHANGED <<cfg, id>>
      PROVE  IInv'
  <2>1. /\ "insert" \in Labels /\ cfg[p] \in Configs \cup {None} /\ id[p] \in Nat
        /\ cfg' = [cfg EXCEPT ![p] = cfg[p]] /\ id' = [id EXCEPT ![p] = id[p]]
    BY <1>2, <1>6 DEF Typed, Labels
  <2>2. /\ pc'[p] = "insert" /\ cfg'[p] = cfg[p] /\ id'[p] = id[p]
        /\ op'[p] = op[p] /\ dto'[p] = dto[p] /\ lock' = lock
        /\ MoveTyped /\ \A q \in Procs \ {p} : Same(q)
    BY <1>2, <1>6, <2>1, MoveEffect
  <2> Typed'
    BY <1>1, <1>2, <1>3, <2>2 DEF Typed, MoveTyped
  <2>3. Control(p)'
    BY <1>1, <1>2, <2>2 DEF Control
  <2>4. Current(p)'
    BY <1>1, <1>2, <1>6, <2>2 DEF Current
  <2>5. Table'
    <3>1. ~firstRace' => ~firstRace /\ \A q \in Procs \ {p} : ~Creating(q)
      BY <1>1, <1>6 DEF Inserting, Creating
    <3>2. \A q \in Procs \ {p} : Creating(q)' => Creating(q)
      BY <2>2 DEF Same, Creating
    <3> QED BY <1>1, <1>6, <3>1, <3>2 DEF IInv, Table
  <2>6. Quiet'
    BY <1>1, <2>2, SameQuiet DEF Sending
  <2>7. Len(rows') >= Len(rows)
    BY <1>1, <1>2 DEF Typed
  <2> QED BY <1>1, <2>2, <2>3, <2>4, <2>5, <2>6, <2>7, Frame
<1> QED BY <1>4, <1>5, <1>6 DEF Find, Found, Error

\* The first row, or one more, put there by a process that found none.
LEMMA AppendEffect ==
  ASSUME NEW c \in Configs, rows \in Seq(Configs), rows' = Append(rows, c)
  PROVE  /\ rows' \in Seq(Configs) /\ Len(rows') = Len(rows) + 1 /\ Len(rows) \in Nat
         /\ \A i \in 1..Len(rows) : rows'[i] = rows[i]
         /\ rows'[Len(rows')] = c
OBVIOUS

LEMMA AppendTable ==
  ASSUME IInv, NEW p \in Procs, Creating(p), ~Creating(p)', \A q \in Procs \ {p} : Same(q),
         NEW c \in Configs, rows' = Append(rows, c), UNCHANGED firstRace,
         rows = <<>> => want' = c
  PROVE  Table'
<1>1. rows \in Seq(Configs)
  BY DEF IInv, Typed
<1>2. /\ rows' \in Seq(Configs) /\ Len(rows') = Len(rows) + 1 /\ Len(rows) \in Nat
      /\ rows'[Len(rows')] = c
  BY <1>1, AppendEffect
<1>3. rows' # <<>> /\ (Len(rows') = 1 <=> rows = <<>>)
  BY <1>1, <1>2
<1>4. Len(rows') = 1 => rows'[1] = want'
  BY <1>2, <1>3
<1>5. \A q \in Procs \ {p} : Creating(q)' => Creating(q)
  BY DEF Same, Creating
<1>6. ASSUME ~firstRace' PROVE Len(rows') <= 1 /\ \A q \in Procs : ~Creating(q)'
  <2>1. rows = <<>> /\ \A q \in Procs : Creating(q) => q = p
    BY <1>6 DEF IInv, Table
  <2> QED BY <1>2, <1>3, <1>5, <2>1
<1> QED BY <1>3, <1>4, <1>6 DEF Table

LEMMA InsertStep == ASSUME IInv, NEW p \in Procs, Insert(p) PROVE IInv'
<1>1. pc[p] = "insert" /\ UNCHANGED <<lastLog, load, lastMail, want, firstRace, blind, ops>>
  BY DEF Insert, history
<1>2. Typed /\ Control(p) /\ Current(p) /\ op[p] \in Ops \cup {None} /\ Creating(p)
  BY <1>1 DEF IInv, Typed, Creating
<1>3. /\ rows \in Seq(Configs) /\ Len(rows) \in Nat /\ want \in Configs
      /\ firstRace \in BOOLEAN /\ blind \in BOOLEAN /\ id[p] = 0
  BY <1>1, <1>2 DEF Typed, Current
<1>4. /\ Then(p) \in Labels
      /\ Then(p) = "save" => op[p] = "update" /\ lock = p
      /\ Then(p) = "mail" => op[p] \in {"check", "send"} /\ lock = p
      /\ Then(p) = "last" => op[p] = "check" /\ lock # p
      /\ Then(p) \in {"save", "mail", "last", "idle"}
      /\ op[p] = "update" => Then(p) = "save"
  BY <1>1, <1>2, ThenLabel DEF Then
<1>5. CASE Return(p) /\ UNCHANGED rows
  BY <1>1, <1>3, <1>5, ReturnStep
<1>6. ASSUME Return(p), rows' = Append(rows, Default) PROVE IInv'
  <2>1. /\ rows' \in Seq(Configs) /\ Len(rows') = Len(rows) + 1
        /\ \A i \in 1..Len(rows) : rows'[i] = rows[i]
    BY <1>3, <1>6, DefaultType, AppendEffect
  <2> Typed'
    BY <1>1, <1>2, <1>6, <2>1, ReturnEffect DEF Typed
  <2>2. /\ pc'[p] = "idle" /\ op'[p] = None /\ id'[p] = 0 /\ lock' # p
        /\ \A q \in Procs \ {p} : Same(q)
    BY <1>2, <1>6, ReturnEffect
  <2>3. Control(p)' /\ Current(p)' /\ ~Creating(p)' /\ ~Sending(p)'
    BY <2>1, <2>2, IdleControl
  <2>4. Table'
    <3>1. rows = <<>> => want' = Default
      BY <1>1 DEF IInv, Table
    <3> QED BY <1>1, <1>2, <1>6, <2>2, <2>3, <3>1, DefaultType, AppendTable
  <2>5. Quiet'
    BY <1>1, <2>2, <2>3, SameQuiet
  <2>6. Len(rows') >= Len(rows)
    BY <1>3, <2>1
  <2> QED BY <2>1, <2>2, <2>3, <2>4, <2>5, <2>6, Frame
<1>7. ASSUME Goto(p, Then(p)), Stay, Then(p) # "idle", cfg' = [cfg EXCEPT ![p] = Default],
             op[p] = "update", UNCHANGED <<rows, id>>
      PROVE  IInv'
  <2>1. Default \in Configs \cup {None} /\ id' = [id EXCEPT ![p] = 0] /\ 0 \in Nat
    BY <1>2, <1>3, <1>7, DefaultType DEF Typed
  <2>2. /\ pc'[p] = Then(p) /\ cfg'[p] = Default /\ id'[p] = 0
        /\ op'[p] = op[p] /\ dto'[p] = dto[p] /\ lock' = lock
        /\ MoveTyped /\ \A q \in Procs \ {p} : Same(q)
    BY <1>2, <1>4, <1>7, <2>1, MoveEffect
  <2> Typed'
    BY <1>1, <1>2, <1>7, <2>2 DEF Typed, MoveTyped
  <2>3. Control(p)'
    BY <1>1, <1>2, <1>4, <1>7, <2>2 DEF Control
  <2>4. Current(p)'
    BY <1>3, <1>4, <1>7, <2>2, DefaultType DEF Current
  <2>5. Table' /\ Quiet'
    BY <1>1, <1>2, <1>4, <1>7, <2>2, SameTable, SameQuiet DEF Sending
  <2>6. Len(rows') >= Len(rows)
    BY <1>3, <1>7
  <2> QED BY <1>7, <2>2, <2>3, <2>4, <2>5, <2>6, Frame
<1>8. ASSUME Goto(p, Then(p)), Stay, Then(p) # "idle", cfg' = [cfg EXCEPT ![p] = Default],
             op[p] # "update", rows' = Append(rows, Default),
             id' = [id EXCEPT ![p] = Len(rows')]
      PROVE  IInv'
  <2>1. /\ rows' \in Seq(Configs) /\ Len(rows') = Len(rows) + 1 /\ Len(rows') \in Nat
        /\ \A i \in 1..Len(rows) : rows'[i] = rows[i]
        /\ rows'[Len(rows')] = Default /\ Default \in Configs \cup {None}
    BY <1>3, <1>8, DefaultType, AppendEffect
  <2>2. /\ pc'[p] = Then(p) /\ cfg'[p] = Default /\ id'[p] = Len(rows')
        /\ op'[p] = op[p] /\ dto'[p] = dto[p] /\ lock' = lock
        /\ MoveTyped /\ \A q \in Procs \ {p} : Same(q)
    BY <1>2, <1>4, <1>8, <2>1, MoveEffect
  <2> Typed'
    BY <1>1, <1>2, <2>1, <2>2 DEF Typed, MoveTyped
  <2>3. Control(p)'
    BY <1>1, <1>2, <1>4, <1>8, <2>2, DefaultType DEF Control
  <2>4. Current(p)'
    BY <1>3, <1>4, <1>8, <2>1, <2>2, DefaultType DEF Current
  <2>5. ~Creating(p)'
    BY <1>3, <1>4, <1>8, <2>1, <2>2 DEF Creating
  <2>6. Table'
    <3>1. rows = <<>> => want' = Default
      BY <1>1 DEF IInv, Table
    <3> QED BY <1>1, <1>2, <1>8, <2>2, <2>5, <3>1, DefaultType, AppendTable
  <2>7. Quiet'
    BY <1>1, <1>4, <1>8, <2>2, SameQuiet DEF Sending
  <2>8. Len(rows') >= Len(rows)
    BY <1>3, <2>1
  <2> QED BY <2>1, <2>2, <2>3, <2>4, <2>6, <2>7, <2>8, Frame
<1> QED BY <1>4, <1>5, <1>6, <1>7, <1>8 DEF Insert, Found, Error

\* The check reads the cooldown: it is over only if that of the mails is.
LEMMA LastStep == ASSUME IInv, NEW p \in Procs, Last(p) PROVE IInv'
<1>1. /\ pc[p] = "last" /\ blind' = (blind \/ \E q \in Checks \ {p} : Sending(q))
      /\ UNCHANGED <<rows, lastLog, load, lastMail, want, firstRace, ops>>
  BY DEF Last, Sending
<1>2. Typed /\ Control(p) /\ Current(p)
  BY DEF IInv
<1>3. /\ firstRace' \in BOOLEAN /\ (firstRace => firstRace') /\ blind' \in BOOLEAN
      /\ (blind => blind') /\ Len(rows') >= Len(rows)
      /\ op[p] = "check" /\ p \in Checks /\ cfg[p] \in Configs
  BY <1>1, <1>2 DEF Typed, Control
<1>4. CASE Return(p)
  BY <1>1, <1>3, <1>4, ReturnStep
<1>5. ASSUME lastLog \in {None, Cooldown}, Goto(p, "lock"), Stay, UNCHANGED <<cfg, id>>
      PROVE  IInv'
  <2>1. /\ "lock" \in Labels /\ cfg[p] \in Configs \cup {None} /\ id[p] \in Nat
        /\ cfg' = [cfg EXCEPT ![p] = cfg[p]] /\ id' = [id EXCEPT ![p] = id[p]]
    BY <1>2, <1>5 DEF Typed, Labels
  <2>2. /\ pc'[p] = "lock" /\ cfg'[p] = cfg[p] /\ id'[p] = id[p]
        /\ op'[p] = op[p] /\ dto'[p] = dto[p] /\ lock' = lock
        /\ MoveTyped /\ \A q \in Procs \ {p} : Same(q)
    BY <1>2, <1>5, <2>1, MoveEffect
  <2> Typed'
    BY <1>1, <1>2, <1>3, <2>2 DEF Typed, MoveTyped
  <2>3. Control(p)' /\ Current(p)'
    BY <1>1, <1>2, <1>3, <2>2 DEF Control, Current
  <2>4. Table'
    BY <1>1, <2>2, SameTable DEF Creating
  <2>5. Quiet'
    <3> SUFFICES ASSUME ~blind' PROVE Quiet'
      BY DEF Quiet
    <3>1. ~blind /\ \A q \in Checks \ {p} : ~Sending(q) /\ ~Sending(q)' /\ pc[q] # "log"
      BY <1>1, <2>2 DEF Same, Sending, Procs
    <3>2. lastMail = None \/ (lastLog # None /\ lastLog <= lastMail)
      BY <1>1, <3>1 DEF IInv, Quiet
    <3>3. lastMail \in {None, Cooldown}
      <4>1. lastMail \in Ages \cup {None} /\ Cooldown \in Nat
        BY <1>2, AlertsAssumptions DEF Typed
      <4> QED BY <1>5, <3>2, <4>1 DEF Ages
    <3> QED BY <1>1, <3>1, <3>2, <3>3 DEF Quiet
  <2> QED BY <1>1, <1>3, <2>2, <2>3, <2>4, <2>5, Frame
<1> QED BY <1>4, <1>5 DEF Last, Error

LEMMA LockStep == ASSUME IInv, NEW p \in Procs, Lock(p) PROVE IInv'
<1>1. /\ pc[p] = "lock" /\ lock = None /\ lock' = p /\ Goto(p, "find")
      /\ UNCHANGED <<op, dto, cfg, id, result, rows, lastLog, load, lastMail, want, firstRace,
                     blind>>
  BY DEF Lock, history
<1>2. Typed /\ Control(p) /\ Current(p)
  BY DEF IInv
<1>3. /\ pc' = [pc EXCEPT ![p] = "find"] /\ pc'[p] = "find" /\ pc' \in [Procs -> Labels]
      /\ \A q \in Procs \ {p} : Same(q)
  BY <1>1, <1>2, AlertsAssumptions DEF Goto, Typed, Labels, Same
<1> Typed'
  BY <1>1, <1>2, <1>3 DEF Typed
<1>4. Control(p)' /\ Current(p)'
  BY <1>1, <1>2, <1>3, AlertsAssumptions DEF Control, Current, Ops
<1>5. Table' /\ Quiet'
  BY <1>1, <1>3, SameTable, SameQuiet DEF Creating, Sending
<1>6. Len(rows') >= Len(rows)
  BY <1>1, <1>2 DEF Typed
<1> QED BY <1>1, <1>3, <1>4, <1>5, <1>6, Frame

LEMMA LockTimeoutStep == ASSUME IInv, NEW p \in Procs, LockTimeout(p) PROVE IInv'
<1>1. /\ pc[p] = "lock" /\ Return(p)
      /\ UNCHANGED <<rows, lastLog, load, lastMail, want, firstRace, blind>>
  BY DEF LockTimeout, history
<1>2. firstRace \in BOOLEAN /\ blind \in BOOLEAN
  BY DEF IInv, Typed
<1> QED BY <1>1, <1>2, ReturnStep

\* The mail: the monitor's one makes the newest mail younger than its log row.
LEMMA MailStep == ASSUME IInv, NEW p \in Procs, Mail(p) PROVE IInv'
<1>1. /\ pc[p] = "mail" /\ Goto(p, "log")
      /\ UNCHANGED <<op, dto, cfg, id, lock, rows, lastLog, load, want, firstRace, blind>>
      /\ result' = [result EXCEPT ![p] = "sent"] \/ result' = [result EXCEPT ![p] = "error"]
      /\ lastMail' = lastMail \/ (op[p] = "check" /\ lastMail' = 0)
  BY DEF Mail
<1>2. Typed /\ Control(p) /\ Current(p)
  BY DEF IInv
<1>3. /\ pc'[p] = "log" /\ pc' \in [Procs -> Labels] /\ \A q \in Procs \ {p} : Same(q)
  BY <1>1, <1>2 DEF Goto, Typed, Labels, Same
<1>4. result' \in [Procs -> {"sent", "error", None}]
  BY <1>1, <1>2 DEF Typed
<1>9. lastMail' \in Ages \cup {None}
  <2>1. 0 \in Ages
    BY AlertsAssumptions DEF Ages
  <2> QED BY <1>1, <1>2, <2>1 DEF Typed
<1> Typed'
  BY <1>1, <1>2, <1>3, <1>4, <1>9 DEF Typed
<1>5. Control(p)' /\ Current(p)'
  BY <1>1, <1>2, <1>3 DEF Control, Current
<1>6. Table'
  BY <1>1, <1>3, SameTable DEF Creating
<1>7. Quiet'
  <2>1. CASE p \in Checks
    <3>1. Sending(p) /\ \A q \in Checks \ {p} : Sending(q)' => Sending(q)
      BY <1>1, <1>3 DEF Sending, Same, Procs
    <3>2. ~blind => \A q \in Checks \ {p} : ~Sending(q)'
      BY <2>1, <3>1 DEF IInv, Quiet
    <3> QED BY <1>1, <1>3, <2>1, <3>2 DEF Quiet
  <2>2. CASE p \notin Checks
    <3>1. lastMail' = lastMail
      BY <1>1, <1>2, <2>2 DEF Control
    <3> QED BY <1>1, <1>3, <2>2, <3>1, SameQuiet
  <2> QED BY <2>1, <2>2
<1>8. Len(rows') >= Len(rows)
  BY <1>1, <1>2 DEF Typed
<1> QED BY <1>1, <1>3, <1>5, <1>6, <1>7, <1>8, Frame

LEMMA LogStep == ASSUME IInv, NEW p \in Procs, Log(p) PROVE IInv'
<1>1. pc[p] = "log" /\ Return(p) /\ UNCHANGED <<rows, load, lastMail, want, firstRace>>
  BY DEF Log, Stored, Error
<1>2. Typed /\ Control(p)
  BY DEF IInv
<1>3. /\ firstRace \in BOOLEAN /\ blind \in BOOLEAN
      /\ op[p] \in {"check", "send"} /\ (op[p] = "send" => p \in Clients)
  BY <1>1, <1>2 DEF Typed, Control
<1>4. CASE blind' = TRUE /\ UNCHANGED lastLog
  BY <1>1, <1>3, <1>4, ReturnStep
<1>5. CASE op[p] = "send" /\ UNCHANGED <<lastLog, blind>>
  BY <1>1, <1>3, <1>5, ReturnStep, AlertsAssumptions
<1>6. CASE op[p] = "check" /\ lastLog' = 0 /\ UNCHANGED blind
  <2>1. /\ pc'[p] = "idle" /\ op'[p] = None /\ id'[p] = 0 /\ lock' # p
        /\ \A q \in Procs \ {p} : Same(q)
    BY <1>1, <1>2, ReturnEffect
  <2>2. lastLog' \in Ages \cup {None} /\ lastLog' # None
    BY <1>6, AlertsAssumptions DEF Ages
  <2> Typed'
    BY <1>1, <1>2, <1>6, <2>2, ReturnEffect DEF Typed
  <2>3. Control(p)' /\ Current(p)' /\ ~Creating(p)' /\ ~Sending(p)'
    BY <2>1, IdleControl DEF Typed
  <2>4. Table'
    BY <1>1, <2>1, <2>3, SameTable
  <2>5. Quiet'
    <3>1. p \in Checks /\ Sending(p) /\ \A q \in Checks \ {p} : Sending(q)' => Sending(q)
      BY <1>1, <1>2, <1>6, <2>1 DEF Control, Sending, Same, Procs
    <3>2. ~blind => \A q \in Checks : ~Sending(q)'
      BY <2>3, <3>1 DEF IInv, Quiet
    <3>3. lastMail = None \/ (lastLog' # None /\ lastLog' <= lastMail)
      BY <1>2, <1>6, <2>2 DEF Typed, Ages
    <3> QED BY <1>1, <1>6, <3>2, <3>3 DEF Quiet
  <2>6. Len(rows') >= Len(rows)
    BY <1>1, <1>2 DEF Typed
  <2> QED BY <1>1, <2>1, <2>3, <2>4, <2>5, <2>6, Frame
<1> QED BY <1>3, <1>4, <1>5, <1>6 DEF Log, Error

\* An update merges into the row that is there, or becomes the row.
LEMMA SaveStep == ASSUME IInv, NEW p \in Procs, Save(p) PROVE IInv'
<1> DEFINE merged == Merge(cfg[p], dto[p])
<1>1. pc[p] = "save" /\ Return(p) /\ UNCHANGED <<lastLog, load, lastMail, firstRace, blind>>
  BY DEF Save, Stored, Error
<1>2. Typed /\ Control(p) /\ Current(p)
  BY DEF IInv
<1>3. /\ firstRace \in BOOLEAN /\ blind \in BOOLEAN /\ rows \in Seq(Configs)
      /\ want \in Configs /\ id[p] \in 0..Len(rows) /\ cfg[p] \in Configs
      /\ lock = p /\ op[p] = "update" /\ dto[p] \in Updates
      /\ cfg[p] = IF id[p] = 0 THEN Default ELSE rows[id[p]]
  BY <1>1, <1>2 DEF Typed, Control, Current
<1>4. CASE UNCHANGED <<rows, want>>
  BY <1>1, <1>3, <1>4, ReturnStep
<1>5. ASSUME rows' = IF id[p] = 0 THEN Append(rows, merged) ELSE [rows EXCEPT ![id[p]] = merged],
             want' = Merge(want, dto[p])
      PROVE  IInv'
  <2>1. merged \in Configs /\ want' \in Configs
    BY <1>3, <1>5, MergeType, AlertsAssumptions
  <2>2. /\ pc'[p] = "idle" /\ op'[p] = None /\ id'[p] = 0 /\ lock' # p
        /\ \A q \in Procs \ {p} : Same(q)
    BY <1>1, <1>2, ReturnEffect
  <2>3. rows' \in Seq(Configs) /\ Len(rows') >= Len(rows)
    <3> HIDE DEF merged
    <3>1. CASE id[p] = 0
      BY <1>3, <1>5, <2>1, <3>1, AppendEffect
    <3>2. CASE id[p] # 0
      BY <1>3, <1>5, <2>1, <3>2
    <3> QED BY <3>1, <3>2
  <2> Typed'
    BY <1>1, <1>2, <2>1, <2>3, ReturnEffect DEF Typed
  <2>4. Control(p)' /\ Current(p)' /\ ~Creating(p)' /\ ~Sending(p)'
    BY <2>2, <2>3, IdleControl
  <2>5. CASE id[p] = 0
    <3>1. Creating(p) /\ rows' = Append(rows, merged)
      BY <1>1, <1>5, <2>5 DEF Creating
    <3>2. rows = <<>> => want' = merged
      BY <1>3, <1>5, <2>5 DEF IInv, Table
    <3>3. Table'
      <4> HIDE DEF merged
      <4> QED BY <1>1, <2>1, <2>2, <2>4, <3>1, <3>2, AppendTable
    <3> QED BY <1>1, <1>3, <2>2, <2>3, <2>4, <3>3, SameQuiet, Frame
  <2>6. CASE id[p] # 0
    <3>1. rows' = [rows EXCEPT ![id[p]] = merged] /\ Len(rows') = Len(rows) /\ rows # <<>>
      BY <1>3, <1>5, <2>6
    <3>2. Len(rows) = 1 => rows'[1] = want'
      BY <1>3, <1>5, <2>6, <3>1 DEF IInv, Table
    <3>3. \A q \in Procs : Creating(q)' => Creating(q)
      BY <2>2, <2>4 DEF Same, Creating
    <3>4. rows' # <<>>
      BY <1>3, <2>6, <2>3, <3>1
    <3>5. Table'
      BY <1>1, <3>1, <3>2, <3>3, <3>4 DEF IInv, Table
    <3> QED BY <1>1, <1>3, <2>2, <2>3, <2>4, <3>5, SameQuiet, Frame
  <2> QED BY <2>5, <2>6
<1> QED BY <1>4, <1>5 DEF Save, Error

----------------------------------------------------------------------------
(* The steps of the others *)

LEMMA BeginEffect ==
  ASSUME IInv, NEW p \in Procs, NEW what \in Ops, NEW label \in {"find", "lock"},
         Begin(p, what, label), UNCHANGED <<cfg, id, lock, rows>>,
         NEW d \in Updates \cup {None}, dto' = [dto EXCEPT ![p] = d],
         what = "check" => p \in Checks, what # "check" => p \in Clients,
         what = "update" => d \in Updates, label = "lock" => what \in {"send", "update"},
         label = "find" => what \in {"check", "get"}
  PROVE  /\ pc' \in [Procs -> Labels] /\ op' \in [Procs -> Ops \cup {None}]
         /\ dto' \in [Procs -> Updates \cup {None}]
         /\ Control(p)' /\ Current(p)' /\ ~Creating(p)' /\ pc'[p] = label
         /\ p \in Checks => ~Sending(p)' /\ ~Sending(p) /\ pc[p] = "idle"
         /\ \A q \in Procs \ {p} : Same(q)
<1>1. Typed /\ Control(p) /\ Current(p) /\ pc[p] = "idle" /\ lock # p /\ what # None
  BY AlertsAssumptions DEF IInv, Begin, Control
<1>2. /\ pc' \in [Procs -> Labels] /\ op' \in [Procs -> Ops \cup {None}]
      /\ dto' \in [Procs -> Updates \cup {None}]
      /\ pc'[p] = label /\ op'[p] = what /\ dto'[p] = d
      /\ \A q \in Procs \ {p} : Same(q)
  BY <1>1 DEF Begin, Goto, Typed, Labels, Same
<1>3. Control(p)'
  BY <1>1, <1>2 DEF Control, Ops
<1>4. Current(p)' /\ ~Creating(p)'
  BY <1>1, <1>2 DEF Current, Creating
<1>5. p \in Checks => ~Sending(p)' /\ ~Sending(p)
  <2>1. p \in Checks => label = "find"
    BY AlertsAssumptions
  <2> QED BY <1>1, <1>2, <2>1 DEF Sending
<1> QED BY <1>1, <1>2, <1>3, <1>4, <1>5

LEMMA TickStep == ASSUME IInv, Tick PROVE IInv'
<1>1. PICK k \in Checks : Begin(k, "check", "find")
  BY DEF Tick
<1>2. /\ UNCHANGED <<dto, cfg, id, result, lock, rows, load, want, firstRace, blind>>
      /\ lastLog' = Older(lastLog) /\ lastMail' = Older(lastMail)
  BY DEF Tick
<1>3. Typed /\ k \in Procs /\ dto[k] \in Updates \cup {None} /\ dto' = [dto EXCEPT ![k] = dto[k]]
  BY <1>2 DEF IInv, Typed, Procs
<1>4. /\ pc' \in [Procs -> Labels] /\ op' \in [Procs -> Ops \cup {None}]
      /\ Control(k)' /\ Current(k)' /\ ~Creating(k)' /\ pc'[k] = "find"
      /\ ~Sending(k)' /\ ~Sending(k) /\ pc[k] = "idle"
      /\ \A q \in Procs \ {k} : Same(q)
  BY <1>1, <1>2, <1>3, BeginEffect DEF Ops
<1>5. lastLog' \in Ages \cup {None} /\ lastMail' \in Ages \cup {None}
  BY <1>2, <1>3, OlderType DEF Typed
<1> Typed'
  BY <1>2, <1>3, <1>4, <1>5 DEF Typed
<1>6. Table'
  BY <1>2, <1>3, <1>4, SameTable
<1>7. Quiet'
  <2>1. \A q \in Checks : (Sending(q)' <=> Sending(q)) /\ (pc'[q] = "log" <=> pc[q] = "log")
    BY <1>4 DEF Same, Sending, Procs
  <2>2. lastMail \in {None, Cooldown} => lastMail' \in {None, Cooldown}
    BY <1>2, <1>3, OlderType DEF Typed
  <2>3. ASSUME lastMail = None \/ (lastLog # None /\ lastLog <= lastMail)
        PROVE  lastMail' = None \/ (lastLog' # None /\ lastLog' <= lastMail')
    <3>1. CASE lastMail = None
      BY <1>2, <1>3, <3>1, OlderType DEF Typed
    <3>2. CASE lastMail # None
      <4>1. lastMail \in Ages /\ lastLog \in Ages /\ lastLog <= lastMail /\ lastLog # None
        BY <1>3, <2>3, <3>2 DEF Typed
      <4>2. lastLog' <= lastMail' /\ lastLog' # None
        BY <1>2, <4>1, OlderKeepsOrder, OlderType
      <4> QED BY <4>2
    <3> QED BY <3>1, <3>2
  <2> QED BY <1>2, <2>1, <2>2, <2>3 DEF IInv, Quiet
<1>8. Len(rows') >= Len(rows)
  BY <1>2, <1>3 DEF Typed
<1> QED BY <1>2, <1>3, <1>4, <1>6, <1>7, <1>8, Frame

LEMMA SubmitStep == ASSUME IInv, NEW p \in Clients, Submit(p) PROVE IInv'
<1>1. UNCHANGED <<cfg, id, result, lock, rows, lastLog, load, lastMail, want, firstRace, blind>>
  BY DEF Submit, history
<1>2. Typed /\ p \in Procs /\ p \notin Checks
  BY AlertsAssumptions DEF IInv, Procs
<1>3. ASSUME NEW what \in Ops, NEW label \in {"find", "lock"}, Begin(p, what, label),
             NEW d \in Updates \cup {None}, dto' = [dto EXCEPT ![p] = d],
             what # "check", what = "update" => d \in Updates,
             label = "lock" => what \in {"send", "update"}, label = "find" => what = "get"
      PROVE  IInv'
  <2>1. /\ pc' \in [Procs -> Labels] /\ op' \in [Procs -> Ops \cup {None}]
        /\ dto' \in [Procs -> Updates \cup {None}]
        /\ Control(p)' /\ Current(p)' /\ ~Creating(p)'
        /\ \A q \in Procs \ {p} : Same(q)
    BY <1>1, <1>2, <1>3, BeginEffect
  <2> Typed'
    BY <1>1, <1>2, <2>1 DEF Typed
  <2>2. Table' /\ Quiet'
    BY <1>1, <1>2, <2>1, SameTable, SameQuiet
  <2>3. Len(rows') >= Len(rows)
    BY <1>1, <1>2 DEF Typed
  <2> QED BY <1>1, <1>2, <2>1, <2>2, <2>3, Frame
<1>4. dto[p] \in Updates \cup {None} /\ (UNCHANGED dto => dto' = [dto EXCEPT ![p] = dto[p]])
  BY <1>2 DEF Typed
<1>5. CASE Begin(p, "get", "find") /\ UNCHANGED dto
  BY <1>3, <1>4, <1>5 DEF Ops
<1>6. CASE Begin(p, "send", "lock") /\ UNCHANGED dto
  BY <1>3, <1>4, <1>6 DEF Ops
<1>7. ASSUME NEW d \in Updates, Begin(p, "update", "lock"), dto' = [dto EXCEPT ![p] = d]
      PROVE  IInv'
  BY <1>3, <1>7 DEF Ops
<1> QED BY <1>5, <1>6, <1>7 DEF Submit

LEMMA CrashStep == ASSUME IInv, Crash PROVE IInv'
<1> USE AlertsAssumptions
<1>1. Typed
  BY DEF IInv
<1>2. PICK k \in Checks : /\ pc' = [p \in Procs |-> IF p = k THEN "find" ELSE "idle"]
                         /\ op' = [p \in Procs |-> IF p = k THEN "check" ELSE None]
  BY DEF Crash
<1>3. /\ dto' = [p \in Procs |-> None] /\ cfg' = [p \in Procs |-> None]
      /\ id' = [p \in Procs |-> 0] /\ result' = [p \in Procs |-> None] /\ lock' = None
      /\ UNCHANGED <<rows, lastLog, load, lastMail, want, firstRace>>
      /\ blind' = (blind \/ \E p \in Procs : pc[p] = "log")
  BY DEF Crash
<1>4. pc' \in [Procs -> Labels] /\ op' \in [Procs -> Ops \cup {None}]
  BY <1>2 DEF Labels, Ops
<1>5. Typed'
  BY <1>1, <1>3, <1>4 DEF Typed
<1>6. Len(rows) \in Nat
  BY <1>1 DEF Typed
<1>7. \A p \in Procs : Control(p)' /\ Current(p)' /\ ~Creating(p)'
  BY <1>2, <1>3, <1>6 DEF Control, Current, Creating, Ops, Procs
<1>8. Table'
  BY <1>3, <1>7 DEF IInv, Table
<1>9. Quiet'
  BY <1>2, <1>3 DEF IInv, Quiet, Sending, Procs
<1> QED BY <1>5, <1>7, <1>8, <1>9 DEF IInv

\* The traffic, and no step at all.
LEMMA StutterStep ==
  ASSUME IInv, UNCHANGED <<local, lock, rows, lastLog, history>>, load' \subseteq Checked
  PROVE  IInv'
<1>1. Typed' /\ \A p \in Procs : Control(p)' /\ Current(p)'
  BY DEF IInv, local, history, Typed, Control, Current
<1>2. Table'
  BY DEF IInv, local, history, Table, Creating
<1>3. Quiet'
  BY DEF IInv, local, history, Quiet, Sending
<1> QED BY <1>1, <1>2, <1>3 DEF IInv

LEMMA InvStep == IInv /\ [Next]_vars => IInv'
<1> SUFFICES ASSUME IInv, [Next]_vars PROVE IInv'
  OBVIOUS
<1>1. CASE Tick
  BY <1>1, TickStep
<1>2. CASE Traffic
  BY <1>2, StutterStep, AlertsAssumptions DEF Traffic
<1>3. CASE Crash
  BY <1>3, CrashStep
<1>4. ASSUME NEW p \in Clients, Submit(p) PROVE IInv'
  BY <1>4, SubmitStep
<1>5. ASSUME NEW p \in Procs, Step(p) PROVE IInv'
  BY <1>5, FindStep, InsertStep, LastStep, LockStep, LockTimeoutStep, MailStep, LogStep,
     SaveStep DEF Step
<1>6. CASE UNCHANGED vars
  BY <1>6, StutterStep DEF vars, IInv, Typed
<1> QED BY <1>1, <1>2, <1>3, <1>4, <1>5, <1>6 DEF Next

----------------------------------------------------------------------------
(* The theorems *)

\* The row of the lock's holder is current, and the newest log row is no older
\* than the newest mail unless checks overlapped: in every reachable state.
THEOREM Inductive == Spec => []IInv
<1>1. Init => IInv
  BY InvInit
<1>2. IInv /\ [Next]_vars => IInv'
  BY InvStep
<1> QED BY <1>1, <1>2, PTL DEF Spec

\* The values that the service and its table hold, and that a process is about
\* to send, log or save only while it holds alertLock and has read a row.
THEOREM TypeCorrect == Spec => []TypeOK
<1>1. IInv => TypeOK
  <2> SUFFICES ASSUME IInv PROVE TypeOK
    OBVIOUS
  <2>1. \A p \in Procs : Control(p) /\ Current(p)
    BY DEF IInv
  <2>2. \A p \in Procs : pc[p] \in {"mail", "log", "save"} => lock = p /\ cfg[p] \in Configs
    BY <2>1 DEF Control, Current
  <2>3. \A p \in Procs : pc[p] = "idle" <=> op[p] = None
    BY <2>1 DEF Control
  <2> QED BY <2>2, <2>3 DEF IInv, Typed, TypeOK
<1> QED BY <1>1, Inductive, PTL

\* ensureConfig adds a second row only where two of the first reads overlapped, and
\* updateConfig loses no update to another one: alertLock is held from the read
\* of the row to the write of the merge.
THEOREM NoUpdateIsLost == Spec => []UpdatesAreKept
<1>1. IInv => UpdatesAreKept
  BY DEF IInv, Table, UpdatesAreKept
<1> QED BY <1>1, Inductive, PTL

\* checkMetrics sends no mail within the cooldown of the one before, as long as
\* checks have not overlapped and no log row was lost; a failed mail, an error
\* of the database elsewhere or a restart does not shorten it.
THEOREM MailsAreACooldownApart == Spec => CooldownKept
<1>1. ASSUME IInv, NEW k \in Checks, pc[k] = "mail"
      PROVE  blind \/ lastMail \in {None, Cooldown}
  BY <1>1 DEF IInv, Quiet, Sending
<1>2. IInv => [lastMail' = 0 /\ pc' # pc /\ (\E k \in Checks : pc[k] = "mail" /\ pc'[k] = "log")
               => blind \/ lastMail \in {None, Cooldown}]_vars
  BY <1>1
<1> QED BY <1>2, Inductive, PTL DEF CooldownKept

\* Only AlertMailService takes a process from the mail to its log row.
LEMMA OnlyMailSends ==
  ASSUME IInv, Next, NEW p \in Procs, pc[p] = "mail", pc'[p] = "log"
  PROVE  Mail(p)
<1>1. pc \in [Procs -> Labels]
  BY DEF IInv, Typed
<1>2. ASSUME NEW q \in Procs, NEW label, Goto(q, label) PROVE q = p
  BY <1>1, <1>2 DEF Goto
<1>3. ~Tick /\ ~Crash /\ ~Traffic
  BY <1>1, <1>2 DEF Tick, Begin, Crash, Traffic, local, Procs, Goto
<1>4. \A q \in Clients : ~Submit(q)
  BY <1>2 DEF Submit, Begin, Procs
<1>5. PICK q \in Procs : Step(q)
  BY <1>3, <1>4 DEF Next
<1>6. \E label : Goto(q, label)
  BY <1>5 DEF Step, Find, Found, Insert, Last, Lock, LockTimeout, Mail, Log, Save, Stored, Return, Error
<1>7. q = p
  BY <1>2, <1>6
<1> QED BY <1>5, <1>7 DEF Step, Find, Insert, Last, Lock, LockTimeout, Log, Save

\* A mail is sent by the row that is in force when it goes out: the check or the
\* manual send reads it again under alertLock, and no update passes the lock.
THEOREM DisabledIsSilent == Spec => MailsOnlyWhenEnabled
<1>1. ASSUME IInv, Next, NEW p \in Procs, pc[p] = "mail", pc'[p] = "log",
             result'[p] = "sent", Len(rows) = 1
      PROVE  shouldSend(rows[1])
  <2>1. Mail(p) /\ result \in [Procs -> {"sent", "error", None}]
    BY <1>1, OnlyMailSends DEF IInv, Typed
  <2>2. shouldSend(cfg[p])
    BY <1>1, <2>1 DEF Mail
  <2>3. id[p] \in 0..Len(rows) /\ id[p] # 0 /\ cfg[p] = rows[id[p]]
    BY <1>1 DEF IInv, Current
  <2> QED BY <1>1, <2>2, <2>3
<1>2. IInv /\ [Next]_vars =>
        [\A p \in Procs :
           pc[p] = "mail" /\ pc'[p] = "log" /\ result'[p] = "sent" /\ Len(rows) = 1
           => shouldSend(rows[1])]_vars
  BY <1>1
<1> QED BY <1>2, Inductive, PTL DEF Spec, MailsOnlyWhenEnabled
=============================================================================
