------------------------------- MODULE Alerts -------------------------------
(***************************************************************************)
(* AlertsService (src/src/alerts/alerts.service.ts) with AlertMailService: *)
(* the metric check that a timer starts every minute without waiting for   *)
(* the one before, the manual send, and the configuration, which is one    *)
(* row of a table by convention only.                                      *)
(*                                                                         *)
(* Every await of a query, of the lock or of the mail server is a step.    *)
(* Time is counted in periods of the timer, as ages: since the newest log  *)
(* row of the monitor, and since the newest mail it sent.  A row of        *)
(* thresholds is the set of those that are set, and an update names those  *)
(* that it sets and those that it sets to zero, which is as unset; the     *)
(* load is the set of thresholds that the last five minutes exceed.        *)
(***************************************************************************)
EXTENDS Naturals, Sequences

CONSTANTS
  Checks,      \* runs of checkMetrics that may overlap
  Clients,     \* concurrent requests
  Updates,     \* the update requests
  Loads,       \* what the traffic may exceed at a time
  Cooldown,    \* periods between two alerts (10 in the code)
  None,
  Faults,      \* which of the failures below may happen
  MaxOps,      \* bound: requests in one behaviour
  MaxFaults    \* bound: failures in one behaviour

\* attackTypeCounts can be configured; checkMetrics does not look at it.
Thresholds == {"qps", "blockRate", "attackTypeCounts"}
Checked == {"qps", "blockRate"}
Configs == [enabled : BOOLEAN, emails : BOOLEAN, thresholds : SUBSET Thresholds]
UpdateAlertConfigDto ==
  [enabled : BOOLEAN \cup {None}, emails : BOOLEAN \cup {None},
   thresholds : SUBSET Thresholds, zeroed : SUBSET Thresholds]
Procs == Checks \cup Clients
Ops == {"check", "send", "update", "get"}

ASSUME AlertsAssumptions ==
  /\ Checks \cap Clients = {}
  /\ Updates \subseteq UpdateAlertConfigDto
  /\ Loads \subseteq SUBSET Checked /\ {} \in Loads
  /\ Cooldown \in Nat \ {0}
  /\ None \notin BOOLEAN \cup Procs \cup Configs \cup Updates
  /\ None \notin Ops /\ None \notin Nat
  /\ Faults \subseteq {"db", "mail", "crash"}
  /\ MaxOps \in Nat /\ MaxFaults \in Nat

VARIABLES
  pc, op,      \* the next step of each process, and what it runs
  dto,         \* dto[p]: the update it carries
  cfg,         \* cfg[p]: the row of the configuration that it read
  id,          \* id[p]: the index of that row, 0 for its own uncommitted one
  result,      \* result[p]: what the mail server answered
  lock,        \* the holder of alertLock
  smtp,        \* the environment enables a mail server and names its host
  rows,        \* the rows of alert_config
  lastLog,     \* age of the newest log row of system-monitor, None for none
  load,        \* the thresholds that the traffic exceeds
  lastMail,    \* history: age of the newest mail that the monitor sent
  want,        \* history: the configuration that the committed updates make
  firstRace,   \* history: two first reads of the configuration overlapped
  blind,       \* history: a check read the cooldown while another was sending,
               \* or a mail went out whose log row failed
  ops, faultsLeft

local == <<pc, op, dto, cfg, id, result>>
history == <<lastMail, want, firstRace, blind>>
counters == <<ops, faultsLeft>>
vars == <<local, lock, smtp, rows, lastLog, load, history, counters>>

Default == [enabled |-> TRUE, emails |-> FALSE, thresholds |-> {}]
Ages == 0..Cooldown
Older(age) == IF age \in Nat /\ age < Cooldown THEN age + 1 ELSE age
Or(x, y) == IF x = None THEN y ELSE x

\* updateConfig: a field that is absent keeps its value, and so does a threshold.
Merge(c, d) ==
  [enabled |-> Or(d.enabled, c.enabled), emails |-> Or(d.emails, c.emails),
   thresholds |-> (c.thresholds \cup d.thresholds) \ d.zeroed]

shouldSend(c) == c.enabled /\ c.emails
Exceeds(c) == c.thresholds \cap load \cap Checked # {}
----------------------------------------------------------------------------
\* onModuleInit runs a check at once, and then the timer.
Init ==
  /\ \E k \in Checks : /\ pc = [p \in Procs |-> IF p = k THEN "find" ELSE "idle"]
                       /\ op = [p \in Procs |-> IF p = k THEN "check" ELSE None]
  /\ dto = [p \in Procs |-> None]
  /\ cfg = [p \in Procs |-> None]
  /\ id = [p \in Procs |-> 0]
  /\ result = [p \in Procs |-> None]
  /\ lock = None /\ smtp \in BOOLEAN
  /\ rows = <<>>
  /\ lastLog = None
  /\ load = {}
  /\ lastMail = None
  /\ want = Default
  /\ firstRace = FALSE /\ blind = FALSE
  /\ ops = 0 /\ faultsLeft = MaxFaults

Goto(p, label) == pc' = [pc EXCEPT ![p] = label]
Fail(kind) == kind \in Faults /\ faultsLeft > 0 /\ faultsLeft' = faultsLeft - 1
NoFault == UNCHANGED faultsLeft

\* The handler ends; withLock's finally gives the lock back.
Return(p) ==
  /\ Goto(p, "idle")
  /\ op' = [op EXCEPT ![p] = None]
  /\ dto' = [dto EXCEPT ![p] = None]
  /\ cfg' = [cfg EXCEPT ![p] = None]
  /\ id' = [id EXCEPT ![p] = 0]
  /\ result' = [result EXCEPT ![p] = None]
  /\ lock' = IF lock = p THEN None ELSE lock
Error(p) == Fail("db") /\ Return(p)

\* A commit that is stored; where its answer is lost the handler fails all the same.
Stored(p) == Return(p) /\ (NoFault \/ Fail("db"))
Stay == UNCHANGED <<op, dto, result, lock>> /\ NoFault

Begin(p, what, label) ==
  /\ pc[p] = "idle"
  /\ op' = [op EXCEPT ![p] = what]
  /\ Goto(p, label)

\* The timer: a period passes and a check starts, whatever the others do.
Tick ==
  /\ \E k \in Checks : Begin(k, "check", "find")
  /\ lastLog' = Older(lastLog)
  /\ lastMail' = Older(lastMail)
  /\ UNCHANGED <<dto, cfg, id, result, lock, smtp, rows, load, want, firstRace, blind, counters>>

Submit(p) ==
  /\ ops < MaxOps /\ ops' = ops + 1
  /\ \/ Begin(p, "get", "find") /\ UNCHANGED dto
     \/ Begin(p, "send", "lock") /\ UNCHANGED dto
     \/ \E d \in Updates : Begin(p, "update", "lock") /\ dto' = [dto EXCEPT ![p] = d]
  /\ UNCHANGED <<cfg, id, result, lock, smtp, rows, lastLog, load, history, faultsLeft>>

\* The traffic changes as it likes.
Traffic ==
  /\ load' \in Loads
  /\ UNCHANGED <<local, lock, smtp, rows, lastLog, history, counters>>
----------------------------------------------------------------------------
\* What follows ensureConfig.
Then(p) == IF op[p] = "update" THEN "save"
           ELSE IF lock = p THEN "mail"
           ELSE IF op[p] = "check" THEN "last" ELSE "idle"
Found(p) == IF Then(p) = "idle" THEN Return(p) /\ NoFault
            ELSE Goto(p, Then(p)) /\ Stay

\* Mutant: only an enabled row is looked for.
Find_Enabled(p) ==
  LET found == {i \in DOMAIN rows : rows[i].enabled} IN
  /\ pc[p] = "find"
  /\ \/ \E i \in found :
          /\ Found(p)
          /\ (Then(p) # "idle" =>
                cfg' = [cfg EXCEPT ![p] = rows[i]] /\ id' = [id EXCEPT ![p] = i])
     \/ found = {} /\ Goto(p, "insert") /\ Stay /\ UNCHANGED <<cfg, id>>
  /\ firstRace' = (firstRace \/ (rows = <<>> /\ \E q \in Procs \ {p} : pc[q] = "insert"))
  /\ UNCHANGED <<rows, lastLog, load, lastMail, want, blind, ops>>

\* Another handler has found no row, and its own is not committed yet.
Inserting(p) == \E q \in Procs \ {p} : pc[q] = "insert" \/ (pc[q] = "save" /\ id[q] = 0)

\* ensureConfig: findOne without a condition or an order, so any row there is.
Find(p) ==
  /\ pc[p] = "find"
  /\ \/ \E i \in DOMAIN rows :
          /\ Found(p)
          /\ (Then(p) # "idle" =>
                cfg' = [cfg EXCEPT ![p] = rows[i]] /\ id' = [id EXCEPT ![p] = i])
     \/ rows = <<>> /\ Goto(p, "insert") /\ Stay /\ UNCHANGED <<cfg, id>>
     \/ Error(p)
  /\ firstRace' = (firstRace \/ (rows = <<>> /\ Inserting(p)))
  /\ UNCHANGED <<rows, lastLog, load, lastMail, want, blind, ops>>

\* The insertion, which is part of the transaction of an update; elsewhere it may
\* be stored although its answer is lost.
Insert(p) ==
  /\ pc[p] = "insert"
  /\ \/ /\ Found(p)
        /\ (Then(p) # "idle" => cfg' = [cfg EXCEPT ![p] = Default])
        /\ IF op[p] = "update" THEN UNCHANGED <<rows, id>>
           ELSE /\ rows' = Append(rows, Default)
                /\ (Then(p) # "idle" => id' = [id EXCEPT ![p] = Len(rows')])
     \/ /\ Error(p)
        /\ \/ UNCHANGED rows
           \/ op[p] # "update" /\ rows' = Append(rows, Default)
  /\ UNCHANGED <<lastLog, load, history, ops>>

\* Mutant: the cooldown is not looked at.
Last_NoCooldown(p) ==
  /\ pc[p] = "last"
  /\ IF shouldSend(cfg[p]) /\ Exceeds(cfg[p])
     THEN Goto(p, "lock") /\ Stay /\ UNCHANGED <<cfg, id>>
     ELSE Return(p) /\ NoFault
  /\ UNCHANGED <<rows, lastLog, load, history, ops>>

\* Mutant: only the first alert passes the cooldown.
Last_Once(p) ==
  /\ pc[p] = "last"
  /\ IF shouldSend(cfg[p]) /\ lastLog = None /\ Exceeds(cfg[p])
     THEN Goto(p, "lock") /\ Stay /\ UNCHANGED <<cfg, id>>
     ELSE Return(p) /\ NoFault
  /\ UNCHANGED <<rows, lastLog, load, history, ops>>

\* checkMetrics, from the newest log row of the monitor to the decision.  The
\* row counts whether or not its mail was sent.
Last(p) ==
  /\ pc[p] = "last"
  /\ \/ IF /\ shouldSend(cfg[p])
           /\ lastLog \in {None, Cooldown}
           /\ Exceeds(cfg[p])
        THEN Goto(p, "lock") /\ Stay /\ UNCHANGED <<cfg, id>>
        ELSE Return(p) /\ NoFault
     \/ Error(p)
  /\ blind' = (blind \/ \E q \in Checks \ {p} : pc[q] \in {"lock", "mail", "log"} \/ lock = q)
  /\ UNCHANGED <<rows, lastLog, load, lastMail, want, firstRace, ops>>

\* Mutant: the configuration that the check has read is used.
Lock_Stale(p) ==
  /\ pc[p] = "lock" /\ lock = None
  /\ lock' = p
  /\ Goto(p, IF op[p] = "check" THEN "mail" ELSE "find")
  /\ UNCHANGED <<op, dto, cfg, id, result, rows, lastLog, load, history, counters>>

\* Mutant: updates do not wait for each other.
Lock_NoWait(p) ==
  /\ pc[p] = "lock"
  /\ lock' = IF op[p] = "update" THEN lock ELSE p
  /\ Goto(p, "find")
  /\ UNCHANGED <<op, dto, cfg, id, result, rows, lastLog, load, history, counters>>

Lock(p) ==
  /\ pc[p] = "lock" /\ lock = None
  /\ lock' = p
  /\ Goto(p, "find")
  /\ UNCHANGED <<op, dto, cfg, id, result, rows, lastLog, load, history, counters>>

LockTimeout(p) ==
  /\ pc[p] = "lock" /\ lock # None
  /\ Return(p)
  /\ UNCHANGED <<rows, lastLog, load, history, counters>>
----------------------------------------------------------------------------
\* AlertMailService.send, when there is somebody to send to.  A server that
\* fails after it took the mail is told from one that did not take it by nobody,
\* and one that is not configured counts as one that failed.
Mail(p) ==
  LET taken == lastMail' = IF op[p] = "check" THEN 0 ELSE lastMail
      answer(a) == result' = [result EXCEPT ![p] = a]
      sends == shouldSend(cfg[p]) /\ smtp
  IN
  /\ pc[p] = "mail"
  /\ \/ sends /\ answer("sent") /\ taken /\ NoFault
     \/ ~sends /\ answer("error") /\ UNCHANGED lastMail /\ NoFault
     \/ sends /\ Fail("mail") /\ answer("error") /\ (taken \/ UNCHANGED lastMail)
  /\ Goto(p, "log")
  /\ UNCHANGED <<op, dto, cfg, id, lock, rows, lastLog, load, want, firstRace, blind,
                 ops>>

\* The log row and its audit row, in one transaction, after the mail.
Log(p) ==
  /\ pc[p] = "log"
  /\ \/ /\ Stored(p)
        /\ lastLog' = IF op[p] = "check" THEN 0 ELSE lastLog
        /\ UNCHANGED blind
     \/ /\ Error(p)
        /\ blind' = TRUE
        /\ UNCHANGED lastLog
  /\ UNCHANGED <<rows, load, lastMail, want, firstRace, ops>>

\* updateConfig: the merge into the row that was read, and the audit row.
Save(p) ==
  /\ pc[p] = "save"
  /\ \/ /\ Stored(p)
        /\ LET merged == Merge(cfg[p], dto[p])
           IN  rows' = IF id[p] = 0 THEN Append(rows, merged) ELSE [rows EXCEPT ![id[p]] = merged]
        /\ want' = Merge(want, dto[p])
     \/ Error(p) /\ UNCHANGED <<rows, want>>
  /\ UNCHANGED <<lastLog, load, lastMail, firstRace, blind, ops>>

\* The process dies and starts again.  A mail may be out and not logged.
Crash ==
  /\ Fail("crash")
  /\ blind' = (blind \/ \E p \in Procs : pc[p] = "log")
  /\ \E k \in Checks : /\ pc' = [p \in Procs |-> IF p = k THEN "find" ELSE "idle"]
                       /\ op' = [p \in Procs |-> IF p = k THEN "check" ELSE None]
  /\ dto' = [p \in Procs |-> None]
  /\ cfg' = [p \in Procs |-> None]
  /\ id' = [p \in Procs |-> 0]
  /\ result' = [p \in Procs |-> None]
  /\ lock' = None
  /\ UNCHANGED <<smtp, rows, lastLog, load, lastMail, want, firstRace, ops>>

Step(p) ==
  /\ \/ Find(p) \/ Insert(p) \/ Last(p) \/ Lock(p) \/ LockTimeout(p)
     \/ Mail(p) \/ Log(p) \/ Save(p)
  /\ UNCHANGED smtp

Next ==
  \/ Tick \/ Traffic \/ Crash
  \/ \E p \in Clients : Submit(p)
  \/ \E p \in Procs : Step(p)

\* The timer fires; queries, the lock and the mail server answer in the end.
Fairness == WF_vars(Tick) /\ \A p \in Procs : WF_vars(Step(p))

Spec == Init /\ [][Next]_vars
FairSpec == Spec /\ Fairness
----------------------------------------------------------------------------
\* Types.
TypeOK ==
  /\ op \in [Procs -> Ops \cup {None}]
  /\ \A p \in Procs : pc[p] = "idle" <=> op[p] = None
  /\ \A p \in Procs : pc[p] \in {"mail", "log", "save"} => lock = p /\ cfg[p] \in Configs
  /\ \A i \in DOMAIN rows : rows[i] \in Configs
  /\ lastLog \in Ages \cup {None} /\ lastMail \in Ages \cup {None}
  /\ load \subseteq Checked

\* There is one row of configuration, unless two of the first requests
\* overlapped: nothing that happens later adds a second one.  While there is one
\* it is what all acknowledged updates make of the default: none is lost to
\* another update or to a read in between.
UpdatesAreKept ==
  /\ firstRace \/ Len(rows) <= 1
  /\ Len(rows) = 1 => rows[1] = want

\* The monitor's mails are a cooldown apart, unless two checks overlapped or a
\* mail was not logged: a crash or a failed mail does not shorten it.
CooldownKept ==
  [][lastMail' = 0 /\ pc' # pc /\ (\E k \in Checks : pc[k] = "mail" /\ pc'[k] = "log")
     => blind \/ lastMail \in {None, Cooldown}]_vars

\* A mail goes out only while the configuration that is in force says so: an
\* update that has answered silences the checks that are already under way.
MailsOnlyWhenEnabled ==
  [][\A p \in Procs :
       pc[p] = "mail" /\ pc'[p] = "log" /\ result'[p] = "sent" /\ Len(rows) = 1
       => shouldSend(rows[1])]_vars

\* While a threshold stays exceeded, alerting enabled and a mail server configured,
\* the monitor keeps sending mails.
Storm == /\ smtp /\ rows # <<>>
         /\ \A i \in DOMAIN rows : shouldSend(rows[i]) /\ Exceeds(rows[i])
StormIsAlerted == <>[]Storm => []<>(lastMail = 0)
=============================================================================
