------------------------------ MODULE RuleSets ------------------------------
(***************************************************************************)
(* The versioned rule sets: TemplatesService, CoreRulesService,            *)
(* CoreFactoryService and PolicyVersionService.createVersion, with the     *)
(* template files (RulesFilesystemService) that the policies published by  *)
(* PolicyPublishService name and nginx loads.                              *)
(*                                                                         *)
(* Every change of a name runs under the advisory lock of the name and in  *)
(* one database transaction; the lock belongs to a session of its own, so  *)
(* that a transaction goes on when the lock is lost.  A transaction reads  *)
(* what is committed; its writes are `pend' until it commits; the unique   *)
(* index on (name, versionNo) makes an insertion wait for, or fail on, the *)
(* same number of another.  Files are written at once and in place.        *)
(*                                                                         *)
(* Boot is CoreRulesBootstrap: it seeds each core set before the process   *)
(* listens.  Of publish only the steps are here that templates touch: the  *)
(* check of the references, the policy file, the test, the reload and the  *)
(* version; PolicyPublish has the whole handler.                           *)
(***************************************************************************)
EXTENDS Integers, FiniteSets, FiniteSetsExt

CONSTANTS
  Procs,                      \* concurrent requests
  Boot,                       \* the start of the process
  Templates, Cores, Servers,  \* names
  Rules,                      \* contents of a rules array
  Shipped,                    \* the core sets that have a file in the factory directory
  Malformed,                  \* those that sanitizeRules throws on
  Factory,                    \* the contents of those files
  Requests,                   \* the requests that arrive
  None, Torn,                 \* no value; a file that was written in part
  Global,                     \* LOCK_GLOBAL_NGINX
  Faults, MaxOps, MaxFaults   \* which failures; bounds

Names == Templates \cup Cores \cup Servers
Actors == Procs \cup {Boot}
Statuses == {"SUCCESS", "FAILED"}
FACTORY_VERSION_NO == 1

Creates == [op : {"create"}, name : Templates \cup Cores, rules : Rules]
Rollbacks == [op : {"rollback"}, name : Templates \cup Cores, to : Nat]
Deletes == [op : {"delete"}, name : Templates]
Publishes == [op : {"publish"}, name : Servers, uses : SUBSET (Templates \cup Cores)]
Seeds == [op : {"seed"}, name : Shipped]
Calls == Creates \cup Rollbacks \cup Deletes \cup Publishes \cup Seeds

ASSUME RuleSetsAssumptions ==
  /\ Shipped \subseteq Cores
  /\ Templates \cap Cores = {} /\ Templates \cap Servers = {} /\ Cores \cap Servers = {}
  /\ Malformed \subseteq Rules
  /\ Factory \in Rules \ Malformed
  /\ Boot \notin Procs
  /\ Requests \subseteq Creates \cup Rollbacks \cup Deletes \cup Publishes
  /\ None \notin Actors \cup Rules \cup Statuses \cup Calls
  /\ Torn \notin Rules \cup {None}
  /\ Global \notin Names
  /\ Faults \subseteq {"db", "write", "crash", "session"}
  /\ MaxOps \in Nat /\ MaxFaults \in Nat

VARIABLES
  up,        \* the process listens
  seeded,    \* core sets that this start has seen to
  pc, req,   \* the next step of each request, and the request
  outcome,   \* outcome[p]: the status that p's publish will record
  new,       \* new[p]: the version row that p is about to save
  pend,      \* pend[p]: the uncommitted writes of p's transaction
  lock,      \* lock[k]: who holds the advisory lock k
  rows,      \* rows[n]: the version rows of a name
  audit,     \* audit[n]: what the audit rows of n tell of, added up: a version
             \* more for each creation, as many fewer as each deletion deleted
  file,      \* file[n]: the template file, or the managed core file
  uses,      \* uses[s]: the templates that user/<s>.json names
  wired,     \* servers that nginx.conf points to their policy
  was,       \* was[p]: the backup of nginx.conf that p's publish made
  running,   \* running[s]: the templates that nginx runs for s
  reply,     \* reply[p]: outcome of p's last request
  past,      \* history: past[n]: rules of the versions that n ever had
  left,      \* history: left[n]: rules that an operation wrote to the file of n
             \* before it failed
  spoilt,    \* history: templates whose file an operation touched and then failed;
             \* core sets whose seeding ended after the row was saved, not the file
  lost,      \* history: locks that were lost while they were held
  deleted,   \* history: templates that were deleted
  ops, faultsLeft

store == <<rows, audit, past>>
nginx == <<uses, wired, was, running>>
history == <<left, spoilt, lost, deleted>>
counters == <<ops, faultsLeft>>
vars == <<up, seeded, pc, req, outcome, new, pend, lock, store, file, nginx, reply,
          history, counters>>

NoRow == [no |-> 0, rules |-> None]
NoWrites == [ins |-> {}, del |-> {}]
InTxn == {"insert", "truncate", "write", "unlink", "commit"}
Numbers(n) == {r.no : r \in rows[n]}
Row(n, v) == CHOOSE r \in rows[n] : r.no = v

\* nextVersion: the highest number plus one, or 1.
nextVersion(n) == IF rows[n] = {} THEN FACTORY_VERSION_NO ELSE Max(Numbers(n)) + 1
Newest(n) == IF rows[n] = {} THEN None ELSE Row(n, Max(Numbers(n))).rules

\* nginx -t: each policy that nginx.conf points to, and each file it extends.
\* Core sets are extended from the factory directory, which nobody writes.
Loadable == \A s \in wired : \A t \in uses[s] : file[t] \notin {None, Torn}
Loaded == [s \in Servers |-> IF s \in wired THEN [t \in uses[s] |-> file[t]] ELSE <<>>]
----------------------------------------------------------------------------
Init ==
  /\ up = FALSE /\ seeded = {}
  /\ pc = [p \in Actors |-> "idle"]
  /\ req = [p \in Actors |-> None]
  /\ outcome = [p \in Actors |-> "SUCCESS"]
  /\ new = [p \in Actors |-> NoRow]
  /\ pend = [p \in Actors |-> NoWrites]
  /\ lock = [k \in Names \cup {Global} |-> None]
  /\ rows = [n \in Names |-> {}]
  /\ audit = [n \in Names |-> 0]
  /\ file = [n \in Templates \cup Cores |-> None]
  /\ uses = [s \in Servers |-> {}]
  /\ wired = {}
  /\ was = [p \in Actors |-> None]
  /\ running = Loaded
  /\ reply = [p \in Actors |-> None]
  /\ past = [n \in Names |-> {}]
  /\ left = [n \in Names |-> {}]
  /\ spoilt = {} /\ lost = {} /\ deleted = {}
  /\ ops = 0 /\ faultsLeft = MaxFaults

Goto(p, label) == pc' = [pc EXCEPT ![p] = label]
Fail(kind) == kind \in Faults /\ faultsLeft > 0 /\ faultsLeft' = faultsLeft - 1
NoFault == UNCHANGED faultsLeft

\* withLock's finally: a lock that is still held is given back.
Freed(p, k) == [lock EXCEPT ![k] = IF @ = p THEN None ELSE @]

\* The transaction and the callback of the name's lock end.  A request on a rule
\* set is answered; a publish records a failure and then restores; a seed that
\* failed ends the process.
Leave(p, status) ==
  LET r == req[p]
      saved == status = "OK"
  IN
  /\ lock' = Freed(p, r.name)
  /\ new' = [new EXCEPT ![p] = NoRow]
  /\ pend' = [pend EXCEPT ![p] = NoWrites]
  /\ IF r.op = "publish"
     THEN /\ Goto(p, IF saved /\ outcome[p] = "SUCCESS" THEN "done"
                     ELSE IF outcome[p] = "SUCCESS" THEN "lock" ELSE "restore")
          /\ outcome' = [outcome EXCEPT ![p] = IF saved THEN @ ELSE "FAILED"]
          /\ UNCHANGED <<req, reply, seeded>>
     ELSE /\ Goto(p, "idle")
          /\ req' = [req EXCEPT ![p] = None]
          /\ reply' = [reply EXCEPT ![p] = status]
          /\ seeded' = IF r.op # "seed" THEN seeded
                       ELSE IF saved THEN seeded \cup {r.name} ELSE {}
          /\ UNCHANGED outcome

\* Between the first touch of a file and the end of its transaction.
Touching(p) == \/ pc[p] \in {"truncate", "write", "unlink"}
               \/ pc[p] = "commit" /\ req[p].name \in Templates

\* What the operations on n of these processes have written and not recorded.
Written(n, ps) ==
  {new[p].rules : p \in {q \in ps : pc[q] = "commit" /\ req[q].name = n /\ n \in Templates}}

\* An operation that has touched the file of its name leaves it as it is.
Abort(p) ==
  /\ Leave(p, "ERROR")
  /\ spoilt' = spoilt \cup IF Touching(p) THEN {req[p].name} ELSE {}
  /\ left' = [n \in Names |-> left[n] \cup Written(n, {p})]
----------------------------------------------------------------------------
(* Requests and locks *)

Submit(p) ==
  /\ up /\ pc[p] = "idle" /\ ops < MaxOps
  /\ ops' = ops + 1
  /\ \E r \in Requests :
       /\ req' = [req EXCEPT ![p] = r]
       /\ Goto(p, IF r.op = "publish" THEN "global" ELSE "lock")
  /\ outcome' = [outcome EXCEPT ![p] = "SUCCESS"]
  /\ reply' = [reply EXCEPT ![p] = None]
  /\ UNCHANGED <<up, seeded, new, pend, lock, store, file, nginx, history, faultsLeft>>

\* seedFactoryVersions: the files of the factory directory one by one; the
\* process listens after the last.
seedFactoryVersions ==
  /\ ~up /\ pc[Boot] = "idle"
  /\ IF seeded = Shipped
     THEN up' = TRUE /\ UNCHANGED <<pc, req>>
     ELSE \E c \in Shipped \ seeded :
            /\ req' = [req EXCEPT ![Boot] = [op |-> "seed", name |-> c]]
            /\ Goto(Boot, "lock")
            /\ UNCHANGED up
  /\ UNCHANGED <<seeded, outcome, new, pend, lock, store, file, nginx, reply, history,
                 counters>>

\* The lock of the name, or the global one of a publish.
Lock(p) ==
  /\ \/ pc[p] = "lock" /\ lock[req[p].name] = None
        /\ lock' = [lock EXCEPT ![req[p].name] = p] /\ Goto(p, "read")
     \/ pc[p] = "global" /\ lock[Global] = None
        /\ lock' = [lock EXCEPT ![Global] = p] /\ Goto(p, "check")
  /\ UNCHANGED <<up, seeded, req, outcome, new, pend, store, file, nginx, reply, history,
                 counters>>

LockTimeout(p) ==
  /\ \/ pc[p] = "lock" /\ lock[req[p].name] \notin {None, p} /\ Leave(p, "ERROR")
     \/ /\ pc[p] = "global" /\ lock[Global] \notin {None, p}
        /\ Goto(p, "idle")
        /\ req' = [req EXCEPT ![p] = None]
        /\ reply' = [reply EXCEPT ![p] = "ERROR"]
        /\ UNCHANGED <<lock, new, pend, outcome, seeded>>
  /\ UNCHANGED <<up, store, file, nginx, history, counters>>
----------------------------------------------------------------------------
(* The transaction *)

\* Mutant: a core set needs no factory version.
Read_NoBaseline(p) ==
  LET r == req[p]
      n == r.name
      Draft(no, rules) == /\ new' = [new EXCEPT ![p] = [no |-> no, rules |-> rules]]
                          /\ Goto(p, "insert")
                          /\ UNCHANGED <<req, reply, seeded, outcome, lock, pend>>
  IN
  /\ pc[p] = "read"
  /\ \/ /\ NoFault
        /\ \/ /\ r.op = "create"
              /\ IF r.rules \notin Malformed
                 THEN Draft(nextVersion(n), r.rules)
                 ELSE Leave(p, "ERROR")
           \/ /\ r.op = "rollback"
              /\ IF r.to \in Numbers(n) THEN Draft(nextVersion(n), Row(n, r.to).rules)
                 ELSE Leave(p, "null")
           \/ /\ r.op = "seed"
              /\ IF FACTORY_VERSION_NO \in Numbers(n) THEN Leave(p, "OK")
                 ELSE Draft(FACTORY_VERSION_NO, Factory)
           \/ r.op = "publish" /\ Draft(nextVersion(n), outcome[p])
           \/ r.op = "delete" /\ Draft(0, None)
     \/ Fail("db") /\ Leave(p, "ERROR")
  /\ UNCHANGED <<up, store, file, nginx, history, ops>>

\* Mutant: a core set is seeded at every start.
Read_SeedsAgain(p) ==
  LET r == req[p]
      n == r.name
      Draft(no, rules) == /\ new' = [new EXCEPT ![p] = [no |-> no, rules |-> rules]]
                          /\ Goto(p, "insert")
                          /\ UNCHANGED <<req, reply, seeded, outcome, lock, pend>>
  IN
  /\ pc[p] = "read"
  /\ \/ /\ NoFault
        /\ \/ /\ r.op = "create"
              /\ IF r.rules \notin Malformed
                    /\ (n \in Cores => FACTORY_VERSION_NO \in Numbers(n))
                 THEN Draft(nextVersion(n), r.rules)
                 ELSE Leave(p, "ERROR")
           \/ /\ r.op = "rollback"
              /\ IF r.to \in Numbers(n) THEN Draft(nextVersion(n), Row(n, r.to).rules)
                 ELSE Leave(p, "null")
           \/ /\ r.op = "seed"
              /\ Draft(FACTORY_VERSION_NO, Factory)
           \/ r.op = "publish" /\ Draft(nextVersion(n), outcome[p])
           \/ r.op = "delete" /\ Draft(0, None)
     \/ Fail("db") /\ Leave(p, "ERROR")
  /\ UNCHANGED <<up, store, file, nginx, history, ops>>

\* Mutant: a rollback waits for its target.
Read_Waits(p) ==
  LET r == req[p]
      n == r.name
      Draft(no, rules) == /\ new' = [new EXCEPT ![p] = [no |-> no, rules |-> rules]]
                          /\ Goto(p, "insert")
                          /\ UNCHANGED <<req, reply, seeded, outcome, lock, pend>>
  IN
  /\ pc[p] = "read"
  /\ \/ /\ NoFault
        /\ \/ /\ r.op = "create"
              /\ IF r.rules \notin Malformed
                    /\ (n \in Cores => FACTORY_VERSION_NO \in Numbers(n))
                 THEN Draft(nextVersion(n), r.rules)
                 ELSE Leave(p, "ERROR")
           \/ /\ r.op = "rollback"
              /\ r.to \in Numbers(n) /\ Draft(nextVersion(n), Row(n, r.to).rules)
           \/ /\ r.op = "seed"
              /\ IF FACTORY_VERSION_NO \in Numbers(n) THEN Leave(p, "OK")
                 ELSE Draft(FACTORY_VERSION_NO, Factory)
           \/ r.op = "publish" /\ Draft(nextVersion(n), outcome[p])
           \/ r.op = "delete" /\ Draft(0, None)
     \/ Fail("db") /\ Leave(p, "ERROR")
  /\ UNCHANGED <<up, store, file, nginx, history, ops>>

\* What create, rollback, seedOne and createVersion read before they save.  A
\* core set is created only over its factory version; a rollback to a version
\* that is not there answers null; a core set that has version 1 is not seeded.
Read(p) ==
  LET r == req[p]
      n == r.name
      Draft(no, rules) == /\ new' = [new EXCEPT ![p] = [no |-> no, rules |-> rules]]
                          /\ Goto(p, "insert")
                          /\ UNCHANGED <<req, reply, seeded, outcome, lock, pend>>
  IN
  /\ pc[p] = "read"
  /\ \/ /\ NoFault
        /\ \/ /\ r.op = "create"
              /\ IF r.rules \notin Malformed
                    /\ (n \in Cores => FACTORY_VERSION_NO \in Numbers(n))
                 THEN Draft(nextVersion(n), r.rules)
                 ELSE Leave(p, "ERROR")
           \/ /\ r.op = "rollback"
              /\ IF r.to \in Numbers(n) THEN Draft(nextVersion(n), Row(n, r.to).rules)
                 ELSE Leave(p, "null")
           \/ /\ r.op = "seed"
              /\ IF FACTORY_VERSION_NO \in Numbers(n) THEN Leave(p, "OK")
                 ELSE Draft(FACTORY_VERSION_NO, Factory)
           \/ r.op = "publish" /\ Draft(nextVersion(n), outcome[p])
           \/ r.op = "delete" /\ Draft(0, None)
     \/ Fail("db") /\ Leave(p, "ERROR")
  /\ UNCHANGED <<up, store, file, nginx, history, ops>>

\* Another transaction has written the row and has not ended.
Blocked(p, no) ==
  \E q \in Actors \ {p} :
    /\ pc[q] \in InTxn /\ req[q].name = req[p].name
    /\ \E r \in pend[q].ins \cup pend[q].del : r.no = no

\* Mutant: there is no unique index on (name, versionNo).
Insert_NoIndex(p) ==
  LET n == req[p].name IN
  /\ pc[p] = "insert" /\ req[p].op \notin {"delete", "seed"}
  /\ NoFault
  /\ pend' = [pend EXCEPT ![p].ins = {new[p]}]
  /\ Goto(p, IF n \in Templates THEN "truncate" ELSE "commit")
  /\ UNCHANGED <<up, seeded, req, outcome, new, lock, store, file, nginx, reply, history,
                 ops>>

\* Mutant: a save that fails is only logged.
Insert_ErrorLogged(p) ==
  LET n == req[p].name IN
  /\ pc[p] = "insert" /\ req[p].op \notin {"delete", "seed"}
  /\ ~Blocked(p, new[p].no)
  /\ \/ new[p].no \notin Numbers(n) /\ NoFault /\ pend' = [pend EXCEPT ![p].ins = {new[p]}]
     \/ ((new[p].no \in Numbers(n) /\ NoFault) \/ Fail("db")) /\ UNCHANGED pend
  /\ Goto(p, IF n \in Templates THEN "truncate" ELSE "commit")
  /\ UNCHANGED <<up, seeded, req, outcome, new, lock, store, file, nginx, reply, history,
                 ops>>

\* repo.save in a transaction.
Insert(p) ==
  LET n == req[p].name IN
  /\ pc[p] = "insert" /\ req[p].op \notin {"delete", "seed"}
  /\ ~Blocked(p, new[p].no)
  /\ \/ /\ new[p].no \notin Numbers(n) /\ NoFault
        /\ pend' = [pend EXCEPT ![p].ins = {new[p]}]
        /\ Goto(p, IF n \in Templates THEN "truncate" ELSE "commit")
        /\ UNCHANGED <<seeded, req, outcome, new, lock, reply>>
     \/ ((new[p].no \in Numbers(n) /\ NoFault) \/ Fail("db")) /\ Leave(p, "ERROR")
  /\ UNCHANGED <<up, store, file, nginx, history, ops>>

\* Mutant: every version but the newest is deleted.
Delete_KeepsNewest(p) ==
  LET n == req[p].name IN
  /\ pc[p] = "insert" /\ req[p].op = "delete"
  /\ NoFault
  /\ pend' = [pend EXCEPT ![p].del = {r \in rows[n] : r.no # Max(Numbers(n))}]
  /\ Goto(p, "unlink")
  /\ UNCHANGED <<up, seeded, req, outcome, new, lock, reply, store, file, nginx, history, ops>>

\* delete({templateName})
Delete(p) ==
  LET n == req[p].name IN
  /\ pc[p] = "insert" /\ req[p].op = "delete"
  /\ \A no \in Numbers(n) : ~Blocked(p, no)
  /\ \/ /\ NoFault
        /\ pend' = [pend EXCEPT ![p].del = rows[n]]
        /\ Goto(p, "unlink")
        /\ UNCHANGED <<seeded, req, outcome, new, lock, reply>>
     \/ Fail("db") /\ Leave(p, "ERROR")
  /\ UNCHANGED <<up, store, file, nginx, history, ops>>

\* seedOne saves in no transaction with the file.  A save whose answer is lost has
\* happened all the same: the start fails, and the next one finds version 1.
SeedRow(p) ==
  LET n == req[p].name
      Stored == /\ new[p].no \notin Numbers(n)
                /\ rows' = [rows EXCEPT ![n] = @ \cup {new[p]}]
                /\ past' = [past EXCEPT ![n] = @ \cup {Factory}]
  IN
  /\ pc[p] = "insert" /\ req[p].op = "seed"
  /\ \/ /\ NoFault /\ Stored
        /\ Goto(p, "truncate")
        /\ UNCHANGED <<seeded, req, outcome, new, pend, lock, reply, spoilt>>
     \/ /\ Fail("db") /\ Stored
        /\ Leave(p, "ERROR") /\ spoilt' = spoilt \cup {n}
     \/ /\ (new[p].no \in Numbers(n) /\ NoFault) \/ Fail("db")
        /\ Leave(p, "ERROR") /\ UNCHANGED <<rows, past, spoilt>>
  /\ UNCHANGED <<up, audit, file, nginx, left, lost, deleted, ops>>

\* writeTemplate inside the transaction, writeManagedFile after the save.  nginx
\* may look at the file, and the process may die, between truncation and write.
Truncate(p) ==
  /\ pc[p] = "truncate"
  /\ \/ /\ NoFault
        /\ file' = [file EXCEPT ![req[p].name] = Torn]
        /\ Goto(p, "write")
        /\ UNCHANGED <<seeded, req, outcome, new, pend, lock, reply, history>>
     \/ /\ Fail("write") /\ Abort(p)
        /\ UNCHANGED <<file, lost, deleted>>
  /\ UNCHANGED <<up, store, nginx, ops>>

Write(p) ==
  /\ pc[p] = "write"
  /\ \/ /\ NoFault
        /\ file' = [file EXCEPT ![req[p].name] = new[p].rules]
        /\ IF req[p].op = "seed" THEN Leave(p, "OK")
           ELSE Goto(p, "commit") /\ UNCHANGED <<seeded, req, outcome, new, pend, lock, reply>>
        /\ UNCHANGED history
     \/ /\ Fail("write") /\ Abort(p)
        /\ UNCHANGED <<file, lost, deleted>>
  /\ UNCHANGED <<up, store, nginx, ops>>

\* deleteTemplate
Unlink(p) ==
  /\ pc[p] = "unlink"
  /\ \/ /\ NoFault
        /\ file' = [file EXCEPT ![req[p].name] = None]
        /\ deleted' = deleted \cup {req[p].name}
        /\ Goto(p, "commit")
        /\ UNCHANGED <<seeded, req, outcome, new, pend, lock, reply, left, spoilt>>
     \/ /\ Fail("write") /\ Abort(p)
        /\ UNCHANGED <<file, deleted>>
  /\ UNCHANGED <<up, store, nginx, lost, ops>>

\* Mutant: the audit row is written on a connection of its own.
Commit_AuditApart(p) ==
  LET n == req[p].name
      w == pend[p]
  IN
  /\ pc[p] = "commit"
  /\ \/ /\ (NoFault /\ Leave(p, "OK")) \/ (Fail("db") /\ Leave(p, "ERROR"))
        /\ rows' = [rows EXCEPT ![n] = (@ \ w.del) \cup w.ins]
        /\ audit' = [audit EXCEPT ![n] = @ + Cardinality(w.ins) - Cardinality(w.del)]
        /\ past' = [past EXCEPT ![n] = @ \cup {r.rules : r \in w.ins}]
        /\ spoilt' = spoilt \ ({n} \cap Templates) /\ UNCHANGED left
     \/ /\ Fail("db") /\ Abort(p) /\ UNCHANGED <<rows, past>>
        /\ audit' = [audit EXCEPT ![n] = @ + Cardinality(w.ins) - Cardinality(w.del)]
  /\ UNCHANGED <<up, file, nginx, lost, deleted, ops>>

\* Mutant: a rollback takes back the versions after its target.
Commit_Resets(p) ==
  LET n == req[p].name
      w == pend[p]
  IN
  /\ pc[p] = "commit"
  /\ \/ /\ (NoFault /\ Leave(p, "OK")) \/ (Fail("db") /\ Leave(p, "ERROR"))
        /\ rows' = [rows EXCEPT ![n] = IF req[p].op = "rollback" THEN {r \in @ : r.no <= req[p].to}
                                       ELSE (@ \ w.del) \cup w.ins]
        /\ audit' = [audit EXCEPT ![n] = @ + Cardinality(w.ins) - Cardinality(w.del)]
        /\ past' = [past EXCEPT ![n] = @ \cup {r.rules : r \in w.ins}]
        /\ spoilt' = spoilt \ ({n} \cap Templates) /\ UNCHANGED left
     \/ Fail("db") /\ Abort(p) /\ UNCHANGED store
  /\ UNCHANGED <<up, file, nginx, lost, deleted, ops>>

\* logWithManager and the commit: the rows and the audit row, or neither.  A
\* commit whose answer is lost has happened all the same.
Commit(p) ==
  LET n == req[p].name
      w == pend[p]
  IN
  /\ pc[p] = "commit"
  /\ \/ /\ (NoFault /\ Leave(p, "OK")) \/ (Fail("db") /\ Leave(p, "ERROR"))
        /\ rows' = [rows EXCEPT ![n] = (@ \ w.del) \cup w.ins]
        /\ audit' = [audit EXCEPT ![n] = @ + Cardinality(w.ins) - Cardinality(w.del)]
        /\ past' = [past EXCEPT ![n] = @ \cup {r.rules : r \in w.ins}]
        /\ spoilt' = spoilt \ ({n} \cap Templates) /\ UNCHANGED left
     \/ Fail("db") /\ Abort(p) /\ UNCHANGED store
  /\ UNCHANGED <<up, file, nginx, lost, deleted, ops>>
----------------------------------------------------------------------------
(* publish *)

\* Mutant: the references are not checked.
CheckReferences_Skipped(p) ==
  LET known == TRUE IN
  /\ pc[p] = "check"
  /\ was' = [was EXCEPT ![p] = None]
  /\ \/ known /\ NoFault /\ Goto(p, "policy") /\ UNCHANGED outcome
     \/ /\ (~known /\ NoFault) \/ Fail("db")
        /\ Goto(p, "lock") /\ outcome' = [outcome EXCEPT ![p] = "FAILED"]
  /\ UNCHANGED <<up, seeded, req, new, pend, lock, store, file, uses, wired, running, reply,
                 history, ops>>

\* assertReferences: each name has a version.  Files are not looked at.
CheckReferences(p) ==
  LET known == \A n \in req[p].uses : rows[n] # {} IN
  /\ pc[p] = "check"
  /\ was' = [was EXCEPT ![p] = None]
  /\ \/ known /\ NoFault /\ Goto(p, "policy") /\ UNCHANGED outcome
     \/ /\ (~known /\ NoFault) \/ Fail("db")
        /\ Goto(p, "lock") /\ outcome' = [outcome EXCEPT ![p] = "FAILED"]
  /\ UNCHANGED <<up, seeded, req, new, pend, lock, store, file, uses, wired, running, reply,
                 history, ops>>

\* Mutant: core sets are extended from the template directory.
WritePolicy_OneDirectory(p) ==
  LET r == req[p] IN
  /\ pc[p] = "policy"
  /\ uses' = [uses EXCEPT ![r.name] = r.uses]
  /\ was' = [was EXCEPT ![p] = wired]
  /\ wired' = wired \cup {r.name}
  /\ Goto(p, "test")
  /\ UNCHANGED <<up, seeded, req, outcome, new, pend, lock, store, file, running, reply,
                 history, counters>>

\* writePolicy, and the backup and the edit of nginx.conf.
WritePolicy(p) ==
  LET r == req[p] IN
  /\ pc[p] = "policy"
  /\ uses' = [uses EXCEPT ![r.name] = r.uses \cap Templates]
  /\ was' = [was EXCEPT ![p] = wired]
  /\ wired' = wired \cup {r.name}
  /\ Goto(p, "test")
  /\ UNCHANGED <<up, seeded, req, outcome, new, pend, lock, store, file, running, reply,
                 history, counters>>

\* nginx -t, then nginx -s reload, which checks again.
Reload(p) ==
  /\ pc[p] \in {"test", "reload"}
  /\ IF Loadable
     THEN /\ Goto(p, IF pc[p] = "test" THEN "reload" ELSE "lock")
          /\ running' = IF pc[p] = "reload" THEN Loaded ELSE running
          /\ UNCHANGED outcome
     ELSE /\ Goto(p, "lock") /\ outcome' = [outcome EXCEPT ![p] = "FAILED"]
          /\ UNCHANGED running
  /\ UNCHANGED <<up, seeded, req, new, pend, lock, store, file, uses, wired, was, reply,
                 history, counters>>

\* The restore of a failure, and the answer.
Finish(p) ==
  /\ pc[p] \in {"done", "restore"}
  /\ wired' = IF pc[p] = "restore" /\ was[p] # None THEN was[p] ELSE wired
  /\ Goto(p, "idle")
  /\ req' = [req EXCEPT ![p] = None]
  /\ reply' = [reply EXCEPT ![p] = outcome[p]]
  /\ lock' = Freed(p, Global)
  /\ UNCHANGED <<up, seeded, outcome, new, pend, store, file, uses, was, running, history,
                 counters>>
----------------------------------------------------------------------------
\* The process dies and is started again; sessions, and with them locks and
\* open transactions, are gone.
Crash ==
  /\ Fail("crash")
  /\ spoilt' = spoilt \cup {req[p].name : p \in {q \in Actors : Touching(q)}}
  /\ left' = [n \in Names |-> left[n] \cup Written(n, Actors)]
  /\ up' = FALSE /\ seeded' = {}
  /\ pc' = [p \in Actors |-> "idle"]
  /\ req' = [p \in Actors |-> None]
  /\ outcome' = [p \in Actors |-> "SUCCESS"]
  /\ new' = [p \in Actors |-> NoRow]
  /\ pend' = [p \in Actors |-> NoWrites]
  /\ lock' = [k \in Names \cup {Global} |-> None]
  /\ was' = [p \in Actors |-> None]
  /\ reply' = [p \in Actors |-> None]
  /\ UNCHANGED <<store, file, uses, wired, running, lost, deleted, ops>>

\* The session that holds a lock ends; its callback does not notice.
SessionLoss ==
  /\ Fail("session")
  /\ \E k \in Names \cup {Global} :
       /\ lock[k] # None
       /\ lock' = [lock EXCEPT ![k] = None]
       /\ lost' = lost \cup {k}
  /\ UNCHANGED <<up, seeded, pc, req, outcome, new, pend, store, file, nginx, reply, left,
                 spoilt, deleted, ops>>

Step(p) ==
  \/ Lock(p) \/ LockTimeout(p) \/ Read(p) \/ Insert(p) \/ Delete(p) \/ SeedRow(p)
  \/ Truncate(p) \/ Write(p) \/ Unlink(p) \/ Commit(p)
  \/ CheckReferences(p) \/ WritePolicy(p) \/ Reload(p) \/ Finish(p)

Next ==
  \/ \E p \in Procs : Submit(p)
  \/ \E p \in Actors : Step(p)
  \/ seedFactoryVersions \/ Crash \/ SessionLoss

\* Queries and files settle; a process that died is started again.
Fairness == (\A p \in Actors : WF_vars(Step(p))) /\ WF_vars(seedFactoryVersions)

Spec == Init /\ [][Next]_vars
FairSpec == Spec /\ Fairness
----------------------------------------------------------------------------
Busy(n) == \E p \in Actors : req[p] # None /\ req[p].name = n /\ pc[p] \in InTxn

\* Types.
TypeOK ==
  /\ up \in BOOLEAN /\ seeded \subseteq Shipped
  /\ req \in [Actors -> Calls \cup {None}]
  /\ \A p \in Actors : pc[p] = "idle" <=> req[p] = None
  /\ lock \in [Names \cup {Global} -> Actors \cup {None}]
  /\ \A n \in Names : \A r \in rows[n] : r.no \in Nat \ {0} /\ r.rules \in Rules \cup Statuses
  /\ file \in [Templates \cup Cores -> Rules \cup {None, Torn}]
  /\ wired \subseteq Servers /\ uses \in [Servers -> SUBSET Templates]

\* The numbers of a name are 1 to the number of its versions, each once.  They
\* stay unique when the lock of the name was lost.
NumbersAreDense ==
  \A n \in Names :
    /\ Cardinality(Numbers(n)) = Cardinality(rows[n])
    /\ n \notin lost => Numbers(n) = 1..Cardinality(rows[n])

\* The versions of a name in the order of their numbers: while its lock was not
\* lost they are a log to which committed operations add, that holds accepted
\* rules only, and that nothing but a deletion empties.
Logged == [n \in Names |->
  IF n \in lost THEN <<>> ELSE [i \in 1..Cardinality(rows[n]) |-> Row(n, i).rules]]
Promise == INSTANCE VersionLog
  WITH Deletable <- Templates, Entries <- (Rules \ Malformed) \cup Statuses,
       log <- Logged, void <- lost \ {Global}
KeepsPromise == Promise!Spec

\* The audit rows of a name add up to its versions, whatever failed or was
\* lost: no version without an audit row, and no audit row without its change.
AuditBalances ==
  \A n \in Names :
    Cardinality(rows[n]) = audit[n] + IF n \in Cores /\ rows[n] # {} THEN 1 ELSE 0

\* While nobody is at work on a template its file is its newest version, or is
\* absent like its versions, unless an operation failed after it touched the file.
FileIsNewest ==
  \A t \in Templates \ (spoilt \cup lost) : ~Busy(t) => file[t] = Newest(t)

\* nginx runs for a template only rules that are or were one of its versions,
\* that a transaction is about to make one, or that an operation left in the file
\* when it failed; whichever locks are lost.
RunsRecordedRules ==
  \A s \in Servers : \A t \in DOMAIN running[s] :
    \/ running[s][t] \in past[t] \cup left[t]
    \/ \E p \in Procs : pc[p] = "commit" /\ req[p].name = t /\ running[s][t] = new[p].rules

\* The files that published policies name are there and complete, whoever
\* edits them, but for deleted ones and while one is rewritten: an edit of a
\* template alone does not stop the servers that use it from loading.
UsedFilesStay ==
  \A s \in wired : \A t \in uses[s] \ (spoilt \cup lost \cup deleted) :
    \/ file[t] \notin {None, Torn}
    \/ \E p \in Procs : pc[p] = "write" /\ req[p].name = t

\* Version 1 of a core set is its factory version for ever, and a name without
\* one has no versions; once the process listens each shipped set has it.  Its
\* managed file is then written too, but where a seeding ended between the two:
\* by a crash, a failed write, or an answer of the database that was lost after
\* the row was saved.  No later start makes up for that.
FactoryIsBaseline ==
  \A c \in Cores :
    /\ rows[c] # {} => [no |-> FACTORY_VERSION_NO, rules |-> Factory] \in rows[c]
    /\ up /\ c \in Shipped => rows[c] # {} /\ (c \in spoilt \/ file[c] = Factory)

\* Every request is answered, and the process comes up again after a crash.
EveryRequestAnswered == \A p \in Procs : pc[p] # "idle" ~> pc[p] = "idle"
ComesUp == []<>up
=============================================================================
