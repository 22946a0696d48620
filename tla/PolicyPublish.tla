---------------------------- MODULE PolicyPublish ----------------------------
(***************************************************************************)
(* PolicyPublishService (src/src/rules/policy-publish.service.ts) with the *)
(* services it drives: nginx.conf (NginxConfigService), the policy files   *)
(* (RulesFilesystemService), nginx itself (NginxCommandService), the       *)
(* version table (PolicyVersionService) and the audit table                *)
(* (OpsAuditService).                                                      *)
(*                                                                         *)
(* A process is one HTTP request at a time.  publish, updateRuntime and    *)
(* updateGlobalConfig run under the global Nginx lock; rollbackToVersion   *)
(* reads its target version before it calls publish.  The lock is the one  *)
(* of AdvisoryLock while no session is lost: `holder' is the process in    *)
(* withLock's callback.  Every await of a file, a command or a query is a  *)
(* step of its own, which may fail, and between which others may step.     *)
(*                                                                         *)
(* Data is abstracted to what decides the control: a policy document to    *)
(* its rules, its references and its dynamic-block score; nginx.conf to    *)
(* the servers that name a policy file, the server-level directives and    *)
(* one value for the http-level ones.                                      *)
(***************************************************************************)
EXTENDS Naturals, Sequences

CONSTANTS
  Procs,        \* concurrent requests
  Servers,      \* server names that requests give
  Served,       \* those of nginx.conf's server blocks
  Rules,        \* contents of a request's rules array
  Malformed,    \* those that sanitizeRules throws on
  Unloadable,   \* those that the nginx module refuses to load
  RuleSets,     \* names of core rule sets and templates
  KnownSets,    \* those with a version in the database
  Scores,       \* dynamicBlockBaseScore values
  Globals,      \* http-level settings
  InitConf,     \* nginx.conf before the first request
  Requests,     \* the requests that arrive
  None, Torn,   \* no value; a file that was written in part
  Faults,       \* which of the failures below may happen
  MaxOps,       \* bound: requests in one behaviour
  MaxFaults     \* bound: failures in one behaviour

FaultKinds == {"write", "db", "cmd", "crash"}
Replies == {"SUCCESS", "FAILED", "ERROR"}

Bodies == [rules : Rules, refs : SUBSET RuleSets, dyn : Scores \cup {None}]
\* Server-level directives, and an update of them; "unset" is an absent field.
Modes == [waf : {"on", "off"}, action : {"LOG", "BLOCK"}]
Patches == [waf : {"on", "off", "unset"}, action : {"LOG", "DENY", "ALLOW", "unset"}]
Confs == [wired : SUBSET Served, mode : [Served -> Modes], glob : Globals]

\* A rollback becomes a publish once its target is read.
Publishes == [op : {"publish"}, server : Servers, body : Bodies, dry : BOOLEAN,
              base : Nat, target : Nat]
Rollbacks == [op : {"rollback"}, server : Servers, target : Nat \ {0}]
Updates == [op : {"runtime"}, server : Servers, patch : Patches]
             \cup [op : {"global"}, value : Globals]

ASSUME PublishAssumptions ==
  /\ Served \subseteq Servers
  /\ Malformed \subseteq Rules
  /\ Unloadable \subseteq Rules
  /\ KnownSets \subseteq RuleSets
  /\ None \notin Procs \cup Bodies \cup Confs \cup Scores \cup Replies
  /\ None \notin Publishes \cup Rollbacks \cup Updates
  /\ Torn \notin Bodies \cup Confs
  /\ None # Torn
  /\ InitConf \in Confs
  /\ InitConf.wired = {}
  /\ Requests \subseteq Publishes \cup Rollbacks \cup Updates
  /\ Faults \subseteq FaultKinds
  /\ MaxOps \in Nat
  /\ MaxFaults \in Nat

VARIABLES
  pc,          \* pc[p]: the next step of p's handler
  req,         \* req[p]: its arguments
  holder,      \* the process in the callback of the global lock
  draft,       \* draft[p]: newConf, the edited text built from what was parsed
  backup,      \* backup[p]: the .bak file that p copied nginx.conf to
  backedUp,    \* backedUp[p]: the handler has backupPath and targetConfPath
  conf,        \* nginx.conf
  pol,         \* pol[s]: user/<s>.json, None when there is no file
  running,     \* what nginx runs: the configuration and the policies it names
  versions,    \* versions[s]: rows of server_policy_version, by versionNo
  audit,       \* audit[p]: statuses of the audit rows of p's current request
  reply,       \* reply[p]: outcome of p's last request
  atLock,      \* history: the files and nginx when the lock was last taken
  hit,         \* history: failures since the lock was last taken
  ops, faultsLeft

files == <<conf, pol>>
db == <<versions, audit>>
local == <<draft, backup, backedUp>>
vars == <<pc, req, holder, local, files, running, db, reply, atLock, hit, ops, faultsLeft>>

Outside == {"idle", "lookup", "lock"}
Inside == {"check", "writePolicy", "parse", "backup", "writeConf", "test", "reload",
           "save", "audit", "failSave", "failAudit", "restore"}
----------------------------------------------------------------------------
(* nginx *)

\* nginx parses nginx.conf and, through the module, each policy it names.
Loadable ==
  /\ conf # Torn
  /\ \A s \in conf.wired : pol[s] \notin {None, Torn} /\ pol[s].rules \notin Unloadable

Loaded == [conf |-> conf, pol |-> [s \in conf.wired |-> pol[s]]]

\* setDirective for each field that is present; waf_default_action is LOG or,
\* for anything else, BLOCK.
Patched(mode, patch) ==
  [waf |-> IF patch.waf = "unset" THEN mode.waf ELSE patch.waf,
   action |-> IF patch.action = "unset" THEN mode.action
              ELSE IF patch.action = "LOG" THEN "LOG" ELSE "BLOCK"]

\* The edits of the parsed configuration.
UpdateServerRulesJson(c, s) == [c EXCEPT !.wired = @ \cup {s}]
UpdateServerRuntimeDirectives(c, s, patch) == [c EXCEPT !.mode[s] = Patched(@, patch)]
UpdateGlobalRuntimeDirectives(c, value) == [c EXCEPT !.glob = value]

\* The one that a request makes.
Edit(r, c) ==
  IF r.op = "publish" THEN UpdateServerRulesJson(c, r.server)
  ELSE IF r.op = "runtime" THEN UpdateServerRuntimeDirectives(c, r.server, r.patch)
  ELSE UpdateGlobalRuntimeDirectives(c, r.value)

\* Mutant: the server block is not looked for.
Editable_AnyServer(r, c) == c # Torn

\* crossplane can parse the file, and the server block is there.
Editable(r, c) == c # Torn /\ (r.op \in {"publish", "runtime"} => r.server \in Served)
----------------------------------------------------------------------------
Init ==
  /\ pc = [p \in Procs |-> "idle"]
  /\ req = [p \in Procs |-> None]
  /\ holder = None
  /\ draft = [p \in Procs |-> None]
  /\ backup = [p \in Procs |-> None]
  /\ backedUp = [p \in Procs |-> FALSE]
  /\ conf = InitConf
  /\ pol = [s \in Servers |-> None]
  /\ running = Loaded
  /\ versions = [s \in Servers |-> <<>>]
  /\ audit = [p \in Procs |-> <<>>]
  /\ reply = [p \in Procs |-> None]
  /\ atLock = [conf |-> conf, pol |-> pol, running |-> running]
  /\ hit = {}
  /\ ops = 0
  /\ faultsLeft = MaxFaults

Goto(p, label) == pc' = [pc EXCEPT ![p] = label]

Fail(kind) ==
  /\ kind \in Faults
  /\ faultsLeft > 0
  /\ faultsLeft' = faultsLeft - 1
  /\ hit' = hit \cup {kind}
NoFault == UNCHANGED <<hit, faultsLeft>>

\* An exception inside the try block leads to the catch block: publish records
\* the failure first, updateRuntime audits it, updateGlobalConfig does neither.
Throw(p) ==
  Goto(p, IF req[p].op = "publish" THEN "failSave"
          ELSE IF req[p].op = "runtime" THEN "failAudit"
          ELSE "restore")

\* The handler answers; ERROR is an exception that leaves it.
Answer(p, status) ==
  /\ Goto(p, "idle")
  /\ req' = [req EXCEPT ![p] = None]
  /\ reply' = [reply EXCEPT ![p] = status]

\* withLock's finally releases the lock before the answer.
Return(p, status) ==
  /\ Answer(p, status)
  /\ holder' = None
  /\ draft' = [draft EXCEPT ![p] = None]
  /\ backup' = [backup EXCEPT ![p] = None]
  /\ backedUp' = [backedUp EXCEPT ![p] = FALSE]

Record(s, body, status) ==
  versions' = [versions EXCEPT ![s] = Append(@, [body |-> body, status |-> status])]
Log(p, status) == audit' = [audit EXCEPT ![p] = Append(@, status)]

\* What a step inside the callback leaves alone.
Within == UNCHANGED <<req, holder, reply, atLock, ops>>
----------------------------------------------------------------------------
(* Before the lock *)

Submit(p) ==
  /\ pc[p] = "idle"
  /\ ops < MaxOps
  /\ ops' = ops + 1
  /\ \E r \in Requests :
       /\ req' = [req EXCEPT ![p] = r]
       /\ Goto(p, IF r.op = "rollback" THEN "lookup" ELSE "lock")
  /\ audit' = [audit EXCEPT ![p] = <<>>]
  /\ reply' = [reply EXCEPT ![p] = None]
  /\ UNCHANGED <<holder, local, files, running, versions, atLock, hit, faultsLeft>>

\* The publish that a rollback to v makes: it copies the rules and the
\* references of the row, whatever its status, and sets no score.
AsPublish(r, v) ==
  [op |-> "publish", server |-> r.server, body |-> [v.body EXCEPT !.dyn = None],
   dry |-> FALSE, base |-> 0, target |-> r.target]

\* rollbackToVersion: findByVersionNo, and an exception when there is no row.
Lookup(p) ==
  LET r == req[p]
      found == r.target \in 1..Len(versions[r.server])
  IN
  /\ pc[p] = "lookup"
  /\ \/ /\ found
        /\ req' = [req EXCEPT ![p] = AsPublish(r, versions[r.server][r.target])]
        /\ Goto(p, "lock")
        /\ UNCHANGED <<reply, hit, faultsLeft>>
     \/ /\ \/ ~found /\ NoFault
           \/ Fail("db")
        /\ Answer(p, "ERROR")
  /\ UNCHANGED <<holder, local, files, running, db, atLock, ops>>

\* Mutant: the lock is not waited for.
Lock_NoWait(p) ==
  /\ pc[p] = "lock"
  /\ holder' = p
  /\ hit' = {}
  /\ atLock' = [conf |-> conf, pol |-> pol, running |-> running]
  /\ Goto(p, IF req[p].op = "publish" THEN "check" ELSE "parse")
  /\ UNCHANGED <<req, local, files, running, db, reply, ops, faultsLeft>>

Lock(p) ==
  /\ pc[p] = "lock"
  /\ holder = None
  /\ holder' = p
  /\ hit' = {}
  /\ atLock' = [conf |-> conf, pol |-> pol, running |-> running]
  /\ Goto(p, IF req[p].op = "publish" THEN "check" ELSE "parse")
  /\ UNCHANGED <<req, local, files, running, db, reply, ops, faultsLeft>>

\* acquire gives up, or its connection or a poll fails: the callback does not
\* run and nothing is recorded.  (The failure is none of the holder's.)
LockTimeout(p) ==
  /\ pc[p] = "lock"
  /\ \/ /\ holder # None
        /\ UNCHANGED faultsLeft
     \/ /\ "db" \in Faults
        /\ faultsLeft > 0
        /\ faultsLeft' = faultsLeft - 1
  /\ Answer(p, "ERROR")
  /\ UNCHANGED <<holder, local, files, running, db, atLock, hit, ops>>
----------------------------------------------------------------------------
(* publish: compose and write the policy *)

\* assertBaseVersion when a base version is given (0 is none), and
\* assertReferences.
Acceptable(r) ==
  /\ r.base # 0 => r.base \in 1..Len(versions[r.server])
  /\ r.body.refs \subseteq KnownSets

\* sanitizeRules comes before the try block: its exception leaves the handler.
\* The queries come inside it.  A dry run skips the files and nginx.
Check(p) ==
  LET r == req[p] IN
  /\ pc[p] = "check"
  /\ \/ /\ r.body.rules \in Malformed
        /\ Return(p, "ERROR")
        /\ NoFault
        /\ UNCHANGED <<atLock, ops>>
     \/ /\ r.body.rules \notin Malformed
        /\ \/ /\ Acceptable(r)
              /\ Goto(p, IF r.dry THEN "save" ELSE "writePolicy")
              /\ NoFault
           \/ /\ ~Acceptable(r)
              /\ Throw(p)
              /\ NoFault
           \/ /\ Fail("db")
              /\ Throw(p)
        /\ UNCHANGED local
        /\ Within
  /\ UNCHANGED <<files, running, db>>

\* writeFileSync truncates and writes in place; when it fails the old file, or
\* a part of the new one, is left.
WritePolicy(p) ==
  LET r == req[p] IN
  /\ pc[p] = "writePolicy"
  /\ \/ /\ pol' = [pol EXCEPT ![r.server] = r.body]
        /\ Goto(p, "parse")
        /\ NoFault
     \/ /\ Fail("write")
        /\ pol' \in {pol, [pol EXCEPT ![r.server] = Torn]}
        /\ Throw(p)
  /\ UNCHANGED <<local, conf, running, db>>
  /\ Within
----------------------------------------------------------------------------
(* The pipeline over nginx.conf: parse, edit, back up, write, test, reload *)

Parse(p) ==
  /\ pc[p] = "parse"
  /\ \/ /\ Editable(req[p], conf)
        /\ draft' = [draft EXCEPT ![p] = Edit(req[p], conf)]
        /\ Goto(p, "backup")
        /\ NoFault
     \/ /\ \/ ~Editable(req[p], conf) /\ NoFault
           \/ Fail("cmd")
        /\ Throw(p)
        /\ UNCHANGED draft
  /\ UNCHANGED <<backup, backedUp, files, running, db>>
  /\ Within

Backup(p) ==
  /\ pc[p] = "backup"
  /\ \/ /\ backup' = [backup EXCEPT ![p] = conf]
        /\ Goto(p, "writeConf")
        /\ NoFault
     \/ /\ Fail("write")
        /\ Throw(p)
        /\ UNCHANGED backup
  /\ UNCHANGED <<draft, backedUp, files, running, db>>
  /\ Within

\* Mutant: the backup is taken after the write.
WriteConf_BackupAfter(p) ==
  /\ pc[p] = "writeConf"
  /\ \/ /\ conf' = draft[p]
        /\ backedUp' = [backedUp EXCEPT ![p] = TRUE]
        /\ backup' = [backup EXCEPT ![p] = draft[p]]
        /\ Goto(p, "test")
        /\ NoFault
     \/ /\ Fail("write")
        /\ conf' \in {conf, Torn}
        /\ Throw(p)
        /\ UNCHANGED <<backup, backedUp>>
  /\ UNCHANGED <<draft, pol, running, db>>
  /\ Within

\* writeFile truncates and writes in place.  The handler learns the backup's
\* path with the result, so that a write that fails is not restored.
WriteConf(p) ==
  /\ pc[p] = "writeConf"
  /\ \/ /\ conf' = draft[p]
        /\ backedUp' = [backedUp EXCEPT ![p] = TRUE]
        /\ Goto(p, "test")
        /\ NoFault
     \/ /\ Fail("write")
        /\ conf' \in {conf, Torn}
        /\ Throw(p)
        /\ UNCHANGED backedUp
  /\ UNCHANGED <<draft, backup, pol, running, db>>
  /\ Within

\* Mutant: nginx -t is retried until it passes.
Test_Retried(p) ==
  /\ pc[p] = "test"
  /\ Loadable
  /\ Goto(p, "reload")
  /\ NoFault
  /\ UNCHANGED <<local, files, running, db>>
  /\ Within

\* nginx -t
Test(p) ==
  /\ pc[p] = "test"
  /\ \/ Loadable /\ Goto(p, "reload") /\ NoFault
     \/ ~Loadable /\ Throw(p) /\ NoFault
     \/ Fail("cmd") /\ Throw(p)
  /\ UNCHANGED <<local, files, running, db>>
  /\ Within

\* Mutant: reload is taken to have happened when the command fails.
Reload_IgnoresResult(p) ==
  /\ pc[p] = "reload"
  /\ Goto(p, IF req[p].op = "publish" THEN "save" ELSE "audit")
  /\ \/ Loadable /\ running' = Loaded /\ NoFault
     \/ UNCHANGED running /\ Fail("cmd")
  /\ UNCHANGED <<local, files, db>>
  /\ Within

\* nginx -s reload, which parses the configuration as well.
Reload(p) ==
  /\ pc[p] = "reload"
  /\ \/ /\ Loadable
        /\ running' = Loaded
        /\ Goto(p, IF req[p].op = "publish" THEN "save" ELSE "audit")
        /\ NoFault
     \/ /\ \/ ~Loadable /\ NoFault
           \/ Fail("cmd")
        /\ Throw(p)
        /\ UNCHANGED running
  /\ UNCHANGED <<local, files, db>>
  /\ Within
----------------------------------------------------------------------------
(* Recording the outcome *)

\* createVersion, SUCCESS: the row and its audit entry in one transaction.  A
\* commit whose answer is lost has happened all the same.
Save(p) ==
  LET r == req[p] IN
  /\ pc[p] = "save"
  /\ \/ /\ \/ NoFault /\ Goto(p, "audit")
           \/ Fail("db") /\ Throw(p)
        /\ Record(r.server, r.body, "SUCCESS")
        /\ Log(p, "SUCCESS")
     \/ Fail("db") /\ Throw(p) /\ UNCHANGED db
  /\ UNCHANGED <<local, files, running>>
  /\ Within

\* audit.log, SUCCESS, and the answer.
Audit(p) ==
  /\ pc[p] = "audit"
  /\ \/ /\ Log(p, "SUCCESS")
        /\ Return(p, "SUCCESS")
        /\ NoFault
        /\ UNCHANGED <<atLock, ops>>
     \/ /\ Fail("db")
        /\ Throw(p)
        /\ Log(p, "SUCCESS") \/ UNCHANGED audit
        /\ UNCHANGED local
        /\ Within
  /\ UNCHANGED <<files, running, versions>>

\* Mutant: the failed version is not saved.
FailSave_Skipped(p) ==
  /\ pc[p] = "failSave"
  /\ Goto(p, "failAudit")
  /\ NoFault
  /\ UNCHANGED <<local, files, running, db>>
  /\ Within

\* persistFailure: a FAILED version; an exception of its own is only logged.
FailSave(p) ==
  LET r == req[p] IN
  /\ pc[p] = "failSave"
  /\ Goto(p, "failAudit")
  /\ \/ (NoFault \/ Fail("db")) /\ Record(r.server, r.body, "FAILED") /\ Log(p, "FAILED")
     \/ Fail("db") /\ UNCHANGED db
  /\ UNCHANGED <<local, files, running>>
  /\ Within

\* audit.log, FAILED, inside the catch block: its exception leaves the handler
\* before the restore.
FailAudit(p) ==
  /\ pc[p] = "failAudit"
  /\ \/ /\ Log(p, "FAILED")
        /\ Goto(p, "restore")
        /\ NoFault
        /\ UNCHANGED local
        /\ Within
     \/ /\ Fail("db")
        /\ Return(p, "ERROR")
        /\ Log(p, "FAILED") \/ UNCHANGED audit
        /\ UNCHANGED <<atLock, ops>>
  /\ UNCHANGED <<files, running, versions>>

\* restoreBackup, when the handler has a backup: nginx.conf only, and nginx is
\* not told.  An error of the copy is only logged.
Restore(p) ==
  /\ pc[p] = "restore"
  /\ \/ conf' = (IF backedUp[p] THEN backup[p] ELSE conf) /\ NoFault
     \/ backedUp[p] /\ Fail("write") /\ conf' \in {conf, Torn}
  /\ Return(p, "FAILED")
  /\ UNCHANGED <<pol, running, db, atLock, ops>>
----------------------------------------------------------------------------
\* The server process dies.  Its session and with it the lock are gone; the
\* file that was being written may be torn; nginx runs on.  The next start
\* looks at none of this.
Crash ==
  /\ Fail("crash")
  /\ \E p \in Procs : pc[p] # "idle"
  /\ conf' \in {conf} \cup
       IF \E p \in Procs : pc[p] = "writeConf" \/ (pc[p] = "restore" /\ backedUp[p])
       THEN {Torn} ELSE {}
  /\ pol' \in {pol} \cup
       {[pol EXCEPT ![req[p].server] = Torn] : p \in {q \in Procs : pc[q] = "writePolicy"}}
  /\ pc' = [p \in Procs |-> "idle"]
  /\ req' = [p \in Procs |-> None]
  /\ reply' = [p \in Procs |-> None]
  /\ holder' = None
  /\ draft' = [p \in Procs |-> None]
  /\ backup' = [p \in Procs |-> None]
  /\ backedUp' = [p \in Procs |-> FALSE]
  /\ UNCHANGED <<running, db, atLock, ops>>

\* The handlers, by the steps each of them has.
Pipeline(p) ==
  \/ Lock(p) \/ LockTimeout(p) \/ Parse(p) \/ Backup(p) \/ WriteConf(p)
  \/ Test(p) \/ Reload(p) \/ Audit(p) \/ Restore(p)

publish(p) ==
  /\ req[p] \in Publishes
  /\ \/ Check(p) \/ WritePolicy(p) \/ Save(p) \/ FailSave(p) \/ FailAudit(p)
     \/ Pipeline(p)

updateRuntime(p) ==
  /\ req[p] \in Updates /\ req[p].op = "runtime"
  /\ Pipeline(p) \/ FailAudit(p)

updateGlobalConfig(p) ==
  /\ req[p] \in Updates /\ req[p].op = "global"
  /\ Pipeline(p)

rollbackToVersion(p) == Lookup(p)

Step(p) ==
  publish(p) \/ updateRuntime(p) \/ updateGlobalConfig(p) \/ rollbackToVersion(p)

Next == (\E p \in Procs : Submit(p) \/ Step(p)) \/ Crash

\* Every promise a handler awaits is settled in the end: queries by the
\* driver, files by the system, commands by their exit (execFile is given no
\* timeout: a command that hangs is outside the model).
Fairness == \A p \in Procs : WF_vars(Step(p))

Spec == Init /\ [][Next]_vars
FairSpec == Spec /\ Fairness
----------------------------------------------------------------------------
\* Types.
TypeOK ==
  /\ pc \in [Procs -> Outside \cup Inside]
  /\ req \in [Procs -> Publishes \cup Rollbacks \cup Updates \cup {None}]
  /\ \A p \in Procs :
       /\ pc[p] = "idle" <=> req[p] = None
       /\ pc[p] = "lookup" <=> req[p] \in Rollbacks
       /\ pc[p] \in {"check", "writePolicy", "save", "failSave"} => req[p] \in Publishes
  /\ holder \in Procs \cup {None}
  /\ draft \in [Procs -> Confs \cup {None}]
  /\ backup \in [Procs -> Confs \cup {None}]
  /\ backedUp \in [Procs -> BOOLEAN]
  /\ conf \in Confs \cup {Torn}
  /\ pol \in [Servers -> Bodies \cup {None, Torn}]
  /\ running.conf \in Confs
  /\ running.pol \in [running.conf.wired -> Bodies]
  /\ versions \in [Servers -> Seq([body : Bodies, status : {"SUCCESS", "FAILED"}])]
  /\ audit \in [Procs -> Seq({"SUCCESS", "FAILED"})]
  /\ reply \in [Procs -> Replies \cup {None}]
  /\ hit \subseteq FaultKinds
  /\ ops \in 0..MaxOps
  /\ faultsLeft \in 0..MaxFaults

\* What a handler has read or tested still holds when it acts on it: the text
\* it writes is its edit of the file that is there, the backup is the file it
\* replaces, the file that is tested and loaded is the one it wrote and loads,
\* and a restore brings back what it found when it took the lock.
ReadsAreFresh ==
  \A p \in Procs :
    /\ pc[p] \in {"backup", "writeConf"} => draft[p] = Edit(req[p], conf)
    /\ pc[p] = "writeConf" => backup[p] = conf
    /\ pc[p] \in {"test", "reload"} => conf = draft[p]
    /\ pc[p] = "reload" => Loadable
    /\ backedUp[p] => backup[p] = atLock.conf

\* p's handler leaves the callback of the lock with this outcome.
Ends(p, status) == holder = p /\ pc'[p] = "idle" /\ reply'[p] = status

\* A SUCCESS reply, but for a dry run, means that nginx runs the file that is
\* on disk, that it is the file found under the lock with this request's edit
\* and no other, and for a publish that the policy in force is the request's.
AckedIsLive ==
  [][\A p \in Procs :
       LET r == req[p] IN
       Ends(p, "SUCCESS") /\ ~(r.op = "publish" /\ r.dry)
       => /\ conf' = running'.conf
          /\ conf' = Edit(r, atLock.conf)
          /\ r.op = "publish" => running'.pol[r.server] = r.body]_vars

\* A row enters the version history as SUCCESS only while nginx runs exactly
\* the policy of the row, or from a dry run.
RecordedAfterLive ==
  [][\A s \in Servers :
       LET row == versions'[s][Len(versions'[s])] IN
       versions'[s] # versions[s] /\ row.status = "SUCCESS"
       => \/ req[holder].dry
          \/ s \in running.conf.wired /\ running.pol[s] = row.body]_vars

\* A FAILED reply means that nginx.conf is what it was when the lock was
\* taken, unless a write failed; and that nginx runs what it ran then, unless
\* the database failed, which may be after the reload.
FailureKeepsOld ==
  [][\A p \in Procs :
       Ends(p, "FAILED")
       => /\ "write" \notin hit' => conf' = atLock.conf
          /\ "db" \notin hit' => running' = atLock.running]_vars

\* Unless the database failed, the audit rows of a publish or a runtime update
\* say what its reply says, and a publish's newest version says it as well
\* (README.md: a failed publish saves a failed version and the audit log).
RepliesAreRecorded ==
  [][\A p \in Procs : \A status \in {"SUCCESS", "FAILED"} :
       LET r == req[p] IN
       Ends(p, status) /\ "db" \notin hit' /\ r.op # "global"
       => /\ audit'[p] # <<>>
          /\ \A i \in 1..Len(audit'[p]) : audit'[p][i] = status
          /\ r.op = "publish" =>
               LET rows == versions'[r.server] IN
               /\ rows # <<>>
               /\ rows[Len(rows)] = [body |-> r.body, status |-> status]]_vars

\* Every request is answered, whatever fails and whoever else waits.
EveryRequestAnswered == \A p \in Procs : pc[p] # "idle" ~> pc[p] = "idle"
----------------------------------------------------------------------------
(* What the documentation says, and the code does not do *)

\* rules.controller.ts, publish: a failure is rolled back.  Files that nginx
\* could load when the lock was taken can be loaded after the rollback.
FailureKeepsLoadable ==
  [][\A p \in Procs :
       /\ Ends(p, "FAILED")
       /\ atLock.conf # Torn
       /\ \A s \in atLock.conf.wired :
            atLock.pol[s] \notin {None, Torn} /\ atLock.pol[s].rules \notin Unloadable
       => Loadable']_vars

\* README.md: on failure the configuration is rolled back.  A request that does
\* not succeed leaves nginx.conf and what nginx runs as they were.
FailureRollsBack ==
  [][\A p \in Procs, status \in {"FAILED", "ERROR"} :
       Ends(p, status) => conf' = atLock.conf /\ running' = atLock.running]_vars

\* publish-policy.dto.ts, baseVersionId: it is there to detect conflicts.  A
\* publish based on a version does not succeed over a newer successful one.
NoLostVersion ==
  [][\A p \in Procs :
       LET r == req[p] IN
       pc[p] = "save" /\ pc'[p] = "audit" /\ r.base # 0
       => \A n \in (r.base + 1)..Len(versions[r.server]) :
            versions[r.server][n].status # "SUCCESS"]_vars
=============================================================================
