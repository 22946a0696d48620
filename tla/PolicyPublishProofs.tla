------------------------ MODULE PolicyPublishProofs ------------------------
(***************************************************************************)
(* What the publish pipeline guarantees for any number of requests,        *)
(* servers, policies and faults.                                           *)
(*                                                                         *)
(* The argument: only the holder of the lock is inside the pipeline        *)
(* (Guarded), so that what holds of the files between two of its steps is  *)
(* what its own steps made of them.  Kept says what that is, relative to   *)
(* the files found when the lock was taken (atLock), up to the write;      *)
(* Installed says it from the reload on; Undone on the way to the failure  *)
(* reply.                                                                  *)
(***************************************************************************)
EXTENDS PolicyPublish, TLAPS

BeforeWrite == {"check", "writePolicy", "parse", "backup", "writeConf"}
Recording == {"save", "audit"}

Guarded(p) ==
  /\ pc[p] \in Inside <=> holder = p
  /\ backedUp[p] => holder = p

Kept(p) ==
  /\ pc[p] \in BeforeWrite => conf = atLock.conf
  /\ pc[p] \in {"backup", "writeConf", "test", "reload"} =>
       /\ atLock.conf \in Confs
       /\ Editable(req[p], atLock.conf)
       /\ draft[p] = Edit(req[p], atLock.conf)
  /\ pc[p] \in {"parse", "backup", "writeConf", "test", "reload"} /\ req[p].op = "publish" =>
       pol[req[p].server] = req[p].body
  /\ pc[p] = "writeConf" => backup[p] = conf
  /\ pc[p] \in {"test", "reload"} => conf = draft[p]
  /\ pc[p] = "reload" => Loadable
  /\ backedUp[p] => backup[p] = atLock.conf /\ atLock.conf \in Confs

Installed(p) ==
  pc[p] \in Recording /\ ~(req[p].op = "publish" /\ req[p].dry) =>
    /\ conf = running.conf
    /\ conf = Edit(req[p], atLock.conf)
    /\ req[p].op = "publish" =>
         /\ req[p].server \in running.conf.wired
         /\ running.pol[req[p].server] = req[p].body

Undone(p) ==
  holder = p =>
    /\ "write" \notin hit /\ ~backedUp[p] => conf = atLock.conf
    /\ "db" \notin hit /\ pc[p] \notin Recording => running = atLock.running

PInv(p) == Guarded(p) /\ Kept(p) /\ Installed(p) /\ Undone(p)
IInv == TypeOK /\ \A p \in Procs : PInv(p)
----------------------------------------------------------------------------
\* Every step of a handler is one of these.
AnyStep(p) ==
  \/ Lookup(p) \/ Lock(p) \/ LockTimeout(p)
  \/ Check(p) \/ WritePolicy(p) \/ Parse(p) \/ Backup(p) \/ WriteConf(p)
  \/ Test(p) \/ Reload(p) \/ Save(p) \/ Audit(p)
  \/ FailSave(p) \/ FailAudit(p) \/ Restore(p)

LEMMA Steps == ASSUME NEW p \in Procs, Step(p) PROVE AnyStep(p)
BY DEF Step, publish, updateRuntime, updateGlobalConfig, rollbackToVersion, Pipeline, AnyStep

\* The kinds of request are told apart by their op.
LEMMA Kinds ==
  /\ \A r \in Publishes : r.op = "publish" /\ r.server \in Servers /\ r.body \in Bodies
  /\ \A r \in Rollbacks : r.op = "rollback" /\ r.server \in Servers
  /\ \A r \in Updates : \/ r.op = "runtime" /\ r.server \in Servers /\ r.patch \in Patches
                        \/ r.op = "global" /\ r.value \in Globals
<1>1. \A r \in Publishes : r.op = "publish" /\ r.server \in Servers /\ r.body \in Bodies
  BY DEF Publishes
<1>2. \A r \in Rollbacks : r.op = "rollback" /\ r.server \in Servers
  BY DEF Rollbacks
<1>3. \A r \in [op : {"runtime"}, server : Servers, patch : Patches] :
        r.op = "runtime" /\ r.server \in Servers /\ r.patch \in Patches
  OBVIOUS
<1>4. \A r \in [op : {"global"}, value : Globals] : r.op = "global" /\ r.value \in Globals
  OBVIOUS
<1>5. ASSUME NEW r \in Updates
      PROVE  \/ r.op = "runtime" /\ r.server \in Servers /\ r.patch \in Patches
             \/ r.op = "global" /\ r.value \in Globals
  <2>1. r \in [op : {"runtime"}, server : Servers, patch : Patches]
          \/ r \in [op : {"global"}, value : Globals]
    BY DEF Updates
  <2>2. QED
    BY <2>1, <1>3, <1>4
<1>6. QED
  BY <1>1, <1>2, <1>5

LEMMA PatchedType ==
  ASSUME NEW mode \in Modes, NEW patch \in Patches
  PROVE  Patched(mode, patch) \in Modes
BY DEF Patched, Modes, Patches

\* An edit of a configuration is a configuration.
LEMMA EditType ==
  ASSUME NEW r \in Publishes \cup Updates, NEW c \in Confs, Editable(r, c)
  PROVE  Edit(r, c) \in Confs
<1>1. CASE r.op = "publish"
  BY <1>1 DEF Edit, UpdateServerRulesJson, Editable, Confs
<1>2. CASE r.op = "runtime"
  <2>1. r.patch \in Patches /\ r.server \in Served /\ c.mode[r.server] \in Modes
    BY <1>2, Kinds DEF Editable, Confs
  <2>2. Patched(c.mode[r.server], r.patch) \in Modes
    BY <2>1, PatchedType
  <2>3. QED
    BY <1>2, <2>1, <2>2 DEF Edit, UpdateServerRuntimeDirectives, Confs
<1>3. CASE r.op = "global"
  BY <1>3, Kinds DEF Edit, UpdateGlobalRuntimeDirectives, Confs
<1>4. QED
  BY <1>1, <1>2, <1>3, Kinds

\* What nginx loads is a configuration and the policies it names.
LEMMA LoadedType ==
  ASSUME TypeOK, Loadable
  PROVE  /\ Loaded.conf \in Confs
         /\ Loaded.pol \in [Loaded.conf.wired -> Bodies]
<1>1. conf \in Confs /\ conf.wired \subseteq Servers
  BY PublishAssumptions DEF TypeOK, Loadable, Confs
<1>2. \A s \in conf.wired : pol[s] \in Bodies
  BY <1>1 DEF TypeOK, Loadable
<1>3. QED
  BY <1>1, <1>2 DEF Loaded

CatchLabels == {"failSave", "failAudit", "restore"}

\* Where an exception leads: a handler with a request other than a rollback
\* goes on in its catch block, at failSave only if it publishes.
LEMMA ThrowTo ==
  ASSUME NEW p \in Procs, Throw(p), req[p] \in Publishes \cup Updates
  PROVE  \E l \in CatchLabels :
           /\ pc' = [pc EXCEPT ![p] = l]
           /\ l = "failSave" => req[p] \in Publishes
<1>1. CASE req[p].op = "publish"
  BY <1>1, Kinds DEF Throw, Goto, CatchLabels
<1>2. CASE req[p].op = "runtime"
  BY <1>2, Kinds DEF Throw, Goto, CatchLabels
<1>3. CASE req[p].op = "global"
  BY <1>3, Kinds DEF Throw, Goto, CatchLabels
<1>4. QED
  BY <1>1, <1>2, <1>3, Kinds
----------------------------------------------------------------------------
(* Types *)

\* The part of TypeOK about where a handler is and what its request is.
Control ==
  /\ pc \in [Procs -> Outside \cup Inside]
  /\ req \in [Procs -> Publishes \cup Rollbacks \cup Updates \cup {None}]
  /\ \A p \in Procs :
       /\ pc[p] = "idle" <=> req[p] = None
       /\ pc[p] = "lookup" <=> req[p] \in Rollbacks
       /\ pc[p] \in {"check", "writePolicy", "save", "failSave"} => req[p] \in Publishes

PublishLabels == {"check", "writePolicy", "save", "failSave"}
Labels == (Outside \cup Inside) \ {"idle", "lookup"}

\* Past its lookup a handler has a request other than a rollback.
LEMMA MidRequest ==
  ASSUME TypeOK, NEW p \in Procs, pc[p] \notin {"idle", "lookup"}
  PROVE  req[p] \in Publishes \cup Updates
BY DEF TypeOK

LEMMA GotoControl ==
  ASSUME TypeOK, NEW p \in Procs, pc[p] \notin {"idle", "lookup"}, NEW l \in Labels,
         l \in PublishLabels => req[p] \in Publishes,
         pc' = [pc EXCEPT ![p] = l], req' = req
  PROVE  Control'
<1>1. req[p] # None /\ req[p] \notin Rollbacks
  BY DEF TypeOK
<1>2. QED
  BY <1>1 DEF TypeOK, Control, Labels, PublishLabels, Outside, Inside

LEMMA ThrowControl ==
  ASSUME TypeOK, NEW p \in Procs, pc[p] \notin {"idle", "lookup"}, Throw(p), req' = req
  PROVE  Control'
<1>1. PICK l \in CatchLabels : /\ pc' = [pc EXCEPT ![p] = l]
                               /\ l = "failSave" => req[p] \in Publishes
  BY MidRequest, ThrowTo
<1>2. l \in Labels /\ (l \in PublishLabels => req[p] \in Publishes)
  BY <1>1 DEF CatchLabels, Labels, PublishLabels, Outside, Inside
<1>3. QED
  BY <1>1, <1>2, GotoControl

\* An answer ends the request.
LEMMA AnswerControl ==
  ASSUME TypeOK, NEW p \in Procs, NEW status \in Replies, Answer(p, status)
  PROVE  Control' /\ reply' \in [Procs -> Replies \cup {None}]
BY PublishAssumptions DEF TypeOK, Control, Answer, Goto, Outside

LEMMA FaultType ==
  ASSUME TypeOK, NEW kind \in FaultKinds, Fail(kind) \/ NoFault
  PROVE  hit' \subseteq FaultKinds /\ faultsLeft' \in 0..MaxFaults
BY PublishAssumptions DEF TypeOK, Fail, NoFault

Rows == [body : Bodies, status : {"SUCCESS", "FAILED"}]

LEMMA RecordType ==
  ASSUME TypeOK, NEW s \in Servers, NEW body \in Bodies,
         NEW status \in {"SUCCESS", "FAILED"}, Record(s, body, status)
  PROVE  versions' \in [Servers -> Seq(Rows)]
<1>1. [body |-> body, status |-> status] \in Rows
  BY DEF Rows
<1>2. versions \in [Servers -> Seq(Rows)]
  BY DEF TypeOK, Rows
<1>3. Append(versions[s], [body |-> body, status |-> status]) \in Seq(Rows)
  BY <1>1, <1>2
<1>4. QED
  BY <1>2, <1>3 DEF Record

LEMMA LogType ==
  ASSUME TypeOK, NEW p \in Procs, NEW status \in {"SUCCESS", "FAILED"}, Log(p, status)
  PROVE  audit' \in [Procs -> Seq({"SUCCESS", "FAILED"})]
<1>1. Append(audit[p], status) \in Seq({"SUCCESS", "FAILED"})
  BY DEF TypeOK
<1>2. QED
  BY <1>1 DEF TypeOK, Log

\* The part of TypeOK about everything else.
DataOK ==
  /\ holder \in Procs \cup {None}
  /\ draft \in [Procs -> Confs \cup {None}]
  /\ backup \in [Procs -> Confs \cup {None}]
  /\ backedUp \in [Procs -> BOOLEAN]
  /\ conf \in Confs \cup {Torn}
  /\ pol \in [Servers -> Bodies \cup {None, Torn}]
  /\ running.conf \in Confs
  /\ running.pol \in [running.conf.wired -> Bodies]
  /\ versions \in [Servers -> Seq(Rows)]
  /\ audit \in [Procs -> Seq({"SUCCESS", "FAILED"})]
  /\ reply \in [Procs -> Replies \cup {None}]
  /\ hit \subseteq FaultKinds
  /\ ops \in 0..MaxOps
  /\ faultsLeft \in 0..MaxFaults

LEMMA Parts == TypeOK <=> Control /\ DataOK
BY DEF TypeOK, Control, DataOK, Rows

LEMMA NextParts == Control' /\ DataOK' => TypeOK'
BY Parts, PTL

LEMMA TypeInit == Init => TypeOK
<1> SUFFICES ASSUME Init PROVE TypeOK
  OBVIOUS
<1>1. Control
  BY PublishAssumptions DEF Init, Control, Outside
<1>2. running.conf \in Confs /\ running.pol \in [running.conf.wired -> Bodies]
  BY PublishAssumptions DEF Init, Loaded
<1>3. DataOK
  BY <1>2, PublishAssumptions DEF Init, DataOK
<1>4. QED
  BY <1>1, <1>3, Parts

\* A rollback's target, read from the table, is a publish.
LEMMA AsPublishType ==
  ASSUME TypeOK, NEW r \in Rollbacks, r.target \in 1..Len(versions[r.server])
  PROVE  AsPublish(r, versions[r.server][r.target]) \in Publishes
<1>1. r.server \in Servers /\ r.target \in Nat
  BY DEF Rollbacks
<1>2. versions[r.server] \in Seq(Rows)
  BY <1>1 DEF TypeOK, Rows
<1>3. versions[r.server][r.target] \in Rows
  BY <1>2
<1>4. versions[r.server][r.target].body \in Bodies
  BY <1>3 DEF Rows
<1>5. QED
  BY <1>1, <1>4 DEF AsPublish, Publishes, Bodies

LEMMA TypeBeforeLock ==
  ASSUME TypeOK, NEW p \in Procs, Submit(p) \/ Lookup(p) \/ Lock(p) \/ LockTimeout(p)
  PROVE  TypeOK'
<1>1. CASE Submit(p)
  <2>1. PICK r \in Requests :
          /\ req' = [req EXCEPT ![p] = r]
          /\ Goto(p, IF r.op = "rollback" THEN "lookup" ELSE "lock")
    BY <1>1 DEF Submit
  <2>2. r \in Publishes \cup Rollbacks \cup Updates /\ r # None
    BY PublishAssumptions
  <2>3. r.op = "rollback" <=> r \in Rollbacks
    BY <2>2, Kinds
  <2>4. Control'
    BY <2>1, <2>2, <2>3 DEF TypeOK, Control, Goto, Outside
  <2>5. audit' \in [Procs -> Seq({"SUCCESS", "FAILED"})]
    BY <1>1 DEF Submit, TypeOK
  <2>6. ops' \in 0..MaxOps
    BY <1>1, PublishAssumptions DEF Submit, TypeOK
  <2>7. DataOK'
    BY <1>1, <2>5, <2>6 DEF Submit, TypeOK, DataOK, Rows, local, files
  <2>8. QED
    BY <2>4, <2>7, NextParts
<1>2. CASE Lookup(p)
  <2>1. pc[p] = "lookup" /\ req[p] \in Rollbacks
    BY <1>2 DEF Lookup, TypeOK
  <2>2. CASE Answer(p, "ERROR")
    <3>1. Control' /\ reply' \in [Procs -> Replies \cup {None}]
      BY <2>2, AnswerControl DEF Replies
    <3>2. hit' \subseteq FaultKinds /\ faultsLeft' \in 0..MaxFaults
      BY <1>2, FaultType DEF Lookup, FaultKinds, NoFault
    <3>3. DataOK'
      BY <1>2, <3>1, <3>2 DEF Lookup, TypeOK, DataOK, Rows, local, files, db
    <3>4. QED
      BY <3>1, <3>3, NextParts
  <2>3. CASE ~Answer(p, "ERROR")
    <3> DEFINE r == AsPublish(req[p], versions[req[p].server][req[p].target])
    <3>1. /\ req[p].target \in 1..Len(versions[req[p].server])
          /\ req' = [req EXCEPT ![p] = r]
          /\ Goto(p, "lock")
          /\ UNCHANGED <<reply, hit, faultsLeft>>
      BY <1>2, <2>3 DEF Lookup
    <3>2. r \in Publishes
      BY <2>1, <3>1, AsPublishType
    <3>3. r # None /\ r \notin Rollbacks
      BY <3>2, Kinds, PublishAssumptions
    <3> HIDE DEF r
    <3>4. Control'
      BY <3>1, <3>2, <3>3 DEF TypeOK, Control, Goto, Outside
    <3>5. DataOK'
      BY <1>2, <3>1 DEF Lookup, TypeOK, DataOK, Rows, local, files, db
    <3>6. QED
      BY <3>4, <3>5, NextParts
  <2>4. QED
    BY <2>2, <2>3
<1>3. CASE Lock(p)
  <2>0. pc[p] \notin {"idle", "lookup"} /\ req' = req
    BY <1>3 DEF Lock
  <2>1. req[p] \in Publishes \cup Updates
    BY <2>0, MidRequest
  <2>2. PICK l \in {"check", "parse"} :
          /\ pc' = [pc EXCEPT ![p] = l]
          /\ l = "check" => req[p].op = "publish"
    BY <1>3 DEF Lock, Goto
  <2>3a. req[p].op = "publish" => req[p] \in Publishes
    BY <2>1, Kinds
  <2>3. l \in Labels /\ (l \in PublishLabels => req[p] \in Publishes)
    BY <2>2, <2>3a DEF Labels, PublishLabels, Inside, Outside
  <2>4. Control'
    BY <2>0, <2>2, <2>3, GotoControl
  <2>5. DataOK'
    BY <1>3 DEF Lock, TypeOK, DataOK, Rows, local, files, db
  <2>6. QED
    BY <2>4, <2>5, NextParts
<1>4. CASE LockTimeout(p)
  <2>1. Control' /\ reply' \in [Procs -> Replies \cup {None}]
    BY <1>4, AnswerControl DEF LockTimeout, Replies
  <2>2. faultsLeft' \in 0..MaxFaults
    BY <1>4, PublishAssumptions DEF LockTimeout, TypeOK, DataOK
  <2>3. UNCHANGED <<holder, draft, backup, backedUp, conf, pol, running, versions, audit,
                    atLock, hit, ops>>
    BY <1>4 DEF LockTimeout, local, files, db
  <2>4. DataOK'
    BY <2>1, <2>2, <2>3 DEF TypeOK, DataOK, Rows
  <2>5. QED
    BY <2>1, <2>4, NextParts
<1>5. QED
  BY <1>1, <1>2, <1>3, <1>4

LEMMA ReturnType ==
  ASSUME TypeOK, NEW p \in Procs, NEW status \in Replies, Return(p, status)
  PROVE  /\ Control'
         /\ reply' \in [Procs -> Replies \cup {None}]
         /\ holder' \in Procs \cup {None}
         /\ draft' \in [Procs -> Confs \cup {None}]
         /\ backup' \in [Procs -> Confs \cup {None}]
         /\ backedUp' \in [Procs -> BOOLEAN]
<1>1. Control' /\ reply' \in [Procs -> Replies \cup {None}]
  BY AnswerControl DEF Return
<1>2. QED
  BY <1>1 DEF Return, TypeOK

LEMMA TypeInside ==
  ASSUME TypeOK, NEW p \in Procs, PInv(p),
         \/ Check(p) \/ WritePolicy(p) \/ Parse(p) \/ Backup(p) \/ WriteConf(p)
         \/ Test(p) \/ Reload(p) \/ Save(p) \/ Audit(p)
         \/ FailSave(p) \/ FailAudit(p) \/ Restore(p)
  PROVE  TypeOK'
<1> DEFINE Faulty == hit' \subseteq FaultKinds /\ faultsLeft' \in 0..MaxFaults
<1>1. pc[p] \notin {"idle", "lookup"} /\ req[p] \in Publishes \cup Updates
  <2>1. pc[p] \notin {"idle", "lookup"}
    BY DEF Check, WritePolicy, Parse, Backup, WriteConf, Test, Reload, Save, Audit,
           FailSave, FailAudit, Restore
  <2>2. QED
    BY <2>1, MidRequest
<1>2. Faulty
  BY FaultType DEF FaultKinds, Check, WritePolicy, Parse, Backup, WriteConf, Test, Reload,
       Save, Audit, FailSave, FailAudit, Restore
<1> HIDE DEF Faulty
<1>3. ASSUME NEW l \in Labels, l \in PublishLabels => req[p] \in Publishes, Goto(p, l), Within
      PROVE  Control'
  BY <1>1, <1>3, GotoControl DEF Goto, Within
<1>4. ASSUME Throw(p), Within
      PROVE  Control'
  BY <1>1, <1>4, ThrowControl DEF Within
<1>5. ASSUME Control', UNCHANGED local, Within, UNCHANGED files, UNCHANGED running, UNCHANGED db
      PROVE  TypeOK'
  <2>1. DataOK'
    BY <1>2, <1>5 DEF Faulty, TypeOK, DataOK, Rows, local, Within, files, db
  <2>2. QED
    BY <1>5, <2>1, NextParts
<1>6. CASE Check(p)
  <2>1. CASE Return(p, "ERROR")
    <3>1. UNCHANGED <<atLock, ops, files, running, db>> 
      BY <1>6, <2>1 DEF Check, Within
    <3>2. DataOK'
      BY <1>2, <3>1, <2>1, ReturnType DEF Faulty, TypeOK, DataOK, Rows, files, db, Replies
    <3>3. QED
      BY <2>1, <3>2, ReturnType, NextParts DEF Replies
  <2>2. CASE ~Return(p, "ERROR")
    <3>1. UNCHANGED local /\ Within /\ UNCHANGED <<files, running, db>>
      BY <1>6, <2>2 DEF Check
    <3>2. req[p] \in Publishes
      BY <1>6 DEF Check, TypeOK
    <3>3. \/ Throw(p)
          \/ \E l \in {"save", "writePolicy"} : Goto(p, l)
      BY <1>6, <2>2 DEF Check
    <3>4. Control'
      BY <1>3, <1>4, <3>1, <3>2, <3>3 DEF Labels, Inside
    <3>5. QED
      BY <1>5, <3>1, <3>4
  <2>3. QED
    BY <2>1, <2>2
<1>7. CASE WritePolicy(p)
  <2>1. Control'
    BY <1>3, <1>4, <1>7 DEF WritePolicy, Labels, Inside, PublishLabels
  <2>2. req[p].server \in Servers /\ req[p].body \in Bodies
    BY <1>7, Kinds DEF WritePolicy, TypeOK
  <2>3. pol' \in [Servers -> Bodies \cup {None, Torn}]
    BY <1>7, <2>2 DEF WritePolicy, TypeOK
  <2>4. DataOK'
    BY <1>2, <1>7, <2>3 DEF WritePolicy, Faulty, TypeOK, DataOK, Rows, local, Within, db
  <2>5. QED
    BY <2>1, <2>4, NextParts
<1>8. CASE Parse(p)
  <2>1. Control'
    BY <1>3, <1>4, <1>8 DEF Parse, Labels, Inside, PublishLabels
  <2>2. draft' \in [Procs -> Confs \cup {None}]
    <3>1. CASE Editable(req[p], conf)
      <4>1. conf \in Confs
        BY <3>1 DEF Editable, TypeOK
      <4>2. Edit(req[p], conf) \in Confs
        BY <1>1, <3>1, <4>1, EditType
      <4>3. QED
        BY <1>8, <4>2 DEF Parse, TypeOK
    <3>2. CASE ~Editable(req[p], conf)
      BY <1>8, <3>2 DEF Parse, TypeOK
    <3>3. QED
      BY <3>1, <3>2
  <2>3. DataOK'
    BY <1>2, <1>8, <2>2 DEF Parse, Faulty, TypeOK, DataOK, Rows, Within, files, db
  <2>4. QED
    BY <2>1, <2>3, NextParts
<1>9. CASE Backup(p)
  <2>1. Control'
    BY <1>3, <1>4, <1>9 DEF Backup, Labels, Inside, PublishLabels
  <2>2. conf \in Confs
    BY <1>9 DEF Backup, PInv, Kept, BeforeWrite
  <2>3. backup' \in [Procs -> Confs \cup {None}]
    BY <1>9, <2>2 DEF Backup, TypeOK
  <2>4. DataOK'
    BY <1>2, <1>9, <2>3 DEF Backup, Faulty, TypeOK, DataOK, Rows, Within, files, db
  <2>5. QED
    BY <2>1, <2>4, NextParts
<1>10. CASE WriteConf(p)
  <2>1. Control'
    BY <1>3, <1>4, <1>10 DEF WriteConf, Labels, Inside, PublishLabels
  <2>2. draft[p] \in Confs
    BY <1>1, <1>10, EditType DEF WriteConf, PInv, Kept
  <2>3. conf' \in Confs \cup {Torn} /\ backedUp' \in [Procs -> BOOLEAN]
    BY <1>10, <2>2 DEF WriteConf, TypeOK
  <2>4. DataOK'
    BY <1>2, <1>10, <2>3 DEF WriteConf, Faulty, TypeOK, DataOK, Rows, Within, files, db
  <2>5. QED
    BY <2>1, <2>4, NextParts
<1>11. CASE Test(p)
  <2>1. Control'
    BY <1>3, <1>4, <1>11 DEF Test, Labels, Inside, PublishLabels
  <2>2. QED
    BY <1>5, <1>11, <2>1 DEF Test
<1>12. CASE Reload(p)
  <2>1. PICK l \in {"save", "audit"} \cup CatchLabels :
          /\ pc' = [pc EXCEPT ![p] = l]
          /\ l \in PublishLabels => req[p] \in Publishes
    <3>1. CASE Throw(p)
      BY <1>1, <3>1, ThrowTo DEF CatchLabels, PublishLabels
    <3>2. CASE ~Throw(p)
      BY <1>1, <1>12, <3>2, Kinds DEF Reload, Goto, PublishLabels
    <3>3. QED
      BY <3>1, <3>2
  <2>2. Control'
    BY <1>1, <1>12, <2>1, GotoControl DEF Reload, Within, Labels, Inside, CatchLabels
  <2>3. running'.conf \in Confs /\ running'.pol \in [running'.conf.wired -> Bodies]
    BY <1>12, LoadedType DEF Reload, TypeOK
  <2>4. DataOK'
    BY <1>2, <1>12, <2>3 DEF Reload, Faulty, TypeOK, DataOK, Rows, Within, local, files, db
  <2>5. QED
    BY <2>2, <2>4, NextParts
<1>13. CASE Save(p)
  <2>1. Control'
    BY <1>3, <1>4, <1>13 DEF Save, Labels, Inside, PublishLabels
  <2>2. req[p].server \in Servers /\ req[p].body \in Bodies
    BY <1>13, Kinds DEF Save, TypeOK
  <2>3. versions' \in [Servers -> Seq(Rows)] /\ audit' \in [Procs -> Seq({"SUCCESS", "FAILED"})]
    <3>1. CASE UNCHANGED db
      BY <3>1 DEF db, TypeOK, Rows
    <3>2. CASE Record(req[p].server, req[p].body, "SUCCESS") /\ Log(p, "SUCCESS")
      BY <2>2, <3>2, RecordType, LogType
    <3>3. QED
      BY <1>13, <3>1, <3>2 DEF Save
  <2>4. DataOK'
    BY <1>2, <1>13, <2>3 DEF Save, Faulty, TypeOK, DataOK, Within, local, files
  <2>5. QED
    BY <2>1, <2>4, NextParts
<1>14. CASE Audit(p)
  <2>1. audit' \in [Procs -> Seq({"SUCCESS", "FAILED"})]
    <3>1. CASE Log(p, "SUCCESS")
      BY <3>1, LogType
    <3>2. CASE UNCHANGED audit
      BY <3>2 DEF TypeOK
    <3>3. QED
      BY <1>14, <3>1, <3>2 DEF Audit
  <2>2. CASE Return(p, "SUCCESS")
    <3>1. UNCHANGED <<atLock, ops, files, running, versions>>
      BY <1>14, <2>2 DEF Audit, Within
    <3>2. DataOK'
      BY <1>2, <2>1, <2>2, <3>1, ReturnType DEF Faulty, TypeOK, DataOK, Rows, files, Replies
    <3>3. QED
      BY <2>2, <3>2, ReturnType, NextParts DEF Replies
  <2>3. CASE ~Return(p, "SUCCESS")
    <3>1. Throw(p) /\ UNCHANGED local /\ Within /\ UNCHANGED <<files, running, versions>>
      BY <1>14, <2>3 DEF Audit
    <3>2. Control'
      BY <1>4, <3>1
    <3>3. DataOK'
      BY <1>2, <2>1, <3>1 DEF Faulty, TypeOK, DataOK, Rows, Within, local, files
    <3>4. QED
      BY <3>2, <3>3, NextParts
  <2>4. QED
    BY <2>2, <2>3
<1>15. CASE FailSave(p)
  <2>1. Control'
    BY <1>3, <1>15 DEF FailSave, Labels, Inside, PublishLabels
  <2>2. req[p].server \in Servers /\ req[p].body \in Bodies
    BY <1>15, Kinds DEF FailSave, TypeOK
  <2>3. versions' \in [Servers -> Seq(Rows)] /\ audit' \in [Procs -> Seq({"SUCCESS", "FAILED"})]
    <3>1. CASE UNCHANGED db
      BY <3>1 DEF db, TypeOK, Rows
    <3>2. CASE Record(req[p].server, req[p].body, "FAILED") /\ Log(p, "FAILED")
      BY <2>2, <3>2, RecordType, LogType
    <3>3. QED
      BY <1>15, <3>1, <3>2 DEF FailSave
  <2>4. DataOK'
    BY <1>2, <1>15, <2>3 DEF FailSave, Faulty, TypeOK, DataOK, Within, local, files
  <2>5. QED
    BY <2>1, <2>4, NextParts
<1>16. CASE FailAudit(p)
  <2>1. audit' \in [Procs -> Seq({"SUCCESS", "FAILED"})]
    <3>1. CASE Log(p, "FAILED")
      BY <3>1, LogType
    <3>2. CASE UNCHANGED audit
      BY <3>2 DEF TypeOK
    <3>3. QED
      BY <1>16, <3>1, <3>2 DEF FailAudit
  <2>2. CASE Return(p, "ERROR")
    <3>1. UNCHANGED <<atLock, ops, files, running, versions>>
      BY <1>16, <2>2 DEF FailAudit, Within
    <3>2. DataOK'
      BY <1>2, <2>1, <2>2, <3>1, ReturnType DEF Faulty, TypeOK, DataOK, Rows, files, Replies
    <3>3. QED
      BY <2>2, <3>2, ReturnType, NextParts DEF Replies
  <2>3. CASE ~Return(p, "ERROR")
    <3>1. Goto(p, "restore") /\ UNCHANGED local /\ Within /\ UNCHANGED <<files, running, versions>>
      BY <1>16, <2>3 DEF FailAudit
    <3>2. Control'
      BY <1>3, <3>1 DEF Labels, Inside, PublishLabels
    <3>3. DataOK'
      BY <1>2, <2>1, <3>1 DEF Faulty, TypeOK, DataOK, Rows, Within, local, files
    <3>4. QED
      BY <3>2, <3>3, NextParts
  <2>4. QED
    BY <2>2, <2>3
<1>17. CASE Restore(p)
  <2>1. conf' \in Confs \cup {Torn}
    BY <1>17 DEF Restore, TypeOK, PInv, Kept
  <2>2. DataOK'
    BY <1>2, <1>17, <2>1, ReturnType DEF Restore, Faulty, TypeOK, DataOK, Rows, db, Replies
  <2>3. QED
    BY <1>17, <2>2, ReturnType, NextParts DEF Restore, Replies
<1>18. QED
  BY <1>6, <1>7, <1>8, <1>9, <1>10, <1>11, <1>12, <1>13, <1>14, <1>15, <1>16, <1>17

LEMMA TypeStep == IInv /\ [Next]_vars => TypeOK'
<1> SUFFICES ASSUME IInv, [Next]_vars PROVE TypeOK'
  OBVIOUS
<1>1. TypeOK /\ \A p \in Procs : PInv(p)
  BY DEF IInv
<1>2. CASE \E p \in Procs : Submit(p) \/ Step(p)
  BY <1>1, <1>2, Steps, TypeBeforeLock, TypeInside DEF AnyStep
<1>3. CASE Crash
  <2>1. Control'
    BY <1>3, Kinds, PublishAssumptions DEF Crash, Control, Outside
  <2>2. \A p \in Procs : pc[p] = "writePolicy" => req[p].server \in Servers
    BY <1>1, Kinds DEF TypeOK
  <2>3. pol' \in [Servers -> Bodies \cup {None, Torn}]
    BY <1>1, <1>3, <2>2 DEF Crash, TypeOK
  <2>4. hit' \subseteq FaultKinds /\ faultsLeft' \in 0..MaxFaults
    BY <1>1, <1>3, FaultType DEF Crash, FaultKinds
  <2>5. conf' \in Confs \cup {Torn}
    BY <1>1, <1>3 DEF Crash, TypeOK
  <2>6. DataOK'
    BY <1>1, <1>3, <2>3, <2>4, <2>5 DEF Crash, TypeOK, DataOK, Rows, db
  <2>7. QED
    BY <2>1, <2>6, NextParts
<1>4. CASE UNCHANGED vars
  BY <1>1, <1>4 DEF TypeOK, vars, local, files, db
<1>5. QED
  BY <1>2, <1>3, <1>4 DEF Next
----------------------------------------------------------------------------
(* The pipeline invariant *)

\* Nothing is claimed of a handler that is not inside.
LEMMA OutsideNext ==
  ASSUME NEW p \in Procs, pc'[p] \notin Inside, holder' # p, ~backedUp'[p]
  PROVE  PInv(p)'
BY DEF PInv, Guarded, Kept, Installed, Undone, BeforeWrite, Recording, Inside

\* Before the lock a handler changes only its own state.
LEMMA BeforeLockStep ==
  ASSUME IInv, NEW q \in Procs, Submit(q) \/ Lookup(q) \/ LockTimeout(q), NEW p \in Procs
  PROVE  PInv(p)'
<1>1. UNCHANGED <<holder, local, files, running, atLock>> /\ hit \subseteq hit'
  BY DEF Submit, Lookup, LockTimeout, Fail, NoFault
<1>2. TypeOK /\ PInv(p) /\ PInv(q)
  BY DEF IInv
<1>3. pc[q] \notin Inside
  BY DEF Submit, Lookup, LockTimeout, Inside
<1>4. pc'[q] \notin Inside
  BY <1>2 DEF Submit, Lookup, LockTimeout, Answer, Goto, TypeOK, Inside
<1>5. CASE p = q
  <2>1. holder' # p /\ ~backedUp'[p]
    BY <1>1, <1>2, <1>3, <1>5 DEF PInv, Guarded, local
  <2>2. QED
    BY <1>4, <1>5, <2>1, OutsideNext
<1>6. CASE p # q
  <2>1. pc'[p] = pc[p] /\ req'[p] = req[p]
    BY <1>2, <1>6 DEF Submit, Lookup, LockTimeout, Answer, Goto, TypeOK
  <2>2. PInv(p)
    BY <1>2
  <2>3. QED
    BY <1>1, <2>1, <2>2 DEF PInv, Guarded, Kept, Installed, Undone, Loadable, local, files
<1>7. QED
  BY <1>5, <1>6

\* The files found when the lock is taken are the ones to give back.
LEMMA LockStep ==
  ASSUME IInv, NEW q \in Procs, Lock(q), NEW p \in Procs
  PROVE  PInv(p)'
<1>1. TypeOK /\ PInv(p)
  BY DEF IInv
<1>2. ~backedUp[p] /\ pc[p] \notin Inside
  BY <1>1, PublishAssumptions DEF PInv, Guarded, Lock
<1>3. CASE p = q
  <2>1. \/ pc'[p] = "check"
        \/ pc'[p] = "parse" /\ req[p].op # "publish"
    BY <1>1, <1>3 DEF Lock, Goto, TypeOK
  <2>2. /\ holder' = p /\ hit' = {} /\ req' = req
        /\ conf' = conf /\ running' = running /\ ~backedUp'[p]
        /\ atLock'.conf = conf /\ atLock'.running = running
    BY <1>2, <1>3 DEF Lock, local, files
  <2>3. QED
    BY <2>1, <2>2 DEF PInv, Guarded, Kept, Installed, Undone, BeforeWrite, Recording, Inside
<1>4. CASE p # q
  BY <1>1, <1>2, <1>4, OutsideNext DEF Lock, Goto, TypeOK, local
<1>5. QED
  BY <1>3, <1>4

InsideStep(p) ==
  \/ Check(p) \/ WritePolicy(p) \/ Parse(p) \/ Backup(p) \/ WriteConf(p)
  \/ Test(p) \/ Reload(p) \/ Save(p) \/ Audit(p)
  \/ FailSave(p) \/ FailAudit(p) \/ Restore(p)

\* While the holder steps, the others stay outside.
LEMMA OthersOutside ==
  ASSUME IInv, NEW q \in Procs, InsideStep(q), NEW p \in Procs, p # q
  PROVE  PInv(p)'
<1>1. TypeOK /\ PInv(p) /\ PInv(q)
  BY DEF IInv
<1>2. pc[q] \in Inside
  BY DEF InsideStep, Check, WritePolicy, Parse, Backup, WriteConf, Test, Reload, Save, Audit,
         FailSave, FailAudit, Restore, Inside
<1>3. holder = q /\ pc[p] \notin Inside /\ ~backedUp[p]
  BY <1>1, <1>2 DEF PInv, Guarded
<1>4. pc'[p] = pc[p] /\ holder' \in {holder, None}
  BY <1>1 DEF InsideStep, Check, WritePolicy, Parse, Backup, WriteConf, Test, Reload, Save,
       Audit, FailSave, FailAudit, Restore, Goto, Throw, Within, Return, Answer, TypeOK
<1>5. backedUp'[p] = backedUp[p]
  BY <1>1 DEF InsideStep, Check, WritePolicy, Parse, Backup, WriteConf, Test, Reload, Save,
       Audit, FailSave, FailAudit, Restore, Return, TypeOK, local
<1>6. QED
  BY <1>3, <1>4, <1>5, OutsideNext, PublishAssumptions

\* A handler that returns is outside.
LEMMA ReturnStep ==
  ASSUME IInv, NEW p \in Procs, NEW status \in Replies, Return(p, status)
  PROVE  PInv(p)'
<1>1. TypeOK
  BY DEF IInv
<1>2. pc'[p] = "idle" /\ holder' = None /\ ~backedUp'[p]
  BY <1>1 DEF Return, Answer, Goto, TypeOK
<1>3. QED
  BY <1>2, OutsideNext, PublishAssumptions DEF Inside

\* An exception: what the catch block relies on.
LEMMA ThrowStep ==
  ASSUME IInv, NEW p \in Procs, pc[p] \in Inside, Throw(p), Within,
         UNCHANGED backedUp, UNCHANGED backup, hit \subseteq hit',
         "write" \notin hit' /\ ~backedUp[p] => conf' = atLock.conf,
         "db" \notin hit' => running' = atLock.running
  PROVE  PInv(p)'
<1>1. TypeOK /\ PInv(p) /\ req[p] \in Publishes \cup Updates
  BY MidRequest DEF IInv, Inside
<1>2. pc'[p] \in CatchLabels
  BY <1>1, ThrowTo DEF TypeOK
<1>3. holder = p /\ holder' = p
  BY <1>1 DEF PInv, Guarded, Within
<1>4. backedUp'[p] => backup'[p] = atLock'.conf /\ atLock'.conf \in Confs
  BY <1>1 DEF PInv, Kept, Within
<1>5. QED
  BY <1>2, <1>3, <1>4
  DEF PInv, Guarded, Kept, Installed, Undone, BeforeWrite, Recording, Inside, CatchLabels, Within

\* The steps of the holder keep what is claimed of it.
LEMMA HolderStep ==
  ASSUME IInv, NEW p \in Procs, InsideStep(p)
  PROVE  PInv(p)'
<1>1. TypeOK /\ PInv(p)
  BY DEF IInv
<1>2. pc[p] \in Inside /\ req[p] \in Publishes \cup Updates
  <2>1. pc[p] \in Inside
    BY DEF InsideStep, Check, WritePolicy, Parse, Backup, WriteConf, Test, Reload, Save, Audit,
           FailSave, FailAudit, Restore, Inside
  <2>2. QED
    BY <1>1, <2>1, MidRequest DEF Inside
<1>3. holder = p
  BY <1>1, <1>2 DEF PInv, Guarded
<1>4. hit \subseteq hit'
  BY DEF InsideStep, Check, WritePolicy, Parse, Backup, WriteConf, Test, Reload, Save, Audit,
         FailSave, FailAudit, Restore, Fail, NoFault
<1> USE DEF Recording, BeforeWrite
<1>5. CASE Check(p)
  <2>1. CASE Return(p, "ERROR")
    BY <2>1, ReturnStep DEF Replies
  <2>2. CASE Throw(p) /\ ~Return(p, "ERROR")
    <3>1. Within /\ UNCHANGED <<local, files, running>>
      BY <1>5, <2>2 DEF Check
    <3>2. QED
      BY <1>1, <1>2, <1>3, <1>4, <1>5, <2>2, <3>1, ThrowStep
      DEF Check, PInv, Kept, Undone, local, files
  <2>3. CASE ~Throw(p) /\ ~Return(p, "ERROR")
    <3>1. /\ Within /\ UNCHANGED <<local, files, running>>
          /\ Goto(p, "writePolicy") \/ Goto(p, "save")
          /\ Goto(p, "writePolicy") \/ req[p].dry
      BY <1>5, <2>3 DEF Check
    <3>2. req[p].op = "publish"
      BY <1>1, <1>5, Kinds DEF Check, TypeOK
    <3>3. pc[p] = "check"
      BY <1>5 DEF Check
    <3>4. CASE Goto(p, "writePolicy")
      <4>1. pc'[p] = "writePolicy"
        BY <1>1, <3>4 DEF Goto, TypeOK
      <4>2. QED
        BY <1>1, <1>2, <1>3, <1>4, <3>1, <3>3, <4>1
        DEF PInv, Guarded, Kept, Installed, Undone, Within, local, files, Inside
    <3>5. CASE ~Goto(p, "writePolicy")
      <4>1. pc'[p] = "save"
        BY <1>1, <3>1, <3>5 DEF Goto, TypeOK
      <4>2. req[p].dry
        BY <3>1, <3>5
      <4>3. QED
        BY <1>1, <1>2, <1>3, <1>4, <3>1, <3>2, <3>3, <4>1, <4>2
        DEF PInv, Guarded, Kept, Installed, Undone, Within, local, files, Inside
    <3>6. QED
      BY <3>4, <3>5
  <2>4. QED
    BY <2>1, <2>2, <2>3
<1>6. CASE WritePolicy(p)
  <2>1. Within /\ UNCHANGED <<local, conf, running>> /\ pc[p] = "writePolicy"
    BY <1>6 DEF WritePolicy
  <2>2. CASE Throw(p)
    BY <1>1, <1>2, <1>3, <1>4, <2>1, <2>2, ThrowStep DEF PInv, Kept, Undone, local
  <2>3. CASE ~Throw(p)
    <3>1. Goto(p, "parse") /\ pol' = [pol EXCEPT ![req[p].server] = req[p].body]
      BY <1>6, <2>3 DEF WritePolicy
    <3>2. req[p].server \in Servers
      BY <1>1, <1>6, Kinds DEF WritePolicy, TypeOK
    <3>3. pc'[p] = "parse" /\ pol'[req[p].server] = req[p].body
      BY <1>1, <3>1, <3>2 DEF Goto, TypeOK
    <3>4. QED
      BY <1>1, <1>2, <1>3, <1>4, <2>1, <3>3
      DEF PInv, Guarded, Kept, Installed, Undone, Within, local, Inside
  <2>4. QED
    BY <2>2, <2>3
<1>7. CASE Parse(p)
  <2>1. Within /\ UNCHANGED <<backup, backedUp, files, running>> /\ pc[p] = "parse"
    BY <1>7 DEF Parse
  <2>2. CASE Throw(p)
    BY <1>1, <1>2, <1>3, <1>4, <2>1, <2>2, ThrowStep DEF PInv, Kept, Undone, files
  <2>3. CASE ~Throw(p)
    <3>1. /\ Goto(p, "backup") /\ draft' = [draft EXCEPT ![p] = Edit(req[p], conf)]
          /\ Editable(req[p], conf)
      BY <1>7, <2>3 DEF Parse
    <3>2. pc'[p] = "backup" /\ draft'[p] = Edit(req[p], conf)
      BY <1>1, <3>1 DEF Goto, TypeOK
    <3>3. conf = atLock.conf /\ conf \in Confs
      BY <1>1, <2>1, <3>1 DEF PInv, Kept, Editable, TypeOK
    <3>4. QED
      BY <1>1, <1>2, <1>3, <1>4, <2>1, <3>1, <3>2, <3>3
      DEF PInv, Guarded, Kept, Installed, Undone, Within, files, Inside
  <2>4. QED
    BY <2>2, <2>3
<1>8. CASE Backup(p)
  <2>1. Within /\ UNCHANGED <<draft, backedUp, files, running>> /\ pc[p] = "backup"
    BY <1>8 DEF Backup
  <2>2. CASE Throw(p) /\ UNCHANGED backup
    BY <1>1, <1>2, <1>3, <1>4, <2>1, <2>2, ThrowStep DEF PInv, Kept, Undone, files
  <2>3. CASE ~(Throw(p) /\ UNCHANGED backup)
    <3>1. Goto(p, "writeConf") /\ backup' = [backup EXCEPT ![p] = conf]
      BY <1>8, <2>3 DEF Backup
    <3>2. pc'[p] = "writeConf" /\ backup'[p] = conf
      BY <1>1, <3>1 DEF Goto, TypeOK
    <3>3. QED
      BY <1>1, <1>2, <1>3, <1>4, <2>1, <3>2
      DEF PInv, Guarded, Kept, Installed, Undone, Within, files, Inside
  <2>4. QED
    BY <2>2, <2>3
<1>9. CASE WriteConf(p)
  <2>1. Within /\ UNCHANGED <<draft, backup, pol, running>> /\ pc[p] = "writeConf"
    BY <1>9 DEF WriteConf
  <2>2. CASE Throw(p) /\ UNCHANGED backedUp /\ "write" \in hit'
    BY <1>1, <1>2, <1>3, <1>4, <2>1, <2>2, ThrowStep DEF PInv, Kept, Undone
  <2>3. CASE ~(Throw(p) /\ UNCHANGED backedUp /\ "write" \in hit')
    <3>1. Goto(p, "test") /\ conf' = draft[p] /\ backedUp' = [backedUp EXCEPT ![p] = TRUE]
      BY <1>9, <2>3 DEF WriteConf, Fail
    <3>2. pc'[p] = "test" /\ backedUp'[p]
      BY <1>1, <3>1 DEF Goto, TypeOK
    <3>3. QED
      BY <1>1, <1>2, <1>3, <1>4, <2>1, <3>1, <3>2
      DEF PInv, Guarded, Kept, Installed, Undone, Within, Inside
  <2>4. QED
    BY <2>2, <2>3
<1>10. CASE Test(p)
  <2>1. Within /\ UNCHANGED <<local, files, running>> /\ pc[p] = "test"
    BY <1>10 DEF Test
  <2>2. CASE Throw(p)
    BY <1>1, <1>2, <1>3, <1>4, <2>1, <2>2, ThrowStep DEF PInv, Kept, Undone, local, files
  <2>3. CASE ~Throw(p)
    <3>1. Goto(p, "reload") /\ Loadable
      BY <1>10, <2>3 DEF Test
    <3>2. pc'[p] = "reload" /\ Loadable'
      BY <1>1, <2>1, <3>1 DEF Goto, TypeOK, Loadable, files
    <3>3. QED
      BY <1>1, <1>2, <1>3, <1>4, <2>1, <3>2
      DEF PInv, Guarded, Kept, Installed, Undone, Within, Inside, local, files
  <2>4. QED
    BY <2>2, <2>3
<1>11. CASE Reload(p)
  <2>1. Within /\ UNCHANGED <<local, files>> /\ pc[p] = "reload"
    BY <1>11 DEF Reload
  <2>2. CASE Throw(p) /\ UNCHANGED running
    BY <1>1, <1>2, <1>3, <1>4, <2>1, <2>2, ThrowStep DEF PInv, Kept, Undone, local, files
  <2>3. CASE ~(Throw(p) /\ UNCHANGED running)
    <3>1. /\ Goto(p, IF req[p].op = "publish" THEN "save" ELSE "audit")
          /\ running' = Loaded
      BY <1>11, <2>3 DEF Reload
    <3>2. pc'[p] \in {"save", "audit"}
      BY <1>1, <3>1 DEF Goto, TypeOK
    <3>3. /\ conf = Edit(req[p], atLock.conf) /\ atLock.conf \in Confs
          /\ req[p].op = "publish" => pol[req[p].server] = req[p].body
      BY <1>1, <2>1 DEF PInv, Kept
    <3>4. running'.conf = conf /\ running'.pol = [s \in conf.wired |-> pol[s]]
      BY <3>1 DEF Loaded
    <3>5. ASSUME req[p].op = "publish" PROVE req[p].server \in conf.wired
      BY <3>3, <3>5 DEF Edit, UpdateServerRulesJson, Confs
    <3>6. QED
      BY <1>1, <1>2, <1>3, <1>4, <2>1, <3>2, <3>3, <3>4, <3>5
      DEF PInv, Guarded, Kept, Installed, Undone, Within, Inside, local, files
  <2>4. QED
    BY <2>2, <2>3
<1>12. CASE Save(p)
  <2>1. Within /\ UNCHANGED <<local, files, running>> /\ pc[p] = "save"
    BY <1>12 DEF Save
  <2>2. CASE Throw(p) /\ "db" \in hit'
    BY <1>1, <1>2, <1>3, <1>4, <2>1, <2>2, ThrowStep DEF PInv, Kept, Undone, local, files
  <2>3. CASE ~(Throw(p) /\ "db" \in hit')
    <3>1. Goto(p, "audit")
      BY <1>12, <2>3 DEF Save, Fail
    <3>2. pc'[p] = "audit"
      BY <1>1, <3>1 DEF Goto, TypeOK
    <3>3. QED
      BY <1>1, <1>2, <1>3, <1>4, <2>1, <3>2
      DEF PInv, Guarded, Kept, Installed, Undone, Within, Inside, local, files
  <2>4. QED
    BY <2>2, <2>3
<1>13. CASE Audit(p)
  <2>1. CASE Return(p, "SUCCESS")
    BY <2>1, ReturnStep DEF Replies
  <2>2. CASE ~Return(p, "SUCCESS")
    <3>1. Throw(p) /\ Within /\ UNCHANGED <<local, files, running>> /\ "db" \in hit'
      BY <1>13, <2>2 DEF Audit, Fail
    <3>2. QED
      BY <1>1, <1>2, <1>3, <1>4, <3>1, ThrowStep DEF PInv, Undone, local, files
  <2>3. QED
    BY <2>1, <2>2
<1>14. CASE FailSave(p)
  <2>1. /\ Within /\ UNCHANGED <<local, files, running>>
        /\ pc[p] = "failSave" /\ Goto(p, "failAudit")
    BY <1>14 DEF FailSave
  <2>2. pc'[p] = "failAudit"
    BY <1>1, <2>1 DEF Goto, TypeOK
  <2>3. QED
    BY <1>1, <1>2, <1>3, <1>4, <2>1, <2>2
    DEF PInv, Guarded, Kept, Installed, Undone, Within, Inside, local, files
<1>15. CASE FailAudit(p)
  <2>1. CASE Return(p, "ERROR")
    BY <2>1, ReturnStep DEF Replies
  <2>2. CASE ~Return(p, "ERROR")
    <3>1. /\ Within /\ UNCHANGED <<local, files, running>>
          /\ pc[p] = "failAudit" /\ Goto(p, "restore")
      BY <1>15, <2>2 DEF FailAudit
    <3>2. pc'[p] = "restore"
      BY <1>1, <3>1 DEF Goto, TypeOK
    <3>3. QED
      BY <1>1, <1>2, <1>3, <1>4, <3>1, <3>2
      DEF PInv, Guarded, Kept, Installed, Undone, Within, Inside, local, files
  <2>3. QED
    BY <2>1, <2>2
<1>16. CASE Restore(p)
  BY <1>16, ReturnStep DEF Restore, Replies
<1>17. QED
  BY <1>5, <1>6, <1>7, <1>8, <1>9, <1>10, <1>11, <1>12, <1>13, <1>14, <1>15, <1>16 DEF InsideStep

LEMMA CrashStep ==
  ASSUME IInv, Crash, NEW p \in Procs
  PROVE  PInv(p)'
<1>1. pc'[p] = "idle" /\ holder' = None /\ ~backedUp'[p]
  BY DEF Crash
<1>2. QED
  BY <1>1, OutsideNext, PublishAssumptions DEF Inside

LEMMA InvInit == Init => IInv
<1> SUFFICES ASSUME Init PROVE IInv
  OBVIOUS
<1>1. TypeOK
  BY TypeInit
<1>2. ASSUME NEW p \in Procs PROVE PInv(p)
  BY PublishAssumptions
  DEF Init, PInv, Guarded, Kept, Installed, Undone, BeforeWrite, Recording, Inside
<1>3. QED
  BY <1>1, <1>2 DEF IInv

LEMMA InvStep == IInv /\ [Next]_vars => IInv'
<1> SUFFICES ASSUME IInv, [Next]_vars PROVE IInv'
  OBVIOUS
<1>1. TypeOK'
  BY TypeStep
<1>2. ASSUME NEW p \in Procs PROVE PInv(p)'
  <2>1. ASSUME NEW q \in Procs, Submit(q) \/ Step(q)
        PROVE  PInv(p)'
    <3>1. CASE Submit(q) \/ Lookup(q) \/ LockTimeout(q)
      BY <3>1, BeforeLockStep
    <3>2. CASE Lock(q)
      BY <3>2, LockStep
    <3>3. CASE InsideStep(q)
      <4>1. CASE p = q
        BY <3>3, <4>1, HolderStep
      <4>2. CASE p # q
        BY <3>3, <4>2, OthersOutside
      <4>3. QED
        BY <4>1, <4>2
    <3>4. QED
      BY <2>1, Steps, <3>1, <3>2, <3>3 DEF AnyStep, InsideStep
  <2>2. CASE Crash
    BY <2>2, CrashStep
  <2>3. CASE UNCHANGED vars
    <3>1. PInv(p)
      BY DEF IInv
    <3>2. QED
      BY <2>3, <3>1
      DEF PInv, Guarded, Kept, Installed, Undone, Loadable, vars, local, files
  <2>4. QED
    BY <2>1, <2>2, <2>3 DEF Next
<1>3. QED
  BY <1>1, <1>2 DEF IInv

\* The inductive invariant.
THEOREM Inductive == Spec => []IInv
BY InvInit, InvStep, PTL DEF Spec

\* Types, for every instance.
THEOREM TypeCorrect == Spec => []TypeOK
<1>1. IInv => TypeOK
  BY DEF IInv
<1>2. QED
  BY <1>1, Inductive, PTL

\* What a handler has read or tested still holds when it acts on it, for any
\* number of concurrent requests and failures.
THEOREM FreshReads == Spec => []ReadsAreFresh
<1>1. ASSUME IInv PROVE ReadsAreFresh
  <2>1. ASSUME NEW p \in Procs
        PROVE  /\ pc[p] \in {"backup", "writeConf"} => draft[p] = Edit(req[p], conf)
               /\ pc[p] = "writeConf" => backup[p] = conf
               /\ pc[p] \in {"test", "reload"} => conf = draft[p]
               /\ pc[p] = "reload" => Loadable
               /\ backedUp[p] => backup[p] = atLock.conf
    BY <1>1 DEF IInv, PInv, Kept, BeforeWrite
  <2>2. QED
    BY <2>1 DEF ReadsAreFresh
<1>2. QED
  BY <1>1, Inductive, PTL

\* Who may end a request: the holder, in the step that returns.
LEMMA EndSteps ==
  ASSUME IInv, [Next]_vars, NEW p \in Procs, NEW status \in Replies, Ends(p, status)
  PROVE  \/ status = "SUCCESS" /\ Audit(p)
         \/ status = "FAILED" /\ Restore(p)
         \/ status = "ERROR" /\ (Check(p) \/ FailAudit(p))
<1>1. TypeOK /\ PInv(p) /\ holder = p /\ pc'[p] = "idle" /\ reply'[p] = status
  BY DEF IInv, Ends
<1>2. pc[p] \in Inside
  BY <1>1 DEF PInv, Guarded
<1>3. CASE UNCHANGED vars
  BY <1>1, <1>2, <1>3 DEF vars, Inside
<1>4. CASE Crash
  BY <1>1, <1>4, PublishAssumptions DEF Crash, Replies
<1>5. ASSUME NEW q \in Procs, Submit(q) \/ Step(q)
      PROVE  p = q /\ InsideStep(p)
  <2>1. CASE p # q
    <3>1. pc'[p] = pc[p]
      BY <1>1, <1>5, Steps, <2>1
      DEF Submit, AnyStep, Lookup, Lock, LockTimeout, Check, WritePolicy, Parse, Backup, WriteConf,
          Test, Reload, Save, Audit, FailSave, FailAudit, Restore, Goto, Throw, Return, Answer, TypeOK
    <3>2. QED
      BY <1>1, <1>2, <3>1 DEF Inside
  <2>2. CASE p = q
    BY <1>2, <1>5, Steps, <2>2 DEF Submit, AnyStep, Lookup, Lock, LockTimeout, InsideStep, Inside
  <2>3. QED
    BY <2>1, <2>2
<1>6. ASSUME InsideStep(p), ~Audit(p), ~Restore(p), ~Check(p), ~FailAudit(p)
      PROVE  FALSE
  <2>1. \E l \in Inside : pc' = [pc EXCEPT ![p] = l]
    BY <1>6 DEF InsideStep, WritePolicy, Parse, Backup, WriteConf,
          Test, Reload, Save, FailSave, Goto, Throw, Inside
  <2>2. QED
    BY <1>1, <2>1 DEF TypeOK, Inside
<1>7. ASSUME NEW l \in Inside, Goto(p, l) PROVE FALSE
  BY <1>1, <1>7 DEF Goto, TypeOK, Inside
<1>8. ~Throw(p)
  BY <1>7 DEF Throw, Goto, Inside
<1>9. ASSUME Audit(p) PROVE status = "SUCCESS"
  BY <1>1, <1>8, <1>9 DEF Audit, Return, Answer, TypeOK
<1>10. ASSUME Restore(p) PROVE status = "FAILED"
  BY <1>1, <1>10 DEF Restore, Return, Answer, TypeOK
<1>11. ASSUME Check(p) PROVE status = "ERROR"
  BY <1>1, <1>7, <1>8, <1>11 DEF Check, Return, Answer, TypeOK, Inside
<1>12. ASSUME FailAudit(p) PROVE status = "ERROR"
  BY <1>1, <1>7, <1>12 DEF FailAudit, Return, Answer, TypeOK, Inside
<1>13. QED
  BY <1>3, <1>4, <1>5, <1>6, <1>9, <1>10, <1>11, <1>12 DEF Next

\* A FAILED reply, for every instance: nginx.conf is what it was unless a write
\* failed, and nginx runs what it ran unless the database failed.
THEOREM FailureRestores == Spec => FailureKeepsOld
<1>1. ASSUME IInv, [Next]_vars, NEW p \in Procs, Ends(p, "FAILED")
      PROVE  /\ "write" \notin hit' => conf' = atLock.conf
             /\ "db" \notin hit' => running' = atLock.running
  <2>1. Restore(p)
    BY <1>1, EndSteps DEF Replies
  <2>2. PInv(p) /\ holder = p
    BY <1>1 DEF IInv, Ends
  <2>3. hit \subseteq hit' /\ running' = running /\ pc[p] = "restore"
    BY <2>1 DEF Restore, Fail, NoFault
  <2>4. ASSUME "write" \notin hit' PROVE conf' = atLock.conf
    <3>1. conf' = IF backedUp[p] THEN backup[p] ELSE conf
      BY <2>1, <2>4 DEF Restore, Fail
    <3>2. QED
      BY <2>2, <2>3, <2>4, <3>1 DEF PInv, Kept, Undone
  <2>5. ASSUME "db" \notin hit' PROVE running' = atLock.running
    BY <2>2, <2>3, <2>5 DEF PInv, Undone, Recording
  <2>6. QED
    BY <2>4, <2>5
<1>2. IInv /\ [Next]_vars =>
        [\A p \in Procs :
           Ends(p, "FAILED")
           => /\ "write" \notin hit' => conf' = atLock.conf
              /\ "db" \notin hit' => running' = atLock.running]_vars
  BY <1>1
<1>3. QED
  BY <1>2, Inductive, PTL DEF Spec, FailureKeepsOld

\* A SUCCESS reply, for every instance: nginx runs the file on disk, which is
\* the one found under the lock with this request's edit.
THEOREM AcksAreLive == Spec => AckedIsLive
<1>1. ASSUME IInv, [Next]_vars, NEW p \in Procs, Ends(p, "SUCCESS"),
             ~(req[p].op = "publish" /\ req[p].dry)
      PROVE  /\ conf' = running'.conf
             /\ conf' = Edit(req[p], atLock.conf)
             /\ req[p].op = "publish" => running'.pol[req[p].server] = req[p].body
  <2>1. Audit(p)
    BY <1>1, EndSteps DEF Replies
  <2>2. pc[p] = "audit" /\ UNCHANGED <<conf, running>>
    BY <2>1 DEF Audit, files
  <2>3. PInv(p)
    BY <1>1 DEF IInv
  <2>4. QED
    BY <1>1, <2>2, <2>3 DEF PInv, Installed, Recording
<1>2. IInv /\ [Next]_vars =>
        [\A p \in Procs :
           LET r == req[p] IN
           Ends(p, "SUCCESS") /\ ~(r.op = "publish" /\ r.dry)
           => /\ conf' = running'.conf
              /\ conf' = Edit(r, atLock.conf)
              /\ r.op = "publish" => running'.pol[r.server] = r.body]_vars
  BY <1>1
<1>3. QED
  BY <1>2, Inductive, PTL DEF Spec, AckedIsLive

\* The version history, for every instance: a SUCCESS row is appended only while
\* nginx runs the policy of the row, or by a dry run.
THEOREM HistoryIsLive == Spec => RecordedAfterLive
<1>1. ASSUME IInv, [Next]_vars, NEW s \in Servers, versions'[s] # versions[s],
             versions'[s][Len(versions'[s])].status = "SUCCESS"
      PROVE  \/ req[holder].dry
             \/ /\ s \in running.conf.wired
                /\ running.pol[s] = versions'[s][Len(versions'[s])].body
  <2>1. TypeOK
    BY <1>1 DEF IInv
  <2>2. PICK q \in Procs : Save(q) \/ FailSave(q)
    <3>1. CASE UNCHANGED vars
      BY <1>1, <3>1 DEF vars, db
    <3>2. CASE Crash
      BY <1>1, <3>2 DEF Crash, db
    <3>3. ASSUME NEW q \in Procs, Submit(q) \/ Step(q) PROVE Save(q) \/ FailSave(q)
      BY <1>1, Steps, <3>3
      DEF Submit, AnyStep, Lookup, Lock, LockTimeout, Check, WritePolicy, Parse, Backup, WriteConf,
          Test, Reload, Audit, FailAudit, Restore, db
    <3>4. QED
      BY <1>1, <3>1, <3>2, <3>3 DEF Next
  <2>3. PICK status \in {"SUCCESS", "FAILED"} :
          /\ Record(req[q].server, req[q].body, status)
          /\ status = "SUCCESS" => Save(q)
    BY <1>1, <2>2 DEF Save, FailSave, db
  <2>4. /\ versions \in [Servers -> Seq(Rows)] /\ s = req[q].server
        /\ versions'[s] = Append(versions[s], [body |-> req[q].body, status |-> status])
    BY <1>1, <2>1, <2>3 DEF Record, TypeOK, Rows
  <2>5. versions'[s][Len(versions'[s])] = [body |-> req[q].body, status |-> status]
    BY <2>4
  <2>6. Save(q) /\ pc[q] = "save" /\ req[q].op = "publish"
    BY <1>1, <2>1, <2>3, <2>5, Kinds DEF Save, TypeOK
  <2>7. PInv(q)
    BY <1>1 DEF IInv
  <2>8. holder = q
    BY <2>6, <2>7 DEF PInv, Guarded, Inside
  <2>9. CASE req[q].dry
    BY <2>8, <2>9
  <2>10. CASE ~req[q].dry
    BY <2>4, <2>5, <2>6, <2>7, <2>10 DEF PInv, Installed, Recording
  <2>11. QED
    BY <2>9, <2>10
<1>2. IInv /\ [Next]_vars =>
        [\A s \in Servers :
           LET row == versions'[s][Len(versions'[s])] IN
           versions'[s] # versions[s] /\ row.status = "SUCCESS"
           => \/ req[holder].dry
              \/ s \in running.conf.wired /\ running.pol[s] = row.body]_vars
  BY <1>1
<1>3. QED
  BY <1>2, Inductive, PTL DEF Spec, RecordedAfterLive
----------------------------------------------------------------------------
(* What is recorded *)

\* p's request has one audit row and, when it publishes, a newest version of its
\* own, and both tell this status; an update has not been audited yet.
Told(p, status) ==
  IF req[p].op = "publish"
  THEN /\ audit[p] = <<status>>
       /\ LET rows == versions[req[p].server] IN
            rows # <<>> /\ rows[Len(rows)] = [body |-> req[p].body, status |-> status]
  ELSE audit[p] = <<>>

\* What has been recorded of a request at each of its steps, as long as every
\* query went through.
Noted(p) ==
  /\ pc[p] \in {"lookup", "lock"} => audit[p] = <<>>
  /\ holder = p /\ "db" \notin hit =>
       /\ pc[p] \in BeforeWrite \cup {"test", "reload", "save", "failSave"} => audit[p] = <<>>
       /\ pc[p] = "audit" => Told(p, "SUCCESS")
       /\ pc[p] = "failAudit" => Told(p, "FAILED")
       /\ pc[p] = "restore" /\ req[p].op # "global" =>
            /\ audit[p] # <<>> /\ \A i \in 1..Len(audit[p]) : audit[p][i] = "FAILED"
            /\ req[p].op = "publish" =>
                 LET rows == versions[req[p].server] IN
                 rows # <<>> /\ rows[Len(rows)] = [body |-> req[p].body, status |-> "FAILED"]

\* Audit rows and versions change only with the steps of their own requests.
LEMMA NotedElsewhere ==
  ASSUME IInv, [Next]_vars, NEW p \in Procs, Noted(p), ~Submit(p), ~Step(p)
  PROVE  Noted(p)'
<1>1. TypeOK /\ PInv(p)
  BY DEF IInv
<1>2. CASE Crash
  BY <1>2, PublishAssumptions DEF Crash, Noted
<1>3. CASE UNCHANGED vars
  BY <1>3 DEF vars, db, Noted, Told
<1>4. ASSUME NEW q \in Procs, q # p, Submit(q) \/ Step(q) PROVE Noted(p)'
  <2>1. Submit(q) \/ AnyStep(q)
    BY <1>4, Steps
  <2>2. pc'[p] = pc[p] /\ req'[p] = req[p] /\ audit'[p] = audit[p]
    BY <1>1, <1>4, <2>1
    DEF Submit, AnyStep, Lookup, Lock, LockTimeout, Check, WritePolicy, Parse, Backup, WriteConf,
        Test, Reload, Save, Audit, FailSave, FailAudit, Restore, Goto, Throw, Return, Answer, Log,
        Within, db, TypeOK
  <2>3. CASE holder # p
    <3>1. holder' # p
      BY <1>4, <2>1, <2>3, PublishAssumptions
      DEF Submit, AnyStep, Lookup, Lock, LockTimeout, Check, WritePolicy, Parse, Backup, WriteConf,
          Test, Reload, Save, Audit, FailSave, FailAudit, Restore, Return, Within
    <3> QED BY <2>2, <3>1 DEF Noted
  <2>4. CASE holder = p
    <3>1. pc[q] \notin Inside
      BY <1>4, <2>4 DEF IInv, PInv, Guarded
    <3>2. Submit(q) \/ Lookup(q) \/ LockTimeout(q)
      BY <2>1, <2>4, <3>1, PublishAssumptions
      DEF AnyStep, Lock, Check, WritePolicy, Parse, Backup, WriteConf, Test, Reload, Save, Audit,
          FailSave, FailAudit, Restore, Inside
    <3>3. versions' = versions /\ holder' = holder /\ hit \subseteq hit'
      BY <3>2 DEF Submit, Lookup, LockTimeout, Fail, NoFault, db
    <3> QED BY <2>2, <3>3 DEF Noted, Told
  <2> QED BY <2>3, <2>4
<1> QED BY <1>2, <1>3, <1>4 DEF Next

\* The rows that a step appends.
LEMMA RowsAfter ==
  ASSUME TypeOK, NEW p \in Procs, req[p] \in Publishes, audit[p] = <<>>,
         NEW status \in {"SUCCESS", "FAILED"}, UNCHANGED req,
         Record(req[p].server, req[p].body, status), Log(p, status)
  PROVE  Told(p, status)'
<1>1. req[p].server \in Servers /\ req[p].op = "publish"
  BY Kinds
<1>2. versions[req[p].server] \in Seq([body : Bodies, status : {"SUCCESS", "FAILED"}])
  BY <1>1 DEF TypeOK
<1>3. versions'[req[p].server] =
        Append(versions[req[p].server], [body |-> req[p].body, status |-> status])
  BY <1>1 DEF Record, TypeOK
<1>4. /\ versions'[req[p].server] # <<>>
      /\ versions'[req[p].server][Len(versions'[req[p].server])]
           = [body |-> req[p].body, status |-> status]
  BY <1>2, <1>3
<1>5. audit'[p] = <<status>>
  BY DEF Log, TypeOK
<1> QED BY <1>1, <1>4, <1>5 DEF Told

\* The steps of the request itself.
LEMMA NotedStep ==
  ASSUME IInv, NEW p \in Procs, Noted(p), Submit(p) \/ Step(p)
  PROVE  Noted(p)'
<1>1. TypeOK /\ PInv(p)
  BY DEF IInv
<1>2. CASE Submit(p) \/ Lookup(p) \/ LockTimeout(p)
  <2>1. holder' = holder /\ pc[p] \notin Inside
    BY <1>2 DEF Submit, Lookup, LockTimeout, Inside
  <2>2. holder' # p
    BY <1>1, <2>1 DEF PInv, Guarded
  <2>3. pc'[p] \in {"lookup", "lock"} => audit'[p] = <<>>
    BY <1>1, <1>2 DEF Submit, Lookup, LockTimeout, Answer, Goto, Noted, TypeOK, db
  <2> QED BY <2>2, <2>3 DEF Noted
<1>3. CASE Lock(p)
  <2>1. pc'[p] \in {"check", "parse"} /\ audit'[p] = <<>>
    BY <1>1, <1>3 DEF Lock, Goto, TypeOK, Noted, db
  <2> QED BY <2>1 DEF Noted
<1>4. ASSUME NEW status, Return(p, status) PROVE Noted(p)'
  <2>1. pc'[p] = "idle" /\ holder' = None
    BY <1>1, <1>4 DEF Return, Answer, Goto, TypeOK
  <2> QED BY <2>1, PublishAssumptions DEF Noted
<1>5. CASE "db" \in hit' /\ InsideStep(p)
  <2>1. (\E status : Return(p, status)) \/ (\E l \in Inside : pc' = [pc EXCEPT ![p] = l])
    BY <1>5 DEF InsideStep, Check, WritePolicy, Parse, Backup, WriteConf, Test, Reload, Save,
                Audit, FailSave, FailAudit, Restore, Goto, Throw, Inside
  <2>2. ASSUME NEW l \in Inside, pc' = [pc EXCEPT ![p] = l] PROVE Noted(p)'
    BY <1>1, <1>5, <2>2 DEF Noted, TypeOK, Inside
  <2> QED BY <1>4, <2>1, <2>2
<1>6. CASE "db" \notin hit' /\ InsideStep(p)
  <2>1. /\ "db" \notin hit /\ ~Fail("db")
        /\ pc[p] \in Inside /\ holder = p
    <3>1. hit \subseteq hit' /\ ~Fail("db") /\ pc[p] \in Inside
      BY <1>6 DEF InsideStep, Check, WritePolicy, Parse, Backup, WriteConf, Test, Reload, Save,
                  Audit, FailSave, FailAudit, Restore, Fail, NoFault, Inside
    <3> QED BY <1>1, <1>6, <3>1 DEF PInv, Guarded
  <2>2. req[p] \in Publishes \cup Updates
    BY <1>1, <2>1, MidRequest DEF Inside
  <2>3. ASSUME Throw(p), Within, audit[p] = <<>>, UNCHANGED db PROVE Noted(p)'
    <3>1. \/ pc'[p] = "failSave"
          \/ pc'[p] = "failAudit" /\ req[p].op = "runtime"
          \/ pc'[p] = "restore" /\ req[p].op = "global"
      BY <1>1, <2>2, <2>3, Kinds DEF Throw, Goto, TypeOK
    <3> QED BY <2>3, <3>1 DEF Noted, Told, Within, BeforeWrite, db
  <2>4. ASSUME NEW l \in BeforeWrite \cup {"test", "reload", "save"}, Goto(p, l), Within,
               audit[p] = <<>>, UNCHANGED db
        PROVE  Noted(p)'
    <3>1. pc'[p] = l
      BY <1>1, <2>4 DEF Goto, TypeOK
    <3> QED BY <2>4, <3>1 DEF Noted, Within, BeforeWrite, db
  <2>5. pc[p] \in BeforeWrite \cup {"test", "reload", "save", "failSave"} => audit[p] = <<>>
    BY <2>1 DEF Noted
  <2>6. CASE Check(p)
    <3>1. pc[p] = "check" /\ UNCHANGED db
      BY <2>6 DEF Check
    <3>2. \/ Return(p, "ERROR")
          \/ Within /\ (Throw(p) \/ \E l \in {"save", "writePolicy"} : Goto(p, l))
      BY <2>6 DEF Check
    <3> QED BY <1>4, <2>3, <2>4, <2>5, <3>1, <3>2 DEF BeforeWrite
  <2>7. CASE WritePolicy(p) \/ Parse(p) \/ Backup(p) \/ WriteConf(p) \/ Test(p)
    <3>1. /\ pc[p] \in BeforeWrite \cup {"test"} /\ UNCHANGED db /\ Within
          /\ Throw(p) \/ \E l \in {"parse", "backup", "writeConf", "test", "reload"} : Goto(p, l)
      BY <2>7 DEF WritePolicy, Parse, Backup, WriteConf, Test, BeforeWrite
    <3> QED BY <2>3, <2>4, <2>5, <3>1 DEF BeforeWrite
  <2>8. CASE Reload(p)
    <3>1. /\ pc[p] = "reload" /\ UNCHANGED db /\ Within
          /\ Throw(p) \/ Goto(p, IF req[p].op = "publish" THEN "save" ELSE "audit")
      BY <2>8 DEF Reload
    <3>2. ASSUME req[p].op # "publish", Goto(p, "audit") PROVE Noted(p)'
      <4>1. pc'[p] = "audit"
        BY <1>1, <3>2 DEF Goto, TypeOK
      <4> QED BY <2>5, <3>1, <3>2, <4>1 DEF Noted, Told, Within, BeforeWrite, db
    <3> QED BY <2>3, <2>4, <2>5, <3>1, <3>2
  <2>9. CASE Save(p)
    <3>1. /\ pc[p] = "save" /\ Goto(p, "audit") /\ Within
          /\ Record(req[p].server, req[p].body, "SUCCESS") /\ Log(p, "SUCCESS")
      BY <2>1, <2>9 DEF Save
    <3>2. req[p] \in Publishes
      BY <1>1, <3>1 DEF TypeOK
    <3>3. Told(p, "SUCCESS")' /\ pc'[p] = "audit"
      BY <1>1, <2>5, <3>1, <3>2, RowsAfter DEF Within, Goto, TypeOK
    <3> QED BY <3>3 DEF Noted, BeforeWrite
  <2>10. CASE Audit(p)
    BY <1>4, <2>1, <2>10 DEF Audit
  <2>11. CASE FailSave(p)
    <3>1. /\ pc[p] = "failSave" /\ Goto(p, "failAudit") /\ Within
          /\ Record(req[p].server, req[p].body, "FAILED") /\ Log(p, "FAILED")
      BY <2>1, <2>11 DEF FailSave
    <3>2. req[p] \in Publishes
      BY <1>1, <3>1 DEF TypeOK
    <3>3. Told(p, "FAILED")' /\ pc'[p] = "failAudit"
      BY <1>1, <2>5, <3>1, <3>2, RowsAfter DEF Within, Goto, TypeOK
    <3> QED BY <3>3 DEF Noted, BeforeWrite
  <2>12. CASE FailAudit(p)
    <3>1. /\ pc[p] = "failAudit" /\ Goto(p, "restore") /\ Within /\ Log(p, "FAILED")
          /\ UNCHANGED versions
      BY <2>1, <2>12 DEF FailAudit
    <3>2. pc'[p] = "restore" /\ audit'[p] = Append(audit[p], "FAILED") /\ req' = req
      BY <1>1, <3>1 DEF Goto, Log, Within, TypeOK
    <3>3. Told(p, "FAILED")
      BY <2>1, <3>1 DEF Noted
    <3>4. audit[p] \in {<<>>, <<"FAILED">>}
      BY <3>3 DEF Told
    <3>5. audit'[p] # <<>> /\ \A i \in 1..Len(audit'[p]) : audit'[p][i] = "FAILED"
      BY <3>2, <3>4
    <3> QED BY <3>1, <3>2, <3>3, <3>5 DEF Noted, Told, BeforeWrite
  <2>13. CASE Restore(p)
    BY <1>4, <2>13 DEF Restore
  <2> QED BY <1>6, <2>6, <2>7, <2>8, <2>9, <2>10, <2>11, <2>12, <2>13 DEF InsideStep
<1> QED BY <1>2, <1>3, <1>5, <1>6, Steps DEF AnyStep, InsideStep

\* An answer that was given without a failed query is the one on record: every
\* audit row of the request says the same, and so does the newest version.
THEOREM AnswersAreRecorded == Spec => RepliesAreRecorded
<1> DEFINE AllNoted == \A p \in Procs : Noted(p)
<1>1. Init => AllNoted
  BY PublishAssumptions DEF Init, Noted
<1>2. IInv /\ AllNoted /\ [Next]_vars => AllNoted'
  BY NotedElsewhere, NotedStep
<1>3. ASSUME IInv, AllNoted, [Next]_vars, NEW p \in Procs, NEW status \in {"SUCCESS", "FAILED"},
             Ends(p, status), "db" \notin hit', req[p].op # "global"
      PROVE  /\ audit'[p] # <<>>
             /\ \A i \in 1..Len(audit'[p]) : audit'[p][i] = status
             /\ req[p].op = "publish" =>
                  LET rows == versions'[req[p].server] IN
                  /\ rows # <<>>
                  /\ rows[Len(rows)] = [body |-> req[p].body, status |-> status]
  <2>1. TypeOK /\ holder = p /\ Noted(p)
    BY <1>3 DEF IInv, Ends
  <2>2. (status = "SUCCESS" /\ Audit(p)) \/ (status = "FAILED" /\ Restore(p))
    BY <1>3, EndSteps DEF Replies
  <2>3. CASE status = "SUCCESS" /\ Audit(p)
    <3>1. /\ pc[p] = "audit" /\ Log(p, "SUCCESS") /\ UNCHANGED versions /\ "db" \notin hit
      BY <1>3, <2>3 DEF Audit, Fail, NoFault
    <3>2. audit'[p] = Append(audit[p], "SUCCESS") /\ Told(p, "SUCCESS")
      BY <2>1, <3>1 DEF Log, TypeOK, Noted
    <3>3. audit[p] \in {<<>>, <<"SUCCESS">>}
      BY <3>2 DEF Told
    <3>4. audit'[p] # <<>> /\ \A i \in 1..Len(audit'[p]) : audit'[p][i] = "SUCCESS"
      BY <3>2, <3>3
    <3> QED BY <2>3, <3>1, <3>2, <3>4 DEF Told
  <2>4. CASE status = "FAILED" /\ Restore(p)
    <3>1. pc[p] = "restore" /\ UNCHANGED db /\ "db" \notin hit
      BY <1>3, <2>4 DEF Restore, Fail, NoFault
    <3> QED BY <1>3, <2>1, <2>4, <3>1 DEF Noted, db
  <2> QED BY <2>2, <2>3, <2>4
<1>4. IInv /\ AllNoted /\ [Next]_vars =>
        [\A p \in Procs : \A status \in {"SUCCESS", "FAILED"} :
           LET r == req[p] IN
           Ends(p, status) /\ "db" \notin hit' /\ r.op # "global"
           => /\ audit'[p] # <<>>
              /\ \A i \in 1..Len(audit'[p]) : audit'[p][i] = status
              /\ r.op = "publish" =>
                   LET rows == versions'[r.server] IN
                   /\ rows # <<>>
                   /\ rows[Len(rows)] = [body |-> r.body, status |-> status]]_vars
  BY <1>3
<1> HIDE DEF AllNoted
<1> QED BY <1>1, <1>2, <1>4, Inductive, PTL DEF Spec, RepliesAreRecorded
=============================================================================
