# A TLA+ model of waf-panel-backend

This directory is a specification of the parts of waf-panel-backend in which
order, failure and concurrency decide whether the program is right: how it
locks, how it changes the configuration of a running nginx and the rules that
nginx loads, how it counts traffic and raises alerts, who may use it, and what
its reports may say. The modules are
translations of the TypeScript sources (`src/src/...`); `PROJECT.json` maps every
definition to the lines it stands for.

## 1. Inventory of the system

The backend is one NestJS process. Its concurrency is the interleaving of
requests and timers at every `await`. Its state is in four places: PostgreSQL,
files under the WAF rules directory, `nginx.conf`, and in memory (metrics). Outside
it are nginx, `crossplane`, Loki and a mail server.

| component | state | operations | what makes it hard | correct when |
|---|---|---|---|---|
| advisory locks (`common/locks`) | session locks of PostgreSQL, connections of the pool | `withLock`: connect, poll, run, unlock, release | nesting, timeouts, a failed unlock, a session that ends, colliding lock ids, an exhausted pool | callbacks of one lock exclude each other; no grant outlives its holder; every call returns |
| publishing (`rules/policy-publish`) | the pipeline of one request | `publish`, `updateRuntime`, `updateGlobalConfig`, `rollbackToVersion` | some ten awaits, each of which may fail, and a compensation that may fail too | a success is in force and recorded; a failure leaves what was there |
| nginx.conf (`rules/nginx-config`) | `nginx.conf` and its backups | three kinds of edit, restore, getters | read-modify-write over a file, in place | no edit is lost or made on a stale copy |
| nginx commands (`rules/nginx-command`) | what nginx runs | `nginx -t`, `nginx -s reload` | commands fail or hang | the file that was tested is the one loaded |
| rule files (`rules/rules-filesystem`) | `user/<server>.json`, `template/<name>.json` | write, delete | written in place, named by nginx.conf | nginx can always load what it names |
| versions (`versions`) | `server_policy_version` | `createVersion`, find; `rollback` and `updateLatest` have no caller | numbering under a lock | numbers without gaps or duplicates, status is true |
| operations audit (`ops-audit`, `audit`) | `ops_audit_log` | append, query | fails with the database | says what was answered |
| templates (`templates`) | versions and files | create, rollback, delete | a file written inside a transaction | file and newest version agree |
| core rules (`core-rules`) | versions and managed files | create, rollback, seeding at start | a crash between row and file | as above |
| alerts (`alerts`) | one configuration row, send log | configure, send, a check every minute | checks overlap; the cooldown is read outside the lock | at most one mail per cooldown |
| metrics (`waf-metrics`) | sliding windows, bucket rings | prepopulate, tail, ingest, query | events out of order, restarts of `tail` | a window counts its events |
| users (`auth`, `users`) | users | seed, create, update, login, refresh | check, then insert | unique names, built-in users stay |
| health, loki, reports | none | queries at once, reports of several stages | lines arrive late, systems come and go, a failed query is an empty answer | the numbers of one answer agree |

Interactions. Controllers call the publishing service, which holds the global
lock `nginx_conf_lock` for its whole pipeline and calls in turn the file, the nginx
and the version services; `createVersion` takes the lock of the server inside,
and a transaction inside that, so that one publish occupies up to three
connections of the pool. Templates, core rules and alerts take locks of their
own and do not take the global one, although publishing names the template
files and nginx loads them. Alerts query the metrics. Reports and health checks
query Loki. Everything that changes state writes the audit table.

## 2. What is modelled

| module | models | kind |
|---|---|---|
| `Mutex` | what `withLock` promises | abstract specification |
| `AdvisoryLock` | `AdvisoryLockService` on PostgreSQL locks and the pool | component; implements `Mutex` |
| `AdvisoryLockProofs` | theorems about it | proofs |
| `MCAdvisoryLock` | an instance | model checking |
| `PolicyPublish` | the publishing service with the services it drives | component |
| `PolicyPublishProofs` | theorems about it | proofs |
| `MCPolicyPublish` | instances, and the agreement of `PolicyPublish` with `NginxConf` | model checking |
| `NginxConf` | the edits and getters of `NginxConfigService` on a parsed file | operators |
| `RuleSchema` | `sanitizeRules`, the checks of core and template rules, `RuleDto` | operators |
| `ContentProofs` | theorems about the operators of `NginxConf` and `RuleSchema` | proofs |
| `VersionLog` | what the version tables promise: a log for each name | abstract specification |
| `RuleSets` | templates, core rules, factory seeding, `createVersion`, and the publishes that use templates | component, composed |
| `MCRuleSets` | an instance, and the agreement of the operators of `RuleSchema` on small rules | model checking |
| `Alerts` | `AlertsService` with its mail server | component |
| `WafMetrics` | `WafMetricsService` with its counters and its buffer | component |
| `Users` | `AuthService` with the controllers of `auth` and `users` | component |
| `Reports` | `LokiService`, `ReportsService`, `HealthService` | component |
| `MCAlerts`, `MCWafMetrics`, `MCUsers`, `MCReports` | instances | model checking |
| `RuleSetsProofs`, `AlertsProofs`, `WafMetricsProofs`, `UsersProofs`, `ReportsProofs` | theorems about these five | proofs |

### AdvisoryLock

A caller is a request. `plan[c]` lists the levels it nests: lock names, and `Tx`
for the transaction of `createVersion`, which takes a connection and no lock.
`depth[c]` counts the frames that are open, `sess[c][d]` is the query runner's
connection of frame `d`, and `pc[c]` says where the innermost frame is in
`withLock`. `owner` and `count` are PostgreSQL's lock table: a session takes an
id again if it has it already.

`Call`, `Connect`, `TryLock`, `GiveUp`, `Finish`, `Unlock` and `Close` are the lines of
`withLock`, `acquire` and `release` in order. `Nest` calls `withLock` from inside a
callback. After a nested call the callback ends too, or goes on and may nest again,
as a publish does that records its failure with `createVersion` (`again`, at most `MaxAgain`
times in a request). `Expire` is the clock passing the 30 s deadline. A poll that finds the
lock taken before the deadline changes nothing and is a stuttering step.

Failures (`Faults`, at most `MaxFaults`): `connect` throws; a poll fails on a live
connection, when the session may have been granted the lock already (`PollError`); the unlock
query fails on a live connection; the server ends a session, which drops its grants while the
callback goes on. After the second and the third the connection returns to the pool
with a grant on it; `leaked` are the ids to which that happened.

Lock ids are those of `hashtext`, any function from names to `Hashes`; the instance
has a collision.

### PolicyPublish

A process is one request at a time. `pc[p]` is the next await of its handler. The
labels are in the order of the code:

    publish             check writePolicy parse backup writeConf test reload save audit
    updateRuntime                         parse backup writeConf test reload      audit
    updateGlobalConfig                    parse backup writeConf test reload      audit
    rollbackToVersion   lookup, then publish
    catch of publish            failSave failAudit restore
    catch of updateRuntime               failAudit restore
    catch of updateGlobalConfig                    restore

The operators `publish`, `updateRuntime`, `updateGlobalConfig` and `rollbackToVersion` list the
steps of each handler; `Pipeline` those that they share. All but `lookup` run with `holder = p`:
the global lock, used here as `Mutex` promises it. (`AdvisoryLock` shows when that is not kept:
a lost session.) `LockTimeout` is an `acquire` that gives up, and a `connect` or a poll that
throws; a lock that such a poll leaves granted is in `AdvisoryLock` only. Every step may fail,
and each failure has the outcomes the call allows: a write in place leaves the old text or a
torn file; a query that fails may have been committed; a command that fails changes nothing.
`Throw` is the way to the catch block and `Return` is `withLock`'s finally block with the reply.
`Crash` is the end of the process at any point: the lock is freed by PostgreSQL, files stay as
they are, torn if one was being written, and nginx runs on. The program does nothing about them
at its next start.

The data is reduced to what the control depends on. A policy is its rules (a model
value; `Malformed` ones make `sanitizeRules` throw, `Unloadable` ones make the nginx
module refuse), its references and its score. `nginx.conf` is the set of servers
that name a policy file, the server-level directives (`waf` and
`waf_dynamic_block_enable` are one field) and one value for the http level. The
three edits of `NginxConfigService` are `Edit`; a server that has no block is an
exception (`Editable`). `running` is the configuration that nginx loaded with the
policies it named then.

`atLock` and `hit` are history variables, read by no action's guard: the files and
nginx when the lock was last taken, and the failures since.

### NginxConf and RuleSchema

`NginxConf` is the tree that `crossplane` parses, reduced to directives with their first
argument, server blocks with their names, and the http block. Its operators have the names of
the methods. `PolicyPublish` abstracts this tree to three fields; `EditsAreNginxConf` in
`MCPolicyPublish`, an assumption that TLC evaluates, says that the edits of the two agree, and
`GlobalReadsAfterWrite` that the getters read what an update wrote. Both presume that a served
block has one name. The http-level score is any number to its DTO and is read with `parseInt`,
so that a score of 1.5 is read back as 1: `Text` and `ParseInt` are parameters, and
`GlobalReadsAfterWrite` is about integers. Blocks with several names are in `NginxConf` only:
there a publish for one name changes the policy of the others.

`RuleSchema` is what a rule may be at the controllers (`RuleDto`) and what `sanitizeRules`
accepts and returns. A field is a value of its type or `Other`, and the difference of the two
checks is stated as two operators, `OnlyTheDto` (what `sanitizeRules` throws on after the
controller let it through) and `OnlyTheSchema` (no target, a header name of another type that
nothing reads, and a score that is not an integer, such as 1.5, for which `Fraction` stands).
`RuleDto` is about a rule whose numbers the DTO has already converted. `SchemaOnSmallRules` in
`MCRuleSets` evaluates the difference on a few hundred rules, and `ChecksDiffer` proves it for
all. The words by which a core set is tagged are looked for anywhere in its name, so that
`resource` contains `rce` and `quality` contains `ua`.

### RuleSets

An actor is a request or the start of the process. `rows` and `audit` are what is
committed, `pend` what a transaction has written, and `lock` the advisory locks; a
lock may be lost while the transaction goes on, and then only the unique index
on the number stands between two of them (`Blocked`, and the failing branch of `Insert`).
`file[n]` is the template file, or the managed core file.

    create, rollback   lock read insert [truncate write] commit
    delete             lock read insert unlink commit
    publish            global check policy test reload, then lock read insert commit
                       (a failure: FAILED, the row, restore)
    seed               lock read insert truncate write      (insert saves the row for good)

`Truncate` and `Write` are one `writeFile` in two halves, because nginx may look in between.
They come before `Commit`, as in the code. A commit, or the save of a factory version
(`SeedRow`), may be stored though its answer is lost; such a seeding fails the start, and the
next one finds version 1 and never writes the managed file. `uses`, `wired`, `was` and `running`
reduce a publish to what it shares with templates. A crash ends every transaction and starts the
seeding anew; `spoilt` are the names whose file an operation touched and then failed, `left[n]`
the rules that such an operation may have left there, `lost` the locks that were lost, `deleted`
the templates that were deleted: history variables, which the properties use to say what is
excused. `audit[n]` is the number of versions that the committed audit rows of `n` account for.
The core sets that policies extend are read from the factory directory, which nobody writes.

`VersionLog` says what readers of the version tables rely on: the versions of a name are a
log, which grows at its end by what `sanitizeRules` accepted (for a policy, by the outcome of
a publish) and is otherwise only cleared, when a template is deleted. `RuleSets`
implements it (`KeepsPromise`) with `Logged` for the log: the rows of a name in the order of
their numbers. So the numbers give the order of the commits, and a rollback adds a
version and takes none back. For a name whose lock was lost nothing is promised any more (`void`):
of two transactions that overlap, the one with the higher number may commit first.
`PolicyVersionService.updateLatest` would break the promise, but nothing calls it.

### Alerts

`Checks` are runs of the timer's check that may overlap, `Clients` requests. The steps are
`find`, `insert` (`ensureConfig`), `last` (the newest log row), `lock`, again `find`, `mail`,
`log`; an update has `lock`, `find`, `save`. `alert_config` is a sequence of rows, because
nothing but convention keeps it to one, and `findOne` without an order may return any. A save or
a log row may be stored though its answer is lost (`Stored`). A threshold that an update sets to
0 is unset (`zeroed`), since a 0 is never compared. `smtp` says whether the environment enables
a mail server and names its host; without, a mail is an `error`. Time is the age of the newest
log row and of the newest mail, in periods of the timer. `sendAlert` answers `error` without
recipients, and logs it, which starts the cooldown as a sent mail does.

### WafMetrics

`log` is the file that nginx writes, each line stamped up to `Skew` earlier. A line without a
country (`Nowhere`) is counted by no geographical counter and by the summaries all the same.
Every line has a numeric time, as nginx writes it (the code would stamp one without it when it
reads it). `phase` is what the service does: it reads the file to its end (`reading`), starts
`tail -n 0 -F` (`gap`, `tail`), and starts it again when it ends (`down`); when the first
reading fails it does nothing more (`off`). `pos` counts lines handed over or passed over, and
`missed` are those passed over. `counters` and `buf` are the queues as the code keeps them:
eviction from the front stops at the first event that is young enough, a scan from the back at
the first that is too old. `Query` is the part of a request that changes them; what it returns
are the operators `getAll`, `getSummary` and `getSeries`.

### Users

`phase` is the start, role by role, as `ensureBuiltins` does it, with an environment that may
change from start to start. `login`, `create`, `deleteSelf` and `refresh` are the requests;
those that read and then write take two steps. A token carries what was true when it was issued
and is believed until it expires. `valid` says which of a client's two tokens have not expired:
a request takes either as bearer, because the strategy looks at the signature and the expiry and
not at the type of a token; only `refresh` wants the refresh token. A password is left out;
queries do not fail in this module, since a failed one only ends its request or its start.

### Reports

`Stages` lists, for each request, which queries it sends at once and which it sends later.
`queryMap` says of each query what decides its answer: the job, which is that of the security
log or that of the access log; only blocked requests; a field used as a label; the interval that
is sent unexpanded (`$__interval`, a variable of Grafana); counting or fetching. A line belongs
to one of the two jobs and the two arrive apart, so that the parts of a report that come from
the two logs (the indicators and the maps) are not comparable, and no property compares them.
The answer is kept as a set of lines, and `topk`, `aggregateGeo`, `mergeTimeline` and the others
compute from it. `fields` stands for the counts by status and the averages of the access log.

A query that fails is an empty answer and is in `failed`. What answers at Loki's address may not
be Loki (`genuine`): an answer with status 200 and without data is handed on, and throws where
its result type is read (`Throw`); `mergeTimeline` and the probe of the health check do not read
it so (`Optional`). Which fields are labels is up to the collector, which is not in the
repository, and neither is what answers to the interval. The initial states are three: all
labels, the interval understood and a mail server configured; none of these; and none of these
with something else in the place of Loki. `seen` and `quiet` are history.

## 3. Runs

| run | expect | shows |
|---|---|---|
| `lock_faults` | pass | `ExclusiveUnlessLost`, `OrphanOnlyAfterError`, the refinement `KeepsPromise` of `Mutex`, and `EveryCallReturns` |
| `lock_session_loss` | violation | the README's reading of the lock fails when a session is lost |
| `publish_faults` | pass | fresh reads, true acknowledgements, true history, restoring failures, true records, an answer for every request |
| `publish_bad_policy` | violation | a failed publish leaves its policy file |
| `publish_db_down` | violation | a failure after the reload is not taken back from nginx, and a failing audit row skips the restore |
| `publish_base_version` | violation | a base version is not compared with the newest |
| `rulesets_faults` | pass | numbers without gaps, rows and audit rows that balance, files that are the newest version, what nginx runs, seeding that is done once, versions that are a log, answers, starts |
| `alerts_faults` | pass | one configuration row, no lost update, the cooldown, no mail when disabled, a storm is alerted again and again |
| `metrics_skew` | pass | what each window answers lies between two exact counts; the series adds up; the log is followed |
| `users_restart` | pass | unique names, built-in accounts that stay, true tokens, starts |
| `reports_lag` | pass | the parts of one answer agree, whatever query failed; a health check tells what was so of the database and the mail server |
| `health_loki` | violation | a health check says that all is well while Loki is away |

Bounds. `lock_faults` has two requests of up to three levels, two plans of the code (publish:
global lock, server lock, transaction; template: lock, transaction), callbacks that nest once
again, a collision of a template's lock with the server's, four connections and one failure. Two
requests are the fewest that conflict and four connections the fewest that cannot run dry with
these plans. With three, a publish that holds two and a template update that holds one each wait
for one more: `connect` has no deadline, and TLC reports the deadlock. The program's pool has
the driver's ten connections, so the same happens when requests that hold some and wait for one
more use up all ten; `EveryCallReturns` is therefore a statement about pools large enough.

`publish_faults` has two processes, three requests in all (`MaxOps`) and one failure
(`MaxFaults`), with ten kinds of request: accepted, refused by nginx, refused by
`sanitizeRules`, a base version that may be missing, a missing template, a dry run,
a server that `nginx.conf` does not have, a rollback and the two updates. Three
requests make a publish, one that builds on it, and one that interferes; the
behaviour ends with the third, hence `CHECK_DEADLOCK FALSE`. The violation runs use
fewer requests and only the failures that they need.

`rulesets_faults` has two requests at a time, three in all, after a start, and one
failure (a query, a write, a crash, a lost lock); two names of core sets, of which
one is not shipped, and one template that a server uses. Three requests make a
create, a publish that uses it, and a rollback or deletion that interferes. Lost locks matter only
when two requests on one name overlap, which two do. `CHECK_DEADLOCK FALSE`, because
the requests run out.

`alerts_faults` has two checks, the fewest that overlap, two clients with two requests in all, a
cooldown of two periods (one in which an alert is held back and one in which it goes out) and
one failure (a query, a mail, a crash). Ages stop at the cooldown, so that time goes on for
ever. 

`metrics_skew` has three lines over five units of time, stamped up to one unit late, ranges of
two and four units and points of two: a line can be in the short range, in the long one, or in
none, and two lines can be out of order with a third on either side. One failure: the first
reading, `tail`, or a restart. The requests are three: one that passes and one that triggers a
rule, from a country, and a blocked one from nowhere.

`users_restart` has two starts over three names, two clients and two creations: a
restart may swap the names of the built-in accounts, or take the name of an
account that a client creates. `CHECK_DEADLOCK FALSE`, because a refused start may be
the last.

`reports_lag` has two lines, of either log, that may arrive one unit late, two instants, lists
of one (so that they cut) and one system that goes or comes back, in each of the three initial
states; the two keys are symmetric. Requests share no state, so a behaviour has one and ends
with it, hence `CHECK_DEADLOCK FALSE`. `health_loki` has one line: a health check asks for lines
and does not look at them.

Each property of a passing run has a mutant in `PROJECT.json`: a definition changed
the way a plausible bug would change it (a result not looked at, a lost finally
block, a backup taken after the write), under which TLC finds the property
violated.

Fairness. `AdvisoryLock`: weak fairness of a request's own steps, because the event loop runs
every timer and callback that is due, and strong fairness of `Connect`, because the pool serves
its waiters in order. `PolicyPublish`: weak fairness of a handler's steps, because queries, file
operations and commands settle. The code gives `execFile` no timeout: a command that hangs keeps
the global lock, and is outside the model. A request that waits for the lock is answered even if
it never gets it, by the lock's timeout. `RuleSets` has weak fairness of the same steps and of
the start: whatever runs the process starts it again. `Alerts` has weak fairness of the timer
and of each process's steps; `StormIsAlerted` does not say that one certain check sends the
mail, and presumes a mail server that is configured. `WafMetrics` has weak fairness of reading
lines and of starting `tail`, which a timer does. `Users` has weak fairness of a start and of a
request's steps; a start that was refused need not be tried again. `Reports` has none: that a
request ends is a matter of its queries only (the HTTP client has a timeout of ten seconds; the
`select 1` of the health check, `health.service.ts:43`, has no deadline), and a property about
it would restate the assumption. Nothing is assumed about arrivals and failures.

## 4. Theorems

Proved by TLAPS for every value of the constants that satisfies the assumption of
the module (`LockAssumptions`, `PublishAssumptions`, `SchemaAssumptions`,
`RuleSetsAssumptions`, `AlertsAssumptions`, `MetricsAssumptions`, `UsersAssumptions`,
`ReportsAssumptions`): any number of requests, servers, names, lines and failures.
These say what kind of thing a constant is and that names of different kinds differ;
one carries content, `TopN < TopIps` of `ReportsAssumptions` (see below). Every safety
property that a run checks is a theorem. Each component has an invariant `IInv` that
its steps keep, which TLC checked on the component's run before it was proved; its
parts are named, and what follows says why each is needed.

`AdvisoryLockProofs`. `TypeCorrect`, `Exclusion`, `NoOrphans`, `Refinement` (of `Mutex`), and
`ExclusionWithoutLoss`: if sessions are not lost, callbacks of one lock exclude each other
without exception, failed polls and unlocks included. Exclusion is not inductive as it stands: a
connection that returns to the pool with a grant would be re-entered by its next user. The
invariant proved relates the lock table to the frames. Every live frame that holds an id has the
session that owns it; two frames never share a session; and the count of an id for which no
unlock and no poll has failed is one, its owner being the session of a frame that holds it. With
`leaked` ids the owner may be an idle session, which one frame at a time may use, and exclusion
still follows from the sessions being distinct.

`PolicyPublishProofs`. `TypeCorrect`, `FreshReads`, `FailureRestores`, `AcksAreLive`,
`HistoryIsLive`, `AnswersAreRecorded`. The invariant is `TypeOK` with four facts about each
process: `Guarded` (inside the callback, hence the holder), `Kept` (which files are
still those of `atLock` at each label), `Installed` (after the reload, nginx runs
the draft, which is the edit of the file found) and `Undone` (on the way to
the restore, what differs from `atLock` is what the backup undoes, or what a failed
write or query accounts for). Steps of the other processes keep these facts because
none but the holder writes the files; the action properties follow from the
invariant in the state before the reply. What is recorded needs a fifth, `Noted`: at
each step, unless a query failed since the lock was taken, the audit rows of the request
and the newest version of its server are the ones that tell its outcome so far.

`ContentProofs`. For any names, arguments and blocks, `SetThenGet`, `SetKeepsOthers`,
`PublishKeepsSettings` and `RuntimeReadsAfterWrite`: both `setDirective` and `getDirectiveValue`
take the first directive of a name, and nothing that is appended comes before it; that is all
the argument there is, carried through the nested updates. For any rules, `SanitizedAgain`,
`TaggedOnce`, `ChecksDiffer`: of the rules that one of the two checks accepts, the other refuses
exactly those of `OnlyTheDto` or `OnlyTheSchema`. The first says why a rollback, which sanitizes
the rules of its target again, publishes the same rules.

`RuleSetsProofs`. `TypeCorrect`, `NumbersStayDense`, `AuditKeepsPace`, `FileFollowsVersions`,
`OnlyRecordedRulesRun`, `UsedFilesRemain`, `BaselineStays`, `Refinement`. The invariant has two
layers. The lower one presumes no lock, because a lock may be lost while its transaction goes
on: the unique index alone keeps what two open transactions of a name have written apart
(`Apart`), so that each is still consistent with the table when it commits (`Writes`, `Table`),
and rows and audit rows move together. The upper one holds while the lock of the name was not
lost: its holder is alone, so the number that it read is still the next one (`InOrder`), and the
file is the newest version or the holder's own (`TemplateFile`, `CoreFile`). `Contained` and
`Referenced` carry this to nginx and to the policies that name a file. `Refinement` takes from
it that a committed row has the next number and accepted contents (`Added`, `OrderedGrows`), and
that a deletion has found every row; only `Commit`, `SeedRow` and `SessionLoss` are steps of
`VersionLog`, all others stutter. The attempt to prove `RunsRecordedRules` changed the model: it
used to excuse a template only while `spoilt`, and was false where the file of a failed
operation is loaded, and then replaced by a later operation that succeeds. That takes four
operations, one more than the run has. What nginx goes on running is now named by the history
`left`.

`AlertsProofs`. `TypeCorrect`, `NoUpdateIsLost`, `MailsAreACooldownApart`,
`DisabledIsSilent`. `Current`: whoever holds the lock has read the row that is there,
because rows are changed under the lock only; from this, updates add up and a mail is
sent by the configuration in force. `Quiet`: unless two checks overlapped or a log row
was lost, the newest log row is no older than the newest mail, so that a cooldown
counted from the one holds for the other. `Table`: a second row needs two overlapping first
reads.

`WafMetricsProofs`. `TypeCorrect`, `TopCountsHold`, `SummariesHold`, `SeriesSumsUp`. A window
follows the log (`Follows`): it holds lines that were handed over, in that order, each
once, and every one that is young enough. `Ordered` bounds how far stamps are out of
order; with it, what lies behind a young event is younger than window and skew, and what lies
before an old one is older than the window without it, which gives the two bounds of each
count. The counters are shown equal to the tally of their queue through every eviction. The
last theorem is about a recursive function, which sums the points of the series:
`SumOfCounts` names the function that counts the lines of a set of points, shows that it satisfies
the equation of the sum, and that a smallest set on which another solution would differ does
not exist. `SeriesCovers` is the arithmetic: every line of the range is in one
bucket, which is a point of the series or the one under way.

`UsersProofs`. `TypeCorrect`, `BuiltInsStay`, `TokensAreTrue`. An identifier is given once
(`Sequence`), so that a copy of an account, in a token or in a request under way, says
what is still true of it, or the account is deleted (`Known`, `Copies`). A request that is
about to remove an account has found that it is not built in, and that never changes
(`Removable`). The built-in accounts are changed by a start only, role by role (`Prepared`).

`ReportsProofs`. `AnswersAgree`, `HealthIsTold`, `ReportsAddUp`. `Bounded`: an answer has every
line of the window that was there when its stage began, and none that is not there now; so two
answers of a stage differ by late lines only. A query that failed is not among those compared.
`Witnessed`: a probe tells what held when it answered. `HealthIsTold` is about the database, the
mail server and the status of the service; of Loki the code tells nothing (finding 11). `Still`:
while nothing moves, the answer of a query of any stage is what Loki finds now, or the query
failed and its answer is empty. `ReportsAddUp` is about every combination of failed queries:
each of its parts names the one query, if any, whose failure would spoil it. It also needs facts
about the operators: a map accounts for every line it is computed from (`TotalIs`, by the sum
again), a query of lines returns as many as there are up to its limit (`NewestCount`: the number
of later lines is another one for each line), and `topk` leaves out no group if there are few
enough (`TopOfFew`). The proof showed what the property had taken for granted: that the
attackers are counted beyond the length of their list. The code asks for 100 and lists 10; were
it the other way round, a count within the list would not say that the list is complete. Hence
the assumption `TopN < TopIps`.

Only model-checked: the liveness properties, `EveryCallReturns`, `EveryRequestAnswered` (of
`PolicyPublish` and of `RuleSets`), `ComesUp` (of `RuleSets` and of `Users`), `StormIsAlerted`,
and `FollowsLog`. Liveness under fairness is not within the prover's
reach, nor is ENABLED.

## 5. Findings

Where the documentation and the code differ (details in `PROJECT.json`):

1. The global lock prevents concurrent writes only while its session lives.
2. A failed publish does not restore the policy file, and the restored
   `nginx.conf` may name a policy that nginx refuses: from then on every test and
   reload fails, until that server is published again.
3. A failure after the reload restores the file and not nginx. When the audit row of
   the failure cannot be written, the file is not restored either.
4. A rollback is a publish without the dynamic-block score of its target, and
   accepts FAILED versions and dry runs as targets.
5. `baseVersionId` detects no conflict.
6. A runtime update makes no version, and every default action but LOG blocks.
7. Thresholds per attack type can be configured and are never looked at.
8. The statistics of blocked requests count those that only triggered a rule.
9. The list of templates has every version, not the newest.
10. A new version of a core rule set reaches no server: policies extend the factory
    file.
11. Loki is never down for the health check, because `queryLogs` catches every error: a check
    during which Loki is away says that all is well, where the endpoint and its test say degraded.
12. The statistics never carry the warnings that their response declares; the list of
    attackers is empty where the collector makes no label of the address.
13. A publish that `sanitizeRules` refuses saves no FAILED version and writes no audit row,
    which the README of the repository promises of every publish that fails.

Beside these, by the code and with no document against it: a dry run records a SUCCESS version
(`RecordedAfterLive` has the exception); a failed global update is not audited; a core set whose
seeding ended between row and file never gets its managed file (`FactoryIsBaseline` has the
exception).

Of the same kind: `queryWafTimeline` and `queryAccessTimeseries` send `$__interval` as it
stands; a map of the world counts the newest 5000 lines of its range only; the
getters read `nginx.conf` without the lock and may see it half written; two first reads of
the alert configuration may make two rows, of which later ones take any
(`UpdatesAreKept` has the exception).

## 6. What is not modelled, and what is left

Not modelled, and why:

- The text of logs and of the pipeline's step list; the 1-second granularity of
  backup names (each backup is used only under the lock under which it was made).
- The delay with which nginx acts on the reload signal, and a command that hangs: both are
  outside the code, and the second is a limit of the fairness above.
- `PolicyVersionService.rollback` and `updateLatest`, which nothing calls.
- `AuditService` and the other getters of lists and details: one query each.
- Passwords and token signatures.
- HTTP plumbing, configuration, migrations, scripts and the built client: no state
  transitions of their own. The migrations give the unique indexes and the empty
  tables of the initial states.

Possible beyond that: an abstract specification of an installation, in which a request
takes effect in one step or not at all, and which `PolicyPublish` implements where no failure
strikes; a lock that may be lost in `PolicyPublish`, as it may be in `RuleSets`.
