------------------------------ MODULE Reports ------------------------------
(***************************************************************************)
(* What the panel is told by others: LokiService, the ReportsService and   *)
(* the HealthService that ask it, with their controllers.                  *)
(*                                                                         *)
(* A request is a sequence of stages; the queries of a stage run at once   *)
(* and share one window of time, each stage takes its own.  Meanwhile the  *)
(* clock goes on, lines arrive late in Loki, and Loki, the database or the *)
(* mail server may come and go: a query that fails counts as one that      *)
(* found nothing.  What answers at Loki's address may not be Loki: an      *)
(* answer without data fails the request where its result type is read.    *)
(*                                                                         *)
(* The answer to a query is kept as the set of log lines that it is about; *)
(* what the code computes from it is an operator below.  A line is of the  *)
(* security log (the job of the WAF) or of the access log; the two arrive  *)
(* apart.  Its one key stands for clientIp, uri, host, country or          *)
(* province, whichever a query groups by.  Requests share no state, so a   *)
(* behaviour has one.                                                      *)
(*                                                                         *)
(* Loki selects streams by their labels before it parses lines; a label    *)
(* that a stream has not is empty.  finalAction is a label; whether the    *)
(* other fields are too is up to the collector, which is not part of the   *)
(* repository, and so is whether $__interval, which the code sends as it   *)
(* stands, is understood.  Initially either all of it is so, and a mail    *)
(* server is configured, or nothing, and then Loki may not be Loki; a Loki *)
(* that is not configured is as one that does not answer.                  *)
(***************************************************************************)
EXTENDS Integers, FiniteSets, Sequences, FiniteSetsExt

CONSTANTS
  Keys,        \* values of the field that lines are grouped by
  Types,       \* values of finalActionType
  Window,      \* the time range of a request
  Lag,         \* how late a line may arrive
  Limit,       \* the most lines that a query of lines returns
  TopTypes, TopIps, TopN,          \* the most groups that a query returns
  MaxTime, MaxLines, MaxSwitches   \* bounds

ASSUME ReportsAssumptions ==
  /\ Types \subseteq {"ALLOW", "BLOCK_BY_RULE", "BLOCK_BY_DYNAMIC_BLOCK"}
  /\ Window \in Nat \ {0} /\ Lag \in Nat /\ Limit \in Nat
  /\ TopTypes \in Nat /\ TopIps \in Nat /\ TopN \in Nat /\ TopN < TopIps
  /\ MaxTime \in Nat /\ MaxLines \in Nat /\ MaxSwitches \in Nat

Jobs == {"waf", "access"}
Line == [id : Nat, job : Jobs, ts : Int, type : Types, key : Keys]
Systems == {"db", "loki", "smtp"}

\* BLOCK is the finalAction, or blocked = 1.
Blocked(lines) == {e \in lines : e.type # "ALLOW"}

(* A query is about one job, perhaps only about blocked requests, perhaps  *)
(* only about streams with a label, perhaps over the unexpanded interval,  *)
(* and counts lines or fetches the newest ones.                            *)
Count == [job |-> "waf", blocked |-> FALSE, label |-> "none", macro |-> FALSE, fetch |-> FALSE]
CountBlocked == [Count EXCEPT !.blocked = TRUE]
Series == [Count EXCEPT !.macro = TRUE]
SeriesBlocked == [Series EXCEPT !.blocked = TRUE]
Fetch == [Count EXCEPT !.fetch = TRUE]
Access(query) == [query EXCEPT !.job = "access"]

\* fields stands for the counts by status and the averages of the access log.
queryMap == [
  req |-> Count, block |-> CountBlocked, type |-> Count, action |-> Count,
  uniqueIp |-> Count, attackIp |-> CountBlocked,
  timelineReq |-> Series, timelineBlock |-> SeriesBlocked,
  topAttackIps |-> [CountBlocked EXCEPT !.label = "key"],
  geoWorld |-> Access(Fetch), geoChina |-> Access([Fetch EXCEPT !.blocked = TRUE, !.label = "blocked"]),
  accessReq |-> Access(Count), accessBlock |-> Access(CountBlocked),
  hosts |-> Access(Count), fields |-> Access(Count),
  points |-> Access(Series),
  wafLogs |-> Fetch, probe |-> Fetch ]

\* The queries that each function of LokiService sends at once.
queryWafStats == {"req", "block", "type", "action", "uniqueIp", "attackIp"}
queryWafTimeline == {"timelineReq", "timelineBlock"}
queryWafTopN == {"topAttackIps"}
queryGeo(scope) == IF scope = "world" THEN {"geoWorld"} ELSE {"geoChina"}
queryAccessStats == {"accessReq", "accessBlock", "hosts", "fields"}
queryAccessTimeseries == {"points"}
queryWafLogs == {"wafLogs"}

\* The answers whose data may be missing: they are handed on, or their result
\* type is read with care.
Optional == queryWafTimeline \cup queryWafLogs \cup {"probe"}

\* The stages of each request.  The report asks for the blocked urls as for the
\* attacking addresses, so that one stage stands for both.
Stages == [
  report |-> <<queryWafStats, queryWafTimeline, queryWafTopN, queryGeo("world"), queryGeo("china")>>,
  accessStats |-> <<queryAccessStats>>,
  timeseries |-> <<queryAccessTimeseries>>,
  logs |-> <<queryWafLogs>>,
  health |-> <<{"database", "probe", "mail"}>> ]
Ops == DOMAIN Stages
Parts == DOMAIN queryMap \cup {"database", "mail"}

System(q) == IF q = "database" THEN "db" ELSE IF q = "mail" THEN "smtp" ELSE "loki"

VARIABLES
  now,         \* the clock
  lines,       \* what has arrived in Loki
  labels,      \* the fields that the collector makes labels
  macro,       \* Loki understands the interval
  genuine,     \* what answers at Loki's address is Loki
  configured,  \* the systems that the environment names
  reachable,   \* the systems that answer
  request,     \* [op, stage, end, begun]: the request; begun is the lines at its stage's start
  answers,     \* answers[q]: the lines of the queries that are done
  failed,      \* the queries that failed
  garbled,     \* those of them, in this stage, that were answered without data
  quiet,       \* history: while a request runs, neither clock nor log moved since it began
  seen,        \* history: the [system, up] that held since a health check began
  switchesLeft

vars == <<now, lines, labels, macro, genuine, configured, reachable, request, answers,
          failed, garbled, quiet, seen, switchesLeft>>
collector == <<labels, macro, genuine, configured>>

Idle == [op |-> "none"]
Over == [op |-> "over"]
Running == request \notin {Idle, Over}
Status == {[system |-> s, up |-> s \in reachable] : s \in Systems}

Init ==
  /\ now = 0
  /\ lines = {}
  /\ \/ labels = {} /\ macro = FALSE /\ configured = {"db", "loki"} /\ genuine \in BOOLEAN
     \/ labels = {"key", "blocked"} /\ macro = TRUE /\ configured = Systems /\ genuine = TRUE
  /\ reachable = Systems
  /\ request = Idle /\ answers = <<>> /\ failed = {} /\ garbled = {}
  /\ quiet = TRUE /\ seen = {}
  /\ switchesLeft = MaxSwitches
----------------------------------------------------------------------------
\* The queries of this stage that are not done.
Pending == IF Running THEN Stages[request.op][request.stage] \ DOMAIN answers ELSE {}

\* The environment.  A system matters only when it is about to be asked.
Asked == IF request = Idle THEN Systems ELSE {System(q) : q \in Pending}

Clock ==
  /\ now < MaxTime /\ now' = now + 1
  /\ quiet' = ~Running
  /\ UNCHANGED <<lines, collector, reachable, request, answers, failed, garbled, seen, switchesLeft>>

Arrive ==
  /\ Cardinality(lines) < MaxLines
  /\ \E age \in 0..Lag, j \in Jobs, t \in Types, k \in Keys :
       lines' = lines \cup {[id |-> Cardinality(lines) + 1, job |-> j, ts |-> now - age,
                             type |-> t, key |-> k]}
  /\ quiet' = ~Running
  /\ UNCHANGED <<now, collector, reachable, request, answers, failed, garbled, seen, switchesLeft>>

Switch ==
  /\ switchesLeft > 0 /\ switchesLeft' = switchesLeft - 1
  /\ \E s \in Asked : reachable' = (reachable \ {s}) \cup ({s} \ reachable)
  /\ seen' = IF request.op = "health" THEN seen \cup Status' ELSE {}
  /\ UNCHANGED <<now, lines, collector, request, answers, failed, garbled, quiet>>
----------------------------------------------------------------------------
\* buildTimeParams takes the clock when the stage begins.
buildTimeParams(op, stage) ==
  [op |-> op, stage |-> stage, end |-> now, begun |-> Cardinality(lines)]

\* Mutant: the window ends when a query is answered.
InWindow_OwnClock(e) == e.ts > now - Window /\ e.ts <= now

InWindow(e) == e.ts > request.end - Window /\ e.ts <= request.end

\* The lines of a query of lines are the newest.
Newest(S) == {e \in S : Cardinality({f \in S : f.ts > e.ts \/ (f.ts = e.ts /\ f.id > e.id)}) < Limit}

\* Mutant: the lists are of all requests.
Hits_ListsAll(q) ==
  LET d == queryMap[q]
      S == {e \in lines : e.job = d.job /\ InWindow(e) /\ d.label \in labels \cup {"none"}}
      T == IF d.blocked /\ d.label = "none" THEN Blocked(S) ELSE S
  IN  IF d.fetch THEN Newest(T) ELSE T

\* The lines that a query finds.
Hits(q) ==
  LET d == queryMap[q]
      S == {e \in lines : e.job = d.job /\ InWindow(e) /\ d.label \in labels \cup {"none"}}
      T == IF d.blocked THEN Blocked(S) ELSE S
  IN  IF d.fetch THEN Newest(T) ELSE T

Begin ==
  /\ request = Idle
  /\ \E op \in Ops : request' = buildTimeParams(op, 1)
  /\ answers' = <<>> /\ failed' = {} /\ garbled' = {}
  /\ quiet' = TRUE /\ seen' = IF request'.op = "health" THEN Status ELSE {}
  /\ UNCHANGED <<now, lines, collector, reachable, switchesLeft>>

Put(q, lns) == answers' = [p \in DOMAIN answers \cup {q} |-> IF p = q THEN lns ELSE answers[p]]

Understood(q) == q \in DOMAIN queryMap => genuine /\ (queryMap[q].macro => macro)

\* queryInstant, queryRange and queryLogs, the ping of the database and the
\* check of the mail server.  Whatever fails, or is not configured, is empty.
Ask(q) ==
  /\ q \in Pending
  /\ \/ /\ System(q) \in configured \cap reachable /\ Understood(q)
        /\ Put(q, IF q \in DOMAIN queryMap THEN Hits(q) ELSE {})
        /\ UNCHANGED <<failed, garbled>>
     \/ /\ System(q) \notin configured \cap reachable \/ ~Understood(q)
        /\ Put(q, {})
        /\ failed' = failed \cup {q}
        /\ garbled' = IF System(q) = "loki" /\ "loki" \in configured \cap reachable /\ ~genuine
                      THEN garbled \cup {q} ELSE garbled
  /\ UNCHANGED <<now, lines, collector, reachable, request, quiet, seen, switchesLeft>>

\* getVectorValue, getVectorSeries and the aggregates read the result type of an
\* answer that has none.
Throws == Running /\ Pending = {} /\ ~(garbled \subseteq Optional)

End ==
  /\ request' = Over /\ answers' = <<>> /\ failed' = {} /\ garbled' = {}
  /\ quiet' = TRUE /\ seen' = {}

Throw ==
  /\ Throws /\ End
  /\ UNCHANGED <<now, lines, collector, reachable, switchesLeft>>

\* A stage is over when all its queries are; the next one looks at the clock.
\* What the earlier ones found is of interest only while nothing has moved.
NextStage ==
  /\ Running /\ Pending = {} /\ ~Throws
  /\ request.stage < Len(Stages[request.op])
  /\ request' = buildTimeParams(request.op, request.stage + 1)
  /\ answers' = IF quiet THEN answers ELSE <<>>
  /\ failed' = IF quiet THEN failed ELSE {}
  /\ garbled' = {}
  /\ UNCHANGED <<now, lines, collector, reachable, quiet, seen, switchesLeft>>

Done == /\ Running /\ Pending = {} /\ ~Throws
        /\ request.stage = Len(Stages[request.op])

Finish ==
  /\ Done /\ End
  /\ UNCHANGED <<now, lines, collector, reachable, switchesLeft>>

Next ==
  \/ Clock \/ Arrive \/ Switch \/ Begin \/ NextStage \/ Throw \/ Finish
  \/ \E q \in Parts : Ask(q)

Spec == Init /\ [][Next]_vars
----------------------------------------------------------------------------
(* What the code computes from the answers *)

Groups(S) == {e.key : e \in S}
AtMost(n, k) == IF n < k THEN n ELSE k

\* topk(n, sum by (...)): any n groups such that no other has more lines.
CountOf(S, k, by) == Cardinality({e \in S : by[e] = k})
topk(S, n, by) ==
  LET G == {by[e] : e \in S}
  IN  {T \in SUBSET G : /\ Cardinality(T) = AtMost(Cardinality(G), n)
                        /\ \A k \in T, j \in G \ T : CountOf(S, k, by) >= CountOf(S, j, by)}

requests == Cardinality(answers.req)
blocks == Cardinality(answers.block)
uniqueIps == AtMost(Cardinality(Groups(answers.uniqueIp)), TopIps)
attackIps == AtMost(Cardinality(Groups(answers.attackIp)), TopIps)
byType == [e \in answers.type |-> e.type]
byKey(S) == [e \in S |-> e.key]

\* dynamicBlocks is looked up in the types that topk left.
dynamicBlocks(T) ==
  IF "BLOCK_BY_DYNAMIC_BLOCK" \in T THEN CountOf(answers.type, "BLOCK_BY_DYNAMIC_BLOCK", byType) ELSE 0

\* mergeTimeline: the points are those that either query has.
mergeTimeline ==
  [t \in {e.ts : e \in answers.timelineReq \cup answers.timelineBlock} |->
     [requests |-> Cardinality({e \in answers.timelineReq : e.ts = t}),
      blocks |-> Cardinality({e \in answers.timelineBlock : e.ts = t})]]

\* aggregateGeo counts the lines that a query of lines returned.
aggregateGeo(S) == [k \in Groups(S) |-> CountOf(S, k, byKey(S))]
Total(heatmap) == MapThenSumSet(LAMBDA k : heatmap[k], DOMAIN heatmap)

checkDb == "database" \notin failed

\* queryLogs never fails: a warning is an answer.
checkLoki == "up"

\* Mutant: a mail server that is not configured is down.
checkSmtp_Down == IF "mail" \in failed THEN "down" ELSE "up"

checkSmtp ==
  IF "smtp" \notin configured THEN "unconfigured" ELSE IF "mail" \in failed THEN "down" ELSE "up"

check ==
  IF ~checkDb THEN "unhealthy"
  ELSE IF checkLoki = "down" \/ checkSmtp = "down" THEN "degraded" ELSE "ok"
----------------------------------------------------------------------------
\* Two queries of one stage, neither of which failed, are about the same window:
\* they differ in the lines that arrived since, and in nothing else.
Late(S) == {e \in S : e.id > request.begun}
Agree(p, q) ==
  {p, q} \subseteq DOMAIN answers \ failed /\ Running
    /\ {p, q} \subseteq Stages[request.op][request.stage]
  => /\ Blocked(answers[p]) \ answers[q] \subseteq Late(answers[p])
     /\ answers[q] \ answers[p] \subseteq Late(answers[q])

\* Among the queries of a stage that did not fail, the blocked requests are
\* among the requests, the attackers among the visitors and the attack types
\* among both, but for late lines.
KpisAgree ==
  /\ Agree("req", "block") /\ Agree("uniqueIp", "attackIp")
  /\ Agree("req", "attackIp") /\ Agree("type", "block")
  /\ Agree("timelineReq", "timelineBlock") /\ Agree("accessReq", "accessBlock")

\* A report during which neither the clock nor the logs moved adds up, whatever
\* failed meanwhile.  The block rate is a proportion; where the query that counts
\* all did not fail there are no more attackers than visitors, no more blocks of
\* one type than blocks, no more at a point of the timeline than requests, and no
\* more on the map of blocked requests than on the map of all.  The list of the
\* attackers accounts for every blocked request if they fit in it and nothing it
\* depends on failed.  Where the collector makes no label of the field, the list
\* and the map of blocked requests are empty; where Loki does not know the
\* interval, there is no timeline.
QuietReportAddsUp ==
  Done /\ request.op = "report" /\ quiet =>
    /\ requests > 0 => blocks <= requests
    /\ "uniqueIp" \notin failed => attackIps <= uniqueIps
    /\ "block" \notin failed =>
         \A T \in topk(answers.type, TopTypes, byType) : dynamicBlocks(T) <= blocks
    /\ "timelineReq" \notin failed =>
         \A t \in DOMAIN mergeTimeline : mergeTimeline[t].blocks <= mergeTimeline[t].requests
    /\ DOMAIN mergeTimeline # {} => macro
    /\ "geoWorld" \notin failed =>
         Total(aggregateGeo(answers.geoChina)) <= Total(aggregateGeo(answers.geoWorld))
    /\ "blocked" \notin labels => DOMAIN aggregateGeo(answers.geoChina) = {}
    /\ \A T \in topk(answers.topAttackIps, TopN, byKey(answers.topAttackIps)) :
         LET listed == {e \in answers.topAttackIps : e.key \in T}
         IN  /\ "key" \notin labels => listed = {}
             /\ "block" \notin failed => Cardinality(listed) <= blocks
             /\ /\ "key" \in labels /\ attackIps <= TopN
                /\ {"block", "attackIp", "topAttackIps"} \cap failed = {}
                => Cardinality(listed) = blocks

\* A health check says that the database is down, or up, only if it was at some
\* time during the check; that the service is degraded only if a mail server is
\* configured and was away; and that all is well only if one that is configured
\* was there.  Of Loki it tells nothing: checkLoki is always "up".
HealthTells ==
  Done /\ request.op = "health" =>
    /\ [system |-> "db", up |-> check # "unhealthy"] \in seen
    /\ check = "degraded" => "smtp" \in configured /\ [system |-> "smtp", up |-> FALSE] \in seen
    /\ check = "ok" /\ "smtp" \in configured => [system |-> "smtp", up |-> TRUE] \in seen

\* Claimed by a test of the health service and by the description of its endpoint:
\* while Loki is away and the database is up, the service is degraded.
LokiOutageIsTold ==
  Done /\ request.op = "health" /\ [system |-> "loki", up |-> TRUE] \notin seen =>
    check \in {"degraded", "unhealthy"}
=============================================================================
