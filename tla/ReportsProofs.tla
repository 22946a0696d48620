--------------------------- MODULE ReportsProofs ----------------------------
(***************************************************************************)
(* The answers of a request, for any lines, window, delay and failures.    *)
(*                                                                         *)
(* The queries of a stage share one window of time, but each sees the      *)
(* lines that have arrived when Loki answers it.  An answer therefore has  *)
(* every line of the window that was there when the stage began, and none  *)
(* that is not there now (Bounded).  A health check knows of each system   *)
(* what held at one time since it began (Witnessed).  While a report runs  *)
(* and neither clock nor logs move, its answers are about one and the same *)
(* window, or are empty (Still), so that what is computed from them can be *)
(* compared.                                                               *)
(***************************************************************************)
EXTENDS Reports, FiniteSetTheorems, TLAPS

Requests ==
  {r \in [op : Ops, stage : Nat \ {0}, end : Int, begun : Nat] : r.stage <= Len(Stages[r.op])}

Typed ==
  /\ now \in Int /\ lines \subseteq Line /\ IsFiniteSet(lines)
  /\ \A e \in lines : e.id <= Cardinality(lines)
  /\ \A e, f \in lines : e.id = f.id => e = f
  /\ "db" \in configured /\ failed \subseteq DOMAIN answers
  /\ request \in {Idle, Over} \cup Requests

\* The queries that are compared: none fetches lines or asks for a label.
Compared == {"req", "block", "type", "uniqueIp", "attackIp",
             "timelineReq", "timelineBlock", "accessReq", "accessBlock"}
Select(q, S) == {e \in S : e.job = queryMap[q].job /\ InWindow(e) /\ (queryMap[q].blocked => e.type # "ALLOW")}
Early == {e \in lines : e.id <= request.begun}

Bounded(q) == Select(q, Early) \subseteq answers[q] /\ answers[q] \subseteq Select(q, lines)

Witnessed(q) ==
  System(q) \in configured => [system |-> System(q), up |-> q \notin failed] \in seen

Answered ==
  /\ request.begun <= Cardinality(lines)
  /\ \A q \in (Compared \cap Stages[request.op][request.stage] \cap DOMAIN answers) \ failed : Bounded(q)
  /\ request.op = "report" /\ request.stage = 1 => DOMAIN answers \subseteq queryWafStats
  /\ request.op = "health" =>
       Status \subseteq seen /\ \A q \in {"database", "mail"} \cap DOMAIN answers : Witnessed(q)

\* While nothing moves, an answer is what Loki finds now, unless it failed; and the
\* earlier stages are answered.
Still ==
  /\ request.end = now
  /\ \A q \in DOMAIN answers : q \in DOMAIN queryMap
  /\ \A q \in DOMAIN answers \ failed : answers[q] = Hits(q) /\ (queryMap[q].macro => macro)
  /\ \A q \in DOMAIN answers \cap failed : answers[q] = {}
  /\ \A s \in 1..(request.stage - 1) : Stages[request.op][s] \subseteq DOMAIN answers

IInv ==
  /\ Typed
  /\ Running => Answered
  /\ Running /\ quiet /\ request.op = "report" => Still
----------------------------------------------------------------------------
(* Queries and stages *)

\* The kinds of queries, field by field.
LEMMA KindsAre ==
  /\ Count.job = "waf" /\ Count.label = "none" /\ ~Count.fetch /\ ~Count.blocked /\ ~Count.macro
  /\ CountBlocked.job = "waf" /\ CountBlocked.label = "none" /\ ~CountBlocked.fetch /\ CountBlocked.blocked
  /\ Series.job = "waf" /\ Series.label = "none" /\ ~Series.fetch /\ ~Series.blocked /\ Series.macro
  /\ SeriesBlocked.job = "waf" /\ SeriesBlocked.label = "none" /\ ~SeriesBlocked.fetch
  /\ SeriesBlocked.blocked /\ SeriesBlocked.macro
  /\ Fetch.job = "waf" /\ Fetch.label = "none" /\ Fetch.fetch /\ ~Fetch.blocked
  /\ Access(Count).job = "access" /\ Access(Count).label = "none" /\ ~Access(Count).fetch
  /\ ~Access(Count).blocked
  /\ Access(CountBlocked).job = "access" /\ Access(CountBlocked).label = "none"
  /\ ~Access(CountBlocked).fetch /\ Access(CountBlocked).blocked
<1>1. /\ Count.job = "waf" /\ Count.label = "none" /\ ~Count.fetch /\ ~Count.blocked /\ ~Count.macro
      /\ CountBlocked.job = "waf" /\ CountBlocked.label = "none" /\ ~CountBlocked.fetch /\ CountBlocked.blocked
  BY DEF Count, CountBlocked
<1>2. Series.job = "waf" /\ Series.label = "none" /\ ~Series.fetch /\ ~Series.blocked /\ Series.macro
  BY DEF Count, Series
<1>3. /\ SeriesBlocked.job = "waf" /\ SeriesBlocked.label = "none" /\ ~SeriesBlocked.fetch
      /\ SeriesBlocked.blocked /\ SeriesBlocked.macro
  BY DEF Count, Series, SeriesBlocked
<1>4. Fetch.job = "waf" /\ Fetch.label = "none" /\ Fetch.fetch /\ ~Fetch.blocked
  BY DEF Count, Fetch
<1>5. /\ Access(Count).job = "access" /\ Access(Count).label = "none" /\ ~Access(Count).fetch
      /\ ~Access(Count).blocked
  BY DEF Count, Access
<1>6. /\ Access(CountBlocked).job = "access" /\ Access(CountBlocked).label = "none"
      /\ ~Access(CountBlocked).fetch /\ Access(CountBlocked).blocked
  BY DEF Count, CountBlocked, Access
<1> QED BY <1>1, <1>2, <1>3, <1>4, <1>5, <1>6

LEMMA ComparedQueries ==
  ASSUME NEW q \in Compared
  PROVE  /\ q \in DOMAIN queryMap /\ queryMap[q].label = "none" /\ ~queryMap[q].fetch
         /\ queryMap[q].blocked <=> q \in {"block", "attackIp", "timelineBlock", "accessBlock"}
         /\ queryMap[q].job = IF q \in {"accessReq", "accessBlock"} THEN "access" ELSE "waf"
<1> DEFINE A == Access(Count)
           B == Access(CountBlocked)
<1> HIDE DEF A, B
<1>1. /\ queryMap["req"] = Count /\ queryMap["type"] = Count /\ queryMap["uniqueIp"] = Count
      /\ queryMap["accessReq"] = A /\ queryMap["timelineReq"] = Series
      /\ queryMap["block"] = CountBlocked /\ queryMap["attackIp"] = CountBlocked
      /\ queryMap["accessBlock"] = B /\ queryMap["timelineBlock"] = SeriesBlocked
  BY DEF queryMap, A, B
<1>2. q \in DOMAIN queryMap
  BY DEF Compared, queryMap
<1>3. /\ A.job = "access" /\ A.label = "none" /\ ~A.fetch /\ ~A.blocked
      /\ B.job = "access" /\ B.label = "none" /\ ~B.fetch /\ B.blocked
  BY KindsAre DEF A, B
<1>4. CASE q \in {"req", "type", "uniqueIp"}
  BY <1>1, <1>2, <1>4, KindsAre
<1>5. CASE q \in {"block", "attackIp"}
  BY <1>1, <1>2, <1>5, KindsAre
<1>6. CASE q \in {"timelineReq", "timelineBlock"}
  BY <1>1, <1>2, <1>6, KindsAre
<1>7. CASE q \in {"accessReq", "accessBlock"}
  BY <1>1, <1>2, <1>3, <1>7
<1> QED BY <1>4, <1>5, <1>6, <1>7 DEF Compared

LEMMA RequestRuns ==
  /\ \A r \in Requests : r \notin {Idle, Over}
  /\ \A r \in Requests : r.op \in Ops /\ r.stage \in Nat /\ r.end \in Int /\ r.begun \in Nat
<1>1. "none" \notin Ops /\ "over" \notin Ops
  BY DEF Ops, Stages
<1> QED BY <1>1 DEF Requests, Idle, Over

\* Only the report has stages after the first.
LEMMA StagesAre ==
  /\ Ops = {"report", "accessStats", "timeseries", "logs", "health"}
  /\ \A o \in Ops : Len(Stages[o]) = IF o = "report" THEN 5 ELSE 1
  /\ Stages["report"][1] = queryWafStats /\ Stages["report"][2] = queryWafTimeline
  /\ Stages["report"][3] = queryWafTopN /\ Stages["report"][4] = queryGeo("world")
  /\ Stages["report"][5] = queryGeo("china")
  /\ Stages["health"][1] = {"database", "probe", "mail"}
<1>1. Ops = {"report", "accessStats", "timeseries", "logs", "health"}
  BY DEF Ops, Stages
<1>2. /\ Stages["report"] = <<queryWafStats, queryWafTimeline, queryWafTopN, queryGeo("world"), queryGeo("china")>>
      /\ Stages["accessStats"] = <<queryAccessStats>> /\ Stages["timeseries"] = <<queryAccessTimeseries>>
      /\ Stages["logs"] = <<queryWafLogs>> /\ Stages["health"] = <<{"database", "probe", "mail"}>>
  BY DEF Stages
<1>3. /\ Len(Stages["report"]) = 5 /\ Len(Stages["accessStats"]) = 1 /\ Len(Stages["timeseries"]) = 1
      /\ Len(Stages["logs"]) = 1 /\ Len(Stages["health"]) = 1
  BY <1>2
<1>4. \A o \in Ops : Len(Stages[o]) = IF o = "report" THEN 5 ELSE 1
  BY <1>1, <1>3
<1> QED BY <1>1, <1>2, <1>4

LEMMA ReportQueries ==
  ASSUME request \in Requests, request.op = "report",
         NEW q \in Stages[request.op][request.stage]
  PROVE  q \in DOMAIN queryMap /\ System(q) = "loki"
<1>1. request.stage \in 1..5
  BY StagesAre DEF Requests
<1>2. Stages[request.op][request.stage] \in
        {queryWafStats, queryWafTimeline, queryWafTopN, queryGeo("world"), queryGeo("china")}
  BY <1>1, StagesAre
<1>3. q \in {"req", "block", "type", "action", "uniqueIp", "attackIp", "timelineReq", "timelineBlock",
             "topAttackIps", "geoWorld", "geoChina"}
  BY <1>2 DEF queryWafStats, queryWafTimeline, queryWafTopN, queryGeo
<1>4. q \in DOMAIN queryMap
  BY <1>3 DEF queryMap
<1> QED BY <1>3, <1>4 DEF System

\* What the queries of lines find.
LEMMA HitsAre ==
  ASSUME NEW q \in Compared
  PROVE  Hits(q) = Select(q, lines)
<1>1. queryMap[q].label = "none" /\ ~queryMap[q].fetch
  BY ComparedQueries
<1>2. Hits(q) = LET S == {e \in lines : e.job = queryMap[q].job /\ InWindow(e)} IN IF queryMap[q].blocked THEN Blocked(S) ELSE S
  BY <1>1 DEF Hits
<1> QED BY <1>2 DEF Select, Blocked
\* They find the same while neither the window nor the lines move.
LEMMA HitsStay ==
  ASSUME lines' = lines, labels' = labels, request'.end = request.end
  PROVE  \A q : Hits(q)' = Hits(q)
<1>1. \A e : InWindow(e)' = InWindow(e)
  BY DEF InWindow
<1> TAKE q
<1> DEFINE S == {e \in lines : e.job = queryMap[q].job /\ InWindow(e) /\ queryMap[q].label \in labels \cup {"none"}}
           T == IF queryMap[q].blocked THEN Blocked(S) ELSE S
<1>2. S' = S
  BY <1>1
<1>3. T' = T
  BY <1>2 DEF Blocked
<1>4. Newest(T)' = Newest(T)
  BY <1>3 DEF Newest
<1> HIDE DEF T
<1>5. Hits(q) = IF queryMap[q].fetch THEN Newest(T) ELSE T
  BY DEF Hits, T
<1>6. Hits(q)' = IF queryMap[q].fetch THEN Newest(T)' ELSE T'
  BY DEF Hits, T
<1> QED BY <1>3, <1>4, <1>5, <1>6

LEMMA StillStays ==
  ASSUME Still, request' = request,
         UNCHANGED <<now, lines, labels, macro, answers, failed>>
  PROVE  Still'
<1>1. \A q : Hits(q)' = Hits(q)
  BY HitsStay
<1> QED BY <1>1 DEF Still
----------------------------------------------------------------------------
(* The invariant *)

LEMMA InitIInv == Init => IInv
<1> SUFFICES ASSUME Init PROVE IInv
  OBVIOUS
<1>1. IsFiniteSet({}) /\ DOMAIN <<>> = {}
  BY FS_EmptySet
<1>2. ~Running
  BY DEF Init, Running
<1>3. "db" \in configured
  BY DEF Init, Systems
<1> QED BY <1>1, <1>2, <1>3 DEF Init, IInv, Typed

\* The clock moves no window: that of a stage is fixed.
LEMMA ClockStep == IInv /\ Clock => IInv'
<1> SUFFICES ASSUME IInv, Clock PROVE IInv'
  OBVIOUS
<1>1. now' \in Int /\ UNCHANGED <<lines, labels, macro, configured, reachable, request, answers, failed, seen>>
  BY DEF IInv, Typed, Clock, collector
<1>2. Typed'
  BY <1>1 DEF IInv, Typed
<1>3. Running' = Running /\ Status' = Status
  BY <1>1 DEF Running, Status
<1>4. \A q : Bounded(q)' = Bounded(q) /\ Witnessed(q)' = Witnessed(q)
  BY <1>1 DEF Bounded, Witnessed, Select, Early, InWindow
<1>5. Answered => Answered'
  BY <1>1, <1>3, <1>4 DEF Answered
<1>6. quiet' = ~Running
  BY DEF Clock
<1> QED BY <1>2, <1>3, <1>5, <1>6 DEF IInv

\* A line that arrives is later than every stage that has begun.
LEMMA ArriveStep == IInv /\ Arrive => IInv'
<1> SUFFICES ASSUME IInv, Arrive PROVE IInv'
  OBVIOUS
<1>1. UNCHANGED <<now, labels, macro, configured, reachable, request, answers, failed, seen>> /\ Typed
  BY DEF IInv, Arrive, collector
<1>2. PICK age \in 0..Lag, j \in Jobs, t \in Types, k \in Keys :
        lines' = lines \cup {[id |-> Cardinality(lines) + 1, job |-> j, ts |-> now - age,
                              type |-> t, key |-> k]}
  BY DEF Arrive
<1> DEFINE e == [id |-> Cardinality(lines) + 1, job |-> j, ts |-> now - age, type |-> t, key |-> k]
<1>3. Cardinality(lines) \in Nat /\ now - age \in Int
  BY <1>1, FS_CardinalityType, ReportsAssumptions DEF Typed
<1>4. e \in Line /\ e.id = Cardinality(lines) + 1
  BY <1>3 DEF Line
<1>5. \A f \in lines : f.id \in Nat /\ f.id <= Cardinality(lines)
  BY <1>1 DEF Typed, Line
<1>6. lines' = lines \cup {e} /\ e \notin lines
  BY <1>2, <1>3, <1>4, <1>5
<1> HIDE DEF e
<1>7. IsFiniteSet(lines') /\ Cardinality(lines') = Cardinality(lines) + 1
  BY <1>1, <1>6, FS_AddElement DEF Typed
<1>8. \A f \in lines' : f \in Line /\ f.id <= Cardinality(lines')
  BY <1>1, <1>3, <1>4, <1>5, <1>6, <1>7 DEF Typed
<1>9. Typed'
  <2>1. \A f, g \in lines' : f.id = g.id => f = g
    BY <1>1, <1>3, <1>4, <1>5, <1>6 DEF Typed
  <2> QED BY <1>1, <1>7, <1>8, <2>1 DEF Typed
<1>10. Running' = Running /\ Status' = Status
  BY <1>1 DEF Running, Status
<1>11. ASSUME Running, Answered PROVE Answered'
  <2>1. request.begun \in Nat /\ request.begun <= Cardinality(lines) /\ request' = request
    BY <1>1, <1>11, RequestRuns DEF Running, Typed, Answered
  <2>2. Early' = Early
    BY <1>3, <1>4, <1>6, <2>1 DEF Early
  <2>3. ASSUME NEW q, Bounded(q) PROVE Bounded(q)'
    <3>1. Select(q, Early)' = Select(q, Early)
      BY <2>1, <2>2 DEF Select, InWindow
    <3>2. Select(q, lines) \subseteq Select(q, lines)'
      BY <1>6, <2>1 DEF Select, InWindow
    <3> QED BY <1>1, <2>3, <3>1, <3>2 DEF Bounded
  <2>4. \A q : Witnessed(q)' = Witnessed(q)
    BY <1>1 DEF Witnessed
  <2>5. request'.begun <= Cardinality(lines')
    BY <1>3, <1>7, <2>1
  <2> QED BY <1>1, <1>10, <1>11, <2>1, <2>3, <2>4, <2>5 DEF Answered
<1>12. quiet' = ~Running
  BY DEF Arrive
<1> QED BY <1>9, <1>10, <1>11, <1>12 DEF IInv

\* A system comes or goes: a health check has seen both.
LEMMA SwitchStep == IInv /\ Switch => IInv'
<1> SUFFICES ASSUME IInv, Switch PROVE IInv'
  OBVIOUS
<1>1. UNCHANGED <<now, lines, labels, macro, configured, request, answers, failed>>
  BY DEF Switch, collector
<1>2. seen' = IF request.op = "health" THEN seen \cup Status' ELSE {}
  BY DEF Switch
<1>3. Typed' /\ Running' = Running
  BY <1>1 DEF IInv, Typed, Running
<1>4. \A q : Bounded(q)' = Bounded(q)
  BY <1>1 DEF Bounded, Select, Early, InWindow
<1>5. ASSUME Running, Answered PROVE Answered'
  <2>1. request.op = "health" => seen' = seen \cup Status'
    BY <1>2
  <2>2. ASSUME request.op = "health", NEW q, Witnessed(q) PROVE Witnessed(q)'
    BY <1>1, <2>1, <2>2 DEF Witnessed
  <2> QED BY <1>1, <1>4, <1>5, <2>1, <2>2 DEF Answered
<1>6. Still => Still'
  BY <1>1, StillStays
<1>7. quiet' = quiet
  BY DEF Switch
<1> QED BY <1>1, <1>3, <1>5, <1>6, <1>7 DEF IInv

\* A request begins, with what holds then.
LEMMA BeginStep == IInv /\ Begin => IInv'
<1> SUFFICES ASSUME IInv, Begin PROVE IInv'
  OBVIOUS
<1>1. PICK op \in Ops : request' = buildTimeParams(op, 1)
  BY DEF Begin
<1>2. /\ answers' = <<>> /\ failed' = {} /\ seen' = IF request'.op = "health" THEN Status ELSE {}
      /\ UNCHANGED <<now, lines, labels, macro, configured, reachable>> /\ Typed
  BY DEF Begin, IInv, collector
<1>3. request' = [op |-> op, stage |-> 1, end |-> now, begun |-> Cardinality(lines)]
  BY <1>1 DEF buildTimeParams
<1>4. Cardinality(lines) \in Nat /\ DOMAIN answers' = {}
  BY <1>2, FS_CardinalityType DEF Typed
<1>5. request' \in Requests
  <2>1. 1 <= Len(Stages[op])
    <3>1. Len(Stages[op]) = IF op = "report" THEN 5 ELSE 1
      BY StagesAre
    <3> QED BY <3>1
  <2>2. now \in Int
    BY <1>2 DEF Typed
  <2>3. request' \in [op : Ops, stage : Nat \ {0}, end : Int, begun : Nat]
    BY <1>3, <1>4, <2>2
  <2>4. request'.stage = 1 /\ request'.op = op
    BY <1>3
  <2> QED BY <2>1, <2>3, <2>4 DEF Requests
<1>6. Typed'
  BY <1>2, <1>4, <1>5 DEF Typed
<1>7. request'.begun = Cardinality(lines') /\ Cardinality(lines') \in Nat
  BY <1>2, <1>3, <1>4
<1>8. Status' = Status
  BY <1>2 DEF Status
<1>9. Answered'
  BY <1>2, <1>4, <1>7, <1>8 DEF Answered
<1>10. Still'
  <2>1. request'.end = now' /\ 1..(request'.stage - 1) = {}
    BY <1>2, <1>3
  <2> QED BY <1>2, <1>4, <2>1 DEF Still
<1> QED BY <1>6, <1>9, <1>10 DEF IInv

\* Loki, the database or the mail server answers, or fails.
LEMMA AskStep == ASSUME IInv, NEW q \in Parts, Ask(q) PROVE IInv'
<1>1. /\ UNCHANGED <<now, lines, labels, macro, configured, reachable, request, seen>>
      /\ q \in Pending
  BY DEF Ask, collector
<1>2. Running /\ q \in Stages[request.op][request.stage] /\ q \notin DOMAIN answers
  BY <1>1 DEF Pending
<1>3. Typed /\ Answered /\ request \in Requests
  BY <1>2 DEF IInv, Typed, Running
<1>4. PICK lns : Put(q, lns)
  BY DEF Ask
<1>5. DOMAIN answers' = DOMAIN answers \cup {q} /\ answers'[q] = lns /\ \A p \in DOMAIN answers : answers'[p] = answers[p]
  BY <1>2, <1>4 DEF Put
<1>6. failed' \in {failed, failed \cup {q}}
  BY DEF Ask
<1>7. Typed' /\ Running'
  BY <1>1, <1>2, <1>3, <1>5, <1>6 DEF Typed, Running
<1>8. ASSUME NEW p \in (Compared \cap Stages[request.op][request.stage] \cap DOMAIN answers') \ failed'
      PROVE  Bounded(p)'
  <2>1. CASE p = q
    <3>1. answers'[q] = Hits(q)
      <4>1. Put(q, Hits(q))
        BY <1>8, <2>1, ComparedQueries DEF Ask
      <4> QED BY <4>1, <1>2 DEF Put
    <3>2. answers'[q] = Select(q, lines)
      BY <1>8, <2>1, <3>1, HitsAre
    <3>3. Select(q, Early) \subseteq Select(q, lines)
      BY DEF Select, Early
    <3> QED BY <1>1, <2>1, <3>2, <3>3 DEF Bounded, Select, Early, InWindow
  <2>2. CASE p # q
    <3>1. Bounded(p) /\ answers'[p] = answers[p]
      BY <1>3, <1>5, <1>6, <1>8, <2>2 DEF Answered
    <3> QED BY <1>1, <3>1 DEF Bounded, Select, Early, InWindow
  <2> QED BY <2>1, <2>2
<1>9. request.op = "report" /\ request.stage = 1 => DOMAIN answers' \subseteq queryWafStats
  BY <1>2, <1>3, <1>5, StagesAre DEF Answered
<1>10. ASSUME request.op = "health", NEW p \in {"database", "mail"} \cap DOMAIN answers' PROVE Witnessed(p)'
  <2>1. CASE p = q
    <3>1. q \notin DOMAIN queryMap
      BY <1>10, <2>1 DEF queryMap
    <3>2. System(q) \in configured => (q \in failed' <=> System(q) \notin reachable)
      BY <1>2, <1>3, <3>1 DEF Ask, Understood, Typed
    <3>3. Status \subseteq seen /\ System(q) \in Systems
      BY <1>3, <1>10, <2>1 DEF Answered, System, Systems
    <3>4. [system |-> System(q), up |-> System(q) \in reachable] \in seen
      BY <3>3 DEF Status
    <3>5. System(q) \in configured => (q \notin failed') = (System(q) \in reachable)
      BY <3>2
    <3>6. System(q) \in configured => [system |-> System(q), up |-> q \notin failed'] \in seen
      BY <3>4, <3>5
    <3> QED BY <1>1, <2>1, <3>6 DEF Witnessed
  <2>2. CASE p # q
    <3>1. Witnessed(p) /\ (p \in failed' <=> p \in failed)
      BY <1>3, <1>5, <1>6, <1>10, <2>2 DEF Answered
    <3>2. (p \notin failed') = (p \notin failed)
      BY <3>1
    <3> QED BY <1>1, <3>1, <3>2 DEF Witnessed
  <2> QED BY <2>1, <2>2
<1>11. Status' = Status
  BY <1>1 DEF Status
<1>12. Answered'
  BY <1>1, <1>3, <1>8, <1>9, <1>10, <1>11 DEF Answered
<1>13. ASSUME quiet', request.op = "report" PROVE Still'
  <2>1. Still
    <3>1. quiet
      BY <1>13 DEF Ask
    <3> QED BY <1>2, <1>13, <3>1 DEF IInv
  <2>2. \A p : Hits(p)' = Hits(p)
    BY <1>1, HitsStay
  <2>3. q \in DOMAIN queryMap /\ System(q) = "loki"
    BY <1>2, <1>3, <1>13, ReportQueries
  <2>4. \/ answers'[q] = Hits(q) /\ q \notin failed' /\ failed' = failed /\ (queryMap[q].macro => macro)
        \/ answers'[q] = {} /\ failed' = failed \cup {q}
    BY <1>2, <1>3, <2>3 DEF Ask, Put, Understood, Typed
  <2>5. \A p \in DOMAIN answers' \ failed' : answers'[p] = Hits(p) /\ (queryMap[p].macro => macro)
    BY <1>5, <2>1, <2>4 DEF Still
  <2>6. \A p \in DOMAIN answers' \cap failed' : answers'[p] = {}
    BY <1>5, <2>1, <2>4 DEF Still
  <2>7. \A s \in 1..(request.stage - 1) : Stages[request.op][s] \subseteq DOMAIN answers'
    BY <1>5, <2>1 DEF Still
  <2>8. request.end = now /\ \A p \in DOMAIN answers' : p \in DOMAIN queryMap
    BY <1>5, <2>1, <2>3 DEF Still
  <2> QED BY <1>1, <2>2, <2>5, <2>6, <2>7, <2>8 DEF Still
<1> QED BY <1>1, <1>7, <1>12, <1>13 DEF IInv

\* A stage of the report begins: what is kept of the earlier ones is not compared,
\* and what they found is still there if nothing moved.
LEMMA NextStageStep == IInv /\ NextStage => IInv'
<1> SUFFICES ASSUME IInv, NextStage PROVE IInv'
  OBVIOUS
<1>1. /\ Running /\ Pending = {} /\ request.stage < Len(Stages[request.op])
      /\ request' = buildTimeParams(request.op, request.stage + 1)
      /\ answers' = (IF quiet THEN answers ELSE <<>>) /\ failed' = (IF quiet THEN failed ELSE {})
      /\ UNCHANGED <<now, lines, labels, macro, configured, reachable, seen>>
  BY DEF NextStage, collector
<1>2. Typed /\ Answered /\ request \in Requests
  BY <1>1 DEF IInv, Typed, Running
<1>3. /\ request.op = "report" /\ request.stage \in {1, 2, 3, 4} /\ Len(Stages[request.op]) = 5
      /\ request.op \in Ops
  <2>1. request.op \in Ops /\ request.stage \in Nat \ {0} /\ request.stage <= Len(Stages[request.op])
    BY <1>2 DEF Requests
  <2>2. Len(Stages[request.op]) = IF request.op = "report" THEN 5 ELSE 1
    BY <2>1, StagesAre
  <2> QED BY <1>1, <2>1, <2>2
<1>4. request' = [op |-> "report", stage |-> request.stage + 1, end |-> now, begun |-> Cardinality(lines)]
  BY <1>1, <1>3 DEF buildTimeParams
<1>5. Cardinality(lines) \in Nat /\ now \in Int
  BY <1>2, FS_CardinalityType DEF Typed
<1>6. request' \in Requests
  <2>1. "report" \in Ops /\ Len(Stages["report"]) = 5
    BY <1>3
  <2>2. request.stage + 1 \in Nat \ {0} /\ request.stage + 1 <= 5
    BY <1>3
  <2>3. request' \in [op : Ops, stage : Nat \ {0}, end : Int, begun : Nat]
    BY <1>4, <1>5, <2>1, <2>2
  <2>4. request'.stage = request.stage + 1 /\ request'.op = "report"
    BY <1>4
  <2> QED BY <2>1, <2>2, <2>3, <2>4 DEF Requests
<1>7. failed' \subseteq DOMAIN answers'
  BY <1>1, <1>2 DEF Typed
<1>8. Typed'
  BY <1>1, <1>2, <1>6, <1>7 DEF Typed
<1>9. Compared \cap Stages[request'.op][request'.stage] \cap DOMAIN answers' = {}
  <2>1. CASE request.stage = 1
    <3>1. Stages[request'.op][request'.stage] = queryWafTimeline
      BY <1>4, <2>1, StagesAre
    <3>2. DOMAIN answers' \subseteq queryWafStats
      BY <1>1, <1>2, <1>3, <2>1 DEF Answered
    <3> QED BY <3>1, <3>2 DEF queryWafTimeline, queryWafStats
  <2>2. CASE request.stage \in {2, 3, 4}
    <3>1. Stages[request'.op][request'.stage] \in {queryWafTopN, queryGeo("world"), queryGeo("china")}
      BY <1>4, <2>2, StagesAre
    <3> QED BY <3>1 DEF queryWafTopN, queryGeo, Compared
  <2> QED BY <1>3, <2>1, <2>2
<1>10. request'.begun <= Cardinality(lines') /\ request'.op = "report" /\ request'.stage # 1
  BY <1>1, <1>3, <1>4, <1>5
<1>11. Answered'
  BY <1>9, <1>10 DEF Answered
<1>12. ASSUME quiet PROVE Still'
  <2>1. Still /\ answers' = answers /\ failed' = failed /\ request.end = now
    BY <1>1, <1>3, <1>12 DEF IInv, Still
  <2>2. request'.end = request.end /\ request'.op = request.op /\ request'.stage = request.stage + 1
    BY <1>3, <1>4, <2>1
  <2>3. \A q : Hits(q)' = Hits(q)
    BY <1>1, <2>2, HitsStay
  <2>4. Stages[request.op][request.stage] \subseteq DOMAIN answers
    BY <1>1 DEF Pending
  <2>5. \A s \in 1..(request'.stage - 1) : s \in 1..(request.stage - 1) \/ s = request.stage
    BY <1>3, <2>2
  <2>6. \A s \in 1..(request'.stage - 1) : Stages[request'.op][s] \subseteq DOMAIN answers'
    BY <2>1, <2>2, <2>4, <2>5 DEF Still
  <2>7. request'.end = now' /\ \A q \in DOMAIN answers' : q \in DOMAIN queryMap
    BY <1>1, <2>1, <2>2 DEF Still
  <2>8. \A q \in DOMAIN answers' \ failed' :
          answers'[q] = Hits(q)' /\ (queryMap[q].macro => macro')
    BY <1>1, <2>1, <2>3 DEF Still
  <2>9. \A q \in DOMAIN answers' \cap failed' : answers'[q] = {}
    BY <1>1, <2>1 DEF Still
  <2> QED BY <2>6, <2>7, <2>8, <2>9 DEF Still
<1>13. quiet' = quiet
  BY DEF NextStage
<1> QED BY <1>8, <1>11, <1>12, <1>13 DEF IInv

\* Whatever the collector, the failures and the delays are, the answers of a
\* stage are about its window.
THEOREM Inductive == Spec => []IInv
<1>1. ASSUME IInv, [Next]_vars PROVE IInv'
  <2>1. CASE Clock
    BY <1>1, <2>1, ClockStep
  <2>2. CASE Arrive
    BY <1>1, <2>2, ArriveStep
  <2>3. CASE Switch
    BY <1>1, <2>3, SwitchStep
  <2>4. CASE Begin
    BY <1>1, <2>4, BeginStep
  <2>5. CASE NextStage
    BY <1>1, <2>5, NextStageStep
  <2>6. CASE Throw \/ Finish
    <3>1. /\ request' = Over /\ answers' = <<>> /\ failed' = {}
          /\ UNCHANGED <<now, lines, labels, macro, configured>>
      BY <2>6 DEF Throw, Finish, End, collector
    <3>2. ~Running'
      BY <3>1 DEF Running
    <3> QED BY <1>1, <3>1, <3>2 DEF IInv, Typed
  <2>7. ASSUME NEW q \in Parts, Ask(q) PROVE IInv'
    BY <1>1, <2>7, AskStep
  <2>8. CASE UNCHANGED vars
    <3>1. Running' = Running /\ Typed' /\ quiet' = quiet /\ request' = request
      BY <1>1, <2>8 DEF vars, collector, IInv, Typed, Running
    <3>2. Answered => Answered'
      BY <2>8 DEF vars, collector, Answered, Bounded, Witnessed, Status, Select, Early, InWindow
    <3>3. Still => Still'
      BY <2>8, StillStays DEF vars, collector
    <3> QED BY <1>1, <3>1, <3>2, <3>3 DEF IInv
  <2> QED BY <1>1, <2>1, <2>2, <2>3, <2>4, <2>5, <2>6, <2>7, <2>8 DEF Next
<1> QED BY <1>1, InitIInv, PTL DEF Spec
----------------------------------------------------------------------------
(* What the answers say *)

\* Two answers of a stage, the second about blocked requests, differ by lines
\* that arrived since the stage began.
LEMMA TheyAgree ==
  ASSUME IInv, NEW p \in Compared, NEW q \in Compared,
         ~queryMap[p].blocked, queryMap[q].blocked, queryMap[p].job = queryMap[q].job
  PROVE  Agree(p, q)
<1> SUFFICES ASSUME {p, q} \subseteq DOMAIN answers \ failed, Running,
                    {p, q} \subseteq Stages[request.op][request.stage]
             PROVE  /\ Blocked(answers[p]) \ answers[q] \subseteq Late(answers[p])
                    /\ answers[q] \ answers[p] \subseteq Late(answers[q])
  BY DEF Agree
<1>1. Bounded(p) /\ Bounded(q)
  BY DEF IInv, Answered
<1>2. request.begun \in Nat /\ \A e \in lines : e.id \in Nat
  BY RequestRuns DEF IInv, Typed, Running, Line
<1>3. Select(q, Early) = Blocked(Select(p, Early)) /\ Select(q, lines) = Blocked(Select(p, lines))
  BY DEF Select, Blocked
<1>4. \A e \in lines : e \in Select(p, lines) /\ e \in Early => e \in Select(p, Early)
  BY DEF Select
<1>5. \A e \in lines : e \in Early \/ e.id > request.begun
  BY <1>2 DEF Early
<1>6. Blocked(answers[p]) \ answers[q] \subseteq Late(answers[p])
  BY <1>1, <1>3, <1>4, <1>5 DEF Bounded, Blocked, Late, Select
<1>7. answers[q] \ answers[p] \subseteq Late(answers[q])
  BY <1>1, <1>3, <1>4, <1>5 DEF Bounded, Blocked, Late, Select
<1> QED BY <1>6, <1>7

\* The numbers of an answer agree but for late lines, whatever the sizes, delays
\* and failures.
THEOREM AnswersAgree == Spec => []KpisAgree
<1>1. ASSUME IInv PROVE KpisAgree
  <2>1. /\ {"req", "block", "type", "uniqueIp", "attackIp",
            "timelineReq", "timelineBlock", "accessReq", "accessBlock"} \subseteq Compared
        /\ ~queryMap["req"].blocked /\ ~queryMap["uniqueIp"].blocked /\ ~queryMap["type"].blocked
        /\ ~queryMap["timelineReq"].blocked /\ ~queryMap["accessReq"].blocked
        /\ queryMap["block"].blocked /\ queryMap["attackIp"].blocked
        /\ queryMap["timelineBlock"].blocked /\ queryMap["accessBlock"].blocked
        /\ \A q \in Compared \ {"accessReq", "accessBlock"} : queryMap[q].job = "waf"
        /\ queryMap["accessReq"].job = "access" /\ queryMap["accessBlock"].job = "access"
    BY ComparedQueries DEF Compared
  <2>2. Agree("req", "block") /\ Agree("uniqueIp", "attackIp") /\ Agree("req", "attackIp")
    BY <1>1, <2>1, TheyAgree
  <2>3. Agree("type", "block") /\ Agree("timelineReq", "timelineBlock") /\ Agree("accessReq", "accessBlock")
    BY <1>1, <2>1, TheyAgree
  <2> QED BY <2>2, <2>3 DEF KpisAgree
<1> QED BY <1>1, Inductive, PTL

\* A health check tells of the database and the mail server what held while it
\* ran, whenever systems come and go.
THEOREM HealthIsTold == Spec => []HealthTells
<1>1. ASSUME IInv, Done, request.op = "health"
      PROVE  /\ [system |-> "db", up |-> check # "unhealthy"] \in seen
             /\ check = "degraded" => "smtp" \in configured /\ [system |-> "smtp", up |-> FALSE] \in seen
             /\ check = "ok" /\ "smtp" \in configured => [system |-> "smtp", up |-> TRUE] \in seen
  <2>1. Running /\ Pending = {} /\ Typed /\ Answered /\ request \in Requests
    BY <1>1 DEF Done, IInv, Typed, Running
  <2>2. Stages[request.op][request.stage] = {"database", "probe", "mail"}
    <3>1. request.stage \in Nat \ {0} /\ request.stage <= 1
      BY <1>1, <2>1, StagesAre DEF Requests
    <3>2. request.stage = 1
      BY <3>1
    <3> QED BY <1>1, <3>2, StagesAre
  <2>3. {"database", "mail"} \subseteq DOMAIN answers
    BY <2>1, <2>2 DEF Pending
  <2>4. Witnessed("database") /\ Witnessed("mail")
    BY <1>1, <2>1, <2>3 DEF Answered
  <2>5. [system |-> "db", up |-> "database" \notin failed] \in seen
    BY <2>1, <2>4 DEF Witnessed, System, Typed
  <2>6. "smtp" \in configured => [system |-> "smtp", up |-> "mail" \notin failed] \in seen
    BY <2>4 DEF Witnessed, System
  <2>7. (check # "unhealthy") = ("database" \notin failed)
    BY DEF check, checkDb
  <2>8. check = "degraded" => "smtp" \in configured /\ "mail" \in failed
    BY DEF check, checkLoki, checkSmtp
  <2>9. check = "ok" /\ "smtp" \in configured => "mail" \notin failed
    BY DEF check, checkLoki, checkSmtp
  <2>10. [system |-> "db", up |-> check # "unhealthy"] \in seen
    BY <2>5, <2>7
  <2>11. ASSUME check = "degraded" PROVE "smtp" \in configured /\ [system |-> "smtp", up |-> FALSE] \in seen
    <3>1. ("mail" \notin failed) = FALSE
      BY <2>8, <2>11
    <3> QED BY <2>6, <2>8, <2>11, <3>1
  <2>12. ASSUME check = "ok", "smtp" \in configured PROVE [system |-> "smtp", up |-> TRUE] \in seen
    <3>1. ("mail" \notin failed) = TRUE
      BY <2>9, <2>12
    <3> QED BY <2>6, <2>12, <3>1
  <2> QED BY <2>10, <2>11, <2>12
<1>2. ASSUME IInv PROVE HealthTells
  BY <1>1, <1>2 DEF HealthTells
<1> QED BY <1>2, Inductive, PTL
----------------------------------------------------------------------------
(* Sums, groups and the newest lines *)

\* The recursive function that sums h over a set of points.
SumOver(h, D) ==
  CHOOSE s : s = [B \in SUBSET D |->
    IF B = {} THEN 0 ELSE h[CHOOSE b \in B : TRUE] + s[B \ {CHOOSE b \in B : TRUE}]]

\* The members of H whose key is in B.
Keyed(H, key, B) == {x \in H : key[x] \in B}

\* What it computes is shown by naming a function that satisfies its equation,
\* and by the smallest set of points on which another one would differ.
LEMMA SumOfCounts ==
  ASSUME NEW D, IsFiniteSet(D), NEW H, IsFiniteSet(H), NEW key, NEW h,
         \A b \in D : h[b] = Cardinality(Keyed(H, key, {b}))
  PROVE  SumOver(h, D)[D] = Cardinality(Keyed(H, key, D))
<1> DEFINE f == SumOver(h, D)
           Of(B) == Keyed(H, key, B)
           At(b) == Keyed(H, key, {b})
           pick(B) == CHOOSE b \in B : TRUE
           g == [B \in SUBSET D |-> Cardinality(Of(B))]
<1>1. ASSUME NEW X \in SUBSET H PROVE IsFiniteSet(X) /\ Cardinality(X) \in Nat
  BY <1>1, FS_Subset, FS_CardinalityType
<1>2. g[{}] = 0
  <2>1. Of({}) = {}
    BY DEF Keyed
  <2> QED BY <2>1, FS_EmptySet
<1>3. ASSUME NEW B \in SUBSET D, B # {}
      PROVE  pick(B) \in B /\ g[B] = h[pick(B)] + g[B \ {pick(B)}]
  <2> DEFINE b == pick(B)
             C == B \ {b}
  <2>1. b \in B /\ b \in D /\ C \in SUBSET D
    BY <1>3
  <2>2. Of(B) = At(b) \cup Of(C) /\ At(b) \cap Of(C) = {}
    BY <2>1 DEF Keyed
  <2>3. At(b) \in SUBSET H /\ Of(C) \in SUBSET H
    BY DEF Keyed
  <2>4. h[b] = Cardinality(At(b)) /\ g[B] = Cardinality(Of(B)) /\ g[C] = Cardinality(Of(C))
    BY <2>1
  <2> HIDE DEF Of, At, g, b, C
  <2>5. Cardinality(At(b) \cap Of(C)) = 0
    BY <2>2, FS_EmptySet
  <2>6. Cardinality(At(b) \cup Of(C)) = Cardinality(At(b)) + Cardinality(Of(C)) - Cardinality(At(b) \cap Of(C))
    BY <1>1, <2>3, FS_Union
  <2>7. g[B] = h[b] + g[C]
    BY <1>1, <2>2, <2>3, <2>4, <2>5, <2>6
  <2> QED BY <2>1, <2>7 DEF b, C
<1> HIDE DEF pick
<1>4. g = [B \in SUBSET D |-> IF B = {} THEN 0 ELSE h[pick(B)] + g[B \ {pick(B)}]]
  <2>1. ASSUME NEW B \in SUBSET D PROVE g[B] = IF B = {} THEN 0 ELSE h[pick(B)] + g[B \ {pick(B)}]
    <3> HIDE DEF g
    <3> QED BY <1>2, <1>3
  <2>2. g = [B \in SUBSET D |-> g[B]]
    OBVIOUS
  <2> HIDE DEF g
  <2> QED BY <2>1, <2>2
<1>5. f = [B \in SUBSET D |-> IF B = {} THEN 0 ELSE h[pick(B)] + f[B \ {pick(B)}]]
  <2> HIDE DEF g
  <2>1. \E s : s = [B \in SUBSET D |->
          IF B = {} THEN 0 ELSE h[CHOOSE b \in B : TRUE] + s[B \ {CHOOSE b \in B : TRUE}]]
    BY <1>4 DEF pick
  <2>2. f = [B \in SUBSET D |->
          IF B = {} THEN 0 ELSE h[CHOOSE b \in B : TRUE] + f[B \ {CHOOSE b \in B : TRUE}]]
    BY <2>1 DEF SumOver
  <2> HIDE DEF f
  <2> QED BY <2>2 DEF pick
<1> HIDE DEF f
<1> DEFINE T == {B \in SUBSET D : f[B] # g[B]}
<1>6. CASE T = {}
  <2>1. f[D] = g[D] /\ g[D] = Cardinality(Of(D))
    BY <1>6
  <2> QED BY <2>1 DEF f
<1>7. CASE T # {}
  <2>1. PICK B \in T : \A C \in T : ~(<<C, B>> \in StrictSubsetOrdering(D))
    <3>1. IsWellFoundedOn(StrictSubsetOrdering(D), FiniteSubsetsOf(D))
      BY FS_StrictSubsetOrderingWellFounded
    <3>2. T \subseteq FiniteSubsetsOf(D)
      BY FS_FiniteSubsetsOfFinite
    <3> HIDE DEF T
    <3> QED BY <1>7, <3>1, <3>2, WFMin
  <2>2. B \in SUBSET D /\ f[B] # g[B]
    OBVIOUS
  <2> HIDE DEF g
  <2>3. B # {}
    BY <1>2, <1>5, <2>2
  <2>4. pick(B) \in B /\ B \ {pick(B)} \in SUBSET D /\ g[B] = h[pick(B)] + g[B \ {pick(B)}]
    BY <1>3, <2>2, <2>3
  <2>5. B \ {pick(B)} \notin T
    <3>1. <<B \ {pick(B)}, B>> \in StrictSubsetOrdering(D)
      BY <2>2, <2>4 DEF StrictSubsetOrdering
    <3> HIDE DEF T
    <3> QED BY <2>1, <3>1
  <2>6. f[B] = h[pick(B)] + f[B \ {pick(B)}]
    BY <1>5, <2>2, <2>3
  <2>7. f[B \ {pick(B)}] = g[B \ {pick(B)}]
    BY <2>4, <2>5
  <2> QED BY <2>2, <2>4, <2>6, <2>7
<1> QED BY <1>6, <1>7

\* A map accounts for every line that it is computed from.
LEMMA TotalIs ==
  ASSUME NEW S, IsFiniteSet(S), IsFiniteSet(Groups(S))
  PROVE  Total(aggregateGeo(S)) = Cardinality(S)
<1> DEFINE h == aggregateGeo(S)
           G == Groups(S)
           key == byKey(S)
<1>1. DOMAIN h = G /\ \A k \in G : h[k] = Cardinality(Keyed(S, key, {k}))
  <2>1. ASSUME NEW k \in G PROVE {e \in S : key[e] = k} = Keyed(S, key, {k})
    BY DEF Keyed
  <2> QED BY <2>1 DEF aggregateGeo, CountOf
<1>2. Keyed(S, key, G) = S
  BY DEF Keyed, Groups, byKey
<1>3. Total(h) = SumOver(h, DOMAIN h)[DOMAIN h]
  <2> HIDE DEF h
  <2> QED BY DEF Total, MapThenSumSet, MapThenFoldSet, SumOver
<1> HIDE DEF h, G, key
<1>4. SumOver(h, G)[G] = Cardinality(Keyed(S, key, G))
  <2>1. IsFiniteSet(G)
    BY DEF G
  <2> QED BY <1>1, <2>1, SumOfCounts
<1>5. Total(h) = Cardinality(S)
  BY <1>1, <1>2, <1>3, <1>4
<1> QED BY <1>5 DEF h

\* Fewer lines have no more groups.
LEMMA GroupsAre ==
  ASSUME NEW S, IsFiniteSet(S), NEW T \in SUBSET S
  PROVE  /\ IsFiniteSet(Groups(S)) /\ Groups(T) \in SUBSET Groups(S)
         /\ Cardinality(Groups(S)) \in Nat /\ Cardinality(Groups(T)) \in Nat
         /\ Cardinality(Groups(T)) <= Cardinality(Groups(S))
<1> DEFINE f == [e \in S |-> e.key]
<1>1. f \in Surjection(S, Groups(S))
  BY DEF Surjection, Groups
<1>2. IsFiniteSet(Groups(S))
  BY <1>1, FS_Surjection
<1>3. Groups(T) \in SUBSET Groups(S)
  BY DEF Groups
<1>4. IsFiniteSet(Groups(T)) /\ Cardinality(Groups(T)) <= Cardinality(Groups(S))
  BY <1>2, <1>3, FS_Subset
<1>5. Cardinality(Groups(S)) \in Nat /\ Cardinality(Groups(T)) \in Nat
  BY <1>2, <1>4, FS_CardinalityType
<1> QED BY <1>2, <1>3, <1>4, <1>5

\* topk leaves no group out when there are no more than it may return.
LEMMA TopOfFew ==
  ASSUME NEW S, IsFiniteSet(Groups(S)), NEW n \in Nat, Cardinality(Groups(S)) <= n,
         NEW T \in topk(S, n, byKey(S))
  PROVE  T = Groups(S)
<1> DEFINE G == Groups(S)
<1>1. {byKey(S)[e] : e \in S} = G
  BY DEF Groups, byKey
<1>2. T \in SUBSET G /\ Cardinality(T) = AtMost(Cardinality(G), n)
  BY <1>1 DEF topk
<1>3. Cardinality(G) \in Nat
  BY FS_CardinalityType
<1>4. Cardinality(T) = Cardinality(G)
  BY <1>2, <1>3 DEF AtMost
<1> HIDE DEF G
<1>5. IsFiniteSet(G)
  BY DEF G
<1>6. T = G
  BY <1>2, <1>4, <1>5, FS_Subset
<1> QED BY <1>6 DEF G

\* A query of lines returns as many as there are, up to its limit: the number of
\* later lines is another one for each line.
LEMMA NewestCount ==
  ASSUME Typed, NEW S \in SUBSET lines
  PROVE  Cardinality(Newest(S)) = AtMost(Cardinality(S), Limit)
<1> DEFINE later(e) == {f \in S : f.ts > e.ts \/ (f.ts = e.ts /\ f.id > e.id)}
           n == Cardinality(S)
           rank == [e \in S |-> Cardinality(later(e))]
           m == AtMost(n, Limit)
           N == Newest(S)
<1>1. IsFiniteSet(S) /\ n \in Nat
  BY FS_Subset, FS_CardinalityType DEF Typed
<1>2. \A e \in S : e.ts \in Int /\ e.id \in Nat
  BY DEF Typed, Line
<1>3. \A e, f \in S : e.id = f.id => e = f
  BY DEF Typed
<1>4. ASSUME NEW e \in S PROVE IsFiniteSet(later(e)) /\ rank[e] \in 0..(n - 1)
  <2>1. later(e) \in SUBSET (S \ {e})
    BY <1>2
  <2>2. IsFiniteSet(S \ {e}) /\ Cardinality(S \ {e}) = n - 1
    BY <1>1, FS_RemoveElement
  <2> HIDE DEF later, n
  <2>3. IsFiniteSet(later(e)) /\ Cardinality(later(e)) <= n - 1
    BY <2>1, <2>2, FS_Subset
  <2>4. Cardinality(later(e)) \in Nat
    BY <2>3, FS_CardinalityType
  <2> QED BY <1>1, <2>3, <2>4
<1>5. \A e \in S : IsFiniteSet(later(e)) /\ rank[e] \in Nat
  <2> HIDE DEF later, rank, n
  <2> QED BY <1>1, <1>4
<1>6. ASSUME NEW e \in S, NEW f \in later(e) PROVE rank[f] < rank[e]
  <2>1. f \in S /\ later(f) \in SUBSET later(e) /\ f \notin later(f)
    BY <1>2
  <2>2. rank[e] = Cardinality(later(e)) /\ rank[f] = Cardinality(later(f))
    BY <2>1
  <2> HIDE DEF later, rank
  <2>3. IsFiniteSet(later(e)) /\ rank[e] \in Nat /\ rank[f] \in Nat
    BY <1>5, <2>1
  <2>4. Cardinality(later(f)) <= Cardinality(later(e)) /\ Cardinality(later(f)) # Cardinality(later(e))
    BY <1>6, <2>1, <2>2, <2>3, FS_Subset
  <2> QED BY <2>2, <2>3, <2>4
<1>7. ASSUME NEW e \in S, NEW f \in S, e # f PROVE rank[e] # rank[f]
  <2>1. f \in later(e) \/ e \in later(f)
    BY <1>2, <1>3, <1>7
  <2> HIDE DEF later, rank
  <2> QED BY <1>5, <1>6, <2>1
<1>8. N = {e \in S : rank[e] < Limit}
  BY DEF Newest
<1> HIDE DEF later, n, rank, N
<1>9. rank \in Surjection(S, 0..(n - 1))
  <2>1. rank \in Injection(S, 0..(n - 1))
    <3>1. rank \in [S -> 0..(n - 1)]
      BY <1>4 DEF rank
    <3> QED BY <1>7, <3>1 DEF Injection, IsInjective
  <2>2. IsFiniteSet(0..(n - 1)) /\ Cardinality(0..(n - 1)) = n
    <3>1. n - 1 \in Int /\ 0 \in Int
      BY <1>1
    <3>2. IsFiniteSet(0..(n - 1)) /\ Cardinality(0..(n - 1)) = IF 0 > n - 1 THEN 0 ELSE n - 1 - 0 + 1
      BY <3>1, FS_Interval
    <3> QED BY <1>1, <3>2
  <2>3. Cardinality(S) = Cardinality(0..(n - 1))
    BY <2>2 DEF n
  <2> QED BY <2>1, <2>2, <2>3, FS_Injection
<1>10. m \in Nat /\ m <= n /\ \A i \in Nat : i < m <=> i < n /\ i < Limit
  BY <1>1, ReportsAssumptions DEF AtMost
<1> HIDE DEF m
<1> DEFINE r == [e \in N |-> rank[e]]
<1>11. r \in Bijection(N, 0..(m - 1))
  <2>1. \A e \in N : e \in S /\ rank[e] \in Nat /\ rank[e] < m
    BY <1>1, <1>4, <1>8, <1>10
  <2>2. r \in [N -> 0..(m - 1)]
    BY <1>10, <2>1
  <2>3. r \in Injection(N, 0..(m - 1))
    BY <1>7, <2>1, <2>2 DEF Injection, IsInjective
  <2>4. ASSUME NEW i \in 0..(m - 1) PROVE \E e \in N : r[e] = i
    <3>1. i \in 0..(n - 1) /\ i < Limit
      BY <1>1, <1>10
    <3>2. PICK e \in S : rank[e] = i
      BY <1>9, <3>1 DEF Surjection
    <3> QED BY <1>8, <3>1, <3>2
  <2> HIDE DEF r
  <2> QED BY <2>2, <2>3, <2>4 DEF Bijection, Surjection
<1>12. IsFiniteSet(0..(m - 1)) /\ Cardinality(0..(m - 1)) = m
  <2>1. m - 1 \in Int /\ 0 \in Int
    BY <1>10
  <2>2. IsFiniteSet(0..(m - 1)) /\ Cardinality(0..(m - 1)) = IF 0 > m - 1 THEN 0 ELSE m - 1 - 0 + 1
    BY <2>1, FS_Interval
  <2> QED BY <1>10, <2>2
<1>13. N \in SUBSET S
  BY <1>8
<1>14. IsFiniteSet(N)
  BY <1>1, <1>13, FS_Subset
<1>15. Cardinality(0..(m - 1)) = Cardinality(N)
  <2>1. ExistsBijection(N, 0..(m - 1))
    BY <1>11 DEF ExistsBijection
  <2> QED BY <1>14, <2>1, FS_Bijection
<1> QED BY <1>12, <1>15 DEF N, m, n
----------------------------------------------------------------------------
(* A report during which nothing moved *)

Windowed(job) == {e \in lines : e.job = job /\ InWindow(e)}
Unless(q, S) == IF q \in failed THEN {} ELSE S

\* Its answers are all about the lines of one window, unless they failed.
LEMMA ReportAnswers ==
  ASSUME IInv, Done, request.op = "report", quiet
  PROVE  /\ answers.req = Unless("req", Windowed("waf"))
         /\ answers.type = Unless("type", Windowed("waf"))
         /\ answers.uniqueIp = Unless("uniqueIp", Windowed("waf"))
         /\ answers.timelineReq = Unless("timelineReq", Windowed("waf"))
         /\ answers.block = Unless("block", Blocked(Windowed("waf")))
         /\ answers.attackIp = Unless("attackIp", Blocked(Windowed("waf")))
         /\ answers.timelineBlock = Unless("timelineBlock", Blocked(Windowed("waf")))
         /\ {"timelineReq", "timelineBlock"} \subseteq failed \/ macro
         /\ answers.topAttackIps =
              Unless("topAttackIps", IF "key" \in labels THEN Blocked(Windowed("waf")) ELSE {})
         /\ answers.geoWorld = Unless("geoWorld", Newest(Windowed("access")))
         /\ answers.geoChina =
              Unless("geoChina", Newest(IF "blocked" \in labels THEN Blocked(Windowed("access")) ELSE {}))
<1>1. Running /\ Pending = {} /\ Still /\ request \in Requests
  BY DEF Done, IInv, Typed, Running
<1>2. request.stage = 5 /\ Stages[request.op][5] \subseteq DOMAIN answers
  <2>1. "report" \in Ops /\ Len(Stages["report"]) = 5
    BY StagesAre
  <2>2. request.stage = 5
    BY <2>1 DEF Done
  <2> QED BY <1>1, <2>2 DEF Pending
<1>3. /\ queryWafStats \cup queryWafTimeline \cup queryWafTopN \subseteq DOMAIN answers
      /\ queryGeo("world") \cup queryGeo("china") \subseteq DOMAIN answers
  <2>1. \A s \in 1..4 : Stages["report"][s] \subseteq DOMAIN answers
    BY <1>1, <1>2 DEF Still
  <2> QED BY <1>2, <2>1, StagesAre
<1>4. ASSUME NEW q \in DOMAIN answers
      PROVE  answers[q] = Unless(q, Hits(q)) /\ (q \notin failed => (queryMap[q].macro => macro))
  BY <1>1, <1>4 DEF Still, Unless
<1>5. ASSUME NEW q \in {"req", "type", "uniqueIp", "timelineReq"} PROVE Hits(q) = Windowed("waf")
  <2>1. q \in Compared
    BY DEF Compared
  <2> QED BY <2>1, HitsAre, ComparedQueries DEF Select, Windowed
<1>6. ASSUME NEW q \in {"block", "attackIp", "timelineBlock"} PROVE Hits(q) = Blocked(Windowed("waf"))
  <2>1. q \in Compared
    BY DEF Compared
  <2> QED BY <2>1, HitsAre, ComparedQueries DEF Select, Windowed, Blocked
<1>7. /\ answers.req = Unless("req", Windowed("waf"))
      /\ answers.type = Unless("type", Windowed("waf"))
      /\ answers.uniqueIp = Unless("uniqueIp", Windowed("waf"))
      /\ answers.timelineReq = Unless("timelineReq", Windowed("waf"))
  <2>1. ASSUME NEW q \in {"req", "type", "uniqueIp", "timelineReq"}
        PROVE  answers[q] = Unless(q, Windowed("waf"))
    <3>1. q \in DOMAIN answers
      BY <1>3 DEF queryWafStats, queryWafTimeline
    <3> QED BY <1>4, <1>5, <3>1
  <2> QED BY <2>1
<1>8. /\ answers.block = Unless("block", Blocked(Windowed("waf")))
      /\ answers.attackIp = Unless("attackIp", Blocked(Windowed("waf")))
      /\ answers.timelineBlock = Unless("timelineBlock", Blocked(Windowed("waf")))
  <2>1. ASSUME NEW q \in {"block", "attackIp", "timelineBlock"}
        PROVE  answers[q] = Unless(q, Blocked(Windowed("waf")))
    <3>1. q \in DOMAIN answers
      BY <1>3 DEF queryWafStats, queryWafTimeline
    <3> QED BY <1>4, <1>6, <3>1
  <2> QED BY <2>1
<1>9. {"timelineReq", "timelineBlock"} \subseteq failed \/ macro
  <2>1. "timelineReq" \in DOMAIN answers /\ "timelineBlock" \in DOMAIN answers
    BY <1>3 DEF queryWafTimeline
  <2>2. queryMap["timelineReq"] = Series /\ queryMap["timelineBlock"] = SeriesBlocked
    BY DEF queryMap
  <2> QED BY <1>4, <2>1, <2>2, KindsAre
<1>10. answers.topAttackIps =
         Unless("topAttackIps", IF "key" \in labels THEN Blocked(Windowed("waf")) ELSE {})
  <2> DEFINE d == [CountBlocked EXCEPT !.label = "key"]
             L == {e \in lines : e.job = "waf" /\ InWindow(e) /\ "key" \in labels \cup {"none"}}
  <2>1. d.job = "waf" /\ d.blocked /\ d.label = "key" /\ ~d.fetch
    BY DEF CountBlocked, Count
  <2> HIDE DEF d
  <2>2. queryMap["topAttackIps"] = d
    BY DEF queryMap, d
  <2>3. Hits("topAttackIps") = Blocked(L)
    BY <2>1, <2>2 DEF Hits
  <2>4. Blocked(L) = IF "key" \in labels THEN Blocked(Windowed("waf")) ELSE {}
    BY DEF Blocked, Windowed
  <2> HIDE DEF L
  <2> QED BY <1>3, <1>4, <2>3, <2>4 DEF queryWafTopN
<1>11. answers.geoWorld = Unless("geoWorld", Newest(Windowed("access")))
  <2> DEFINE d == Access(Fetch)
             L == {e \in lines : e.job = "access" /\ InWindow(e) /\ "none" \in labels \cup {"none"}}
  <2>1. d.job = "access" /\ ~d.blocked /\ d.label = "none" /\ d.fetch
    BY DEF Access, Fetch, Count
  <2> HIDE DEF d
  <2>2. queryMap["geoWorld"] = d
    BY DEF queryMap, d
  <2>3. Hits("geoWorld") = Newest(L)
    BY <2>1, <2>2 DEF Hits
  <2>4. L = Windowed("access")
    BY DEF Windowed
  <2> HIDE DEF L
  <2> QED BY <1>3, <1>4, <2>3, <2>4 DEF queryGeo
<1>12. answers.geoChina =
         Unless("geoChina", Newest(IF "blocked" \in labels THEN Blocked(Windowed("access")) ELSE {}))
  <2> DEFINE d == Access([Fetch EXCEPT !.blocked = TRUE, !.label = "blocked"])
             L == {e \in lines : e.job = "access" /\ InWindow(e) /\ "blocked" \in labels \cup {"none"}}
  <2>1. d.job = "access" /\ d.blocked /\ d.label = "blocked" /\ d.fetch
    BY DEF Access, Fetch, Count
  <2> HIDE DEF d
  <2>2. queryMap["geoChina"] = d
    BY DEF queryMap, d
  <2>3. Hits("geoChina") = Newest(Blocked(L))
    BY <2>1, <2>2 DEF Hits
  <2>4. Blocked(L) = IF "blocked" \in labels THEN Blocked(Windowed("access")) ELSE {}
    BY DEF Blocked, Windowed
  <2> HIDE DEF L
  <2> QED BY <1>3, <1>4, <2>3, <2>4 DEF queryGeo
<1> QED BY <1>7, <1>8, <1>9, <1>10, <1>11, <1>12

\* Whatever failed, the parts of a report during which the logs did not move add
\* up, for any lines and limits and either collector.  The count of attackers goes
\* further than their list (TopN < TopIps): a count within the list says that the
\* list is complete.
THEOREM ReportsAddUp == Spec => []QuietReportAddsUp
<1>1. ASSUME IInv, Done, request.op = "report", quiet PROVE QuietReportAddsUp
  <2> DEFINE S == Windowed("waf")
             B == Blocked(S)
             V == Windowed("access")
             C == IF "blocked" \in labels THEN Blocked(V) ELSE {}
             A == answers.topAttackIps
  <2>1. /\ answers.req = Unless("req", S) /\ answers.type = Unless("type", S)
        /\ answers.uniqueIp = Unless("uniqueIp", S) /\ answers.timelineReq = Unless("timelineReq", S)
        /\ answers.block = Unless("block", B) /\ answers.attackIp = Unless("attackIp", B)
        /\ answers.timelineBlock = Unless("timelineBlock", B)
        /\ {"timelineReq", "timelineBlock"} \subseteq failed \/ macro
        /\ A = Unless("topAttackIps", IF "key" \in labels THEN B ELSE {})
        /\ answers.geoWorld = Unless("geoWorld", Newest(V)) /\ answers.geoChina = Unless("geoChina", Newest(C))
    BY <1>1, ReportAnswers
  <2>2. /\ S \in SUBSET lines /\ B \in SUBSET S /\ {} \in SUBSET lines /\ Typed
        /\ V \in SUBSET lines /\ C \in SUBSET V
    BY <1>1 DEF Windowed, Blocked, IInv
  <2>3. "blocked" \notin labels => C = {}
    OBVIOUS
  <2> HIDE DEF S, V, C
  <2>4. B = {e \in S : e.type # "ALLOW"}
    BY DEF Blocked
  <2> HIDE DEF B, A
  <2>5. ASSUME NEW X \in SUBSET lines
        PROVE  IsFiniteSet(X) /\ Cardinality(X) \in Nat /\ IsFiniteSet(Groups(X)) /\ Cardinality(Groups(X)) \in Nat
    <3>1. IsFiniteSet(X)
      BY <2>2, FS_Subset DEF Typed
    <3> QED BY <3>1, FS_CardinalityType, GroupsAre
  <2>6. ASSUME NEW X \in SUBSET lines, NEW Y \in SUBSET X
        PROVE  Cardinality(Y) <= Cardinality(X) /\ Cardinality(Groups(Y)) <= Cardinality(Groups(X))
    <3>1. IsFiniteSet(X)
      BY <2>5
    <3> QED BY <3>1, FS_Subset, GroupsAre
  <2>7. Cardinality({}) = 0 /\ Groups({}) = {} /\ Newest({}) = {}
    BY FS_EmptySet DEF Groups, Newest
  <2>8. B \in SUBSET lines /\ Cardinality(B) \in Nat /\ Cardinality(S) \in Nat /\ Cardinality(B) <= Cardinality(S)
    BY <2>2, <2>5, <2>6
  <2>9. /\ requests = IF "req" \in failed THEN 0 ELSE Cardinality(S)
        /\ blocks = IF "block" \in failed THEN 0 ELSE Cardinality(B)
    BY <2>1, <2>7 DEF requests, blocks, Unless
  <2>10. requests > 0 => blocks <= requests
    BY <2>8, <2>9
  <2>11. ASSUME "uniqueIp" \notin failed PROVE attackIps <= uniqueIps
    <3>1. answers.attackIp \in SUBSET S /\ answers.uniqueIp = S
      BY <2>1, <2>2, <2>11 DEF Unless
    <3>2. Cardinality(Groups(answers.attackIp)) <= Cardinality(Groups(S))
      BY <2>2, <2>6, <3>1
    <3>3. Cardinality(Groups(answers.attackIp)) \in Nat /\ Cardinality(Groups(S)) \in Nat
      BY <2>2, <2>5, <3>1
    <3> QED BY <3>1, <3>2, <3>3, ReportsAssumptions DEF AtMost, attackIps, uniqueIps
  <2>12. ASSUME "block" \notin failed, NEW T PROVE dynamicBlocks(T) <= blocks
    <3> DEFINE D == {e \in answers.type : byType[e] = "BLOCK_BY_DYNAMIC_BLOCK"}
    <3>1. answers.type \in SUBSET S
      BY <2>1 DEF Unless
    <3>2. D \in SUBSET B
      BY <2>4, <3>1 DEF byType
    <3>3. CountOf(answers.type, "BLOCK_BY_DYNAMIC_BLOCK", byType) = Cardinality(D)
      BY DEF CountOf
    <3> HIDE DEF D
    <3>4. Cardinality(D) <= Cardinality(B)
      BY <2>6, <2>8, <3>2
    <3> QED BY <2>8, <2>9, <2>12, <3>3, <3>4 DEF dynamicBlocks
  <2>13. /\ "timelineReq" \notin failed =>
              \A t \in DOMAIN mergeTimeline : mergeTimeline[t].blocks <= mergeTimeline[t].requests
         /\ DOMAIN mergeTimeline # {} => macro
    <3>1. DOMAIN mergeTimeline = {e.ts : e \in answers.timelineReq \cup answers.timelineBlock}
      BY DEF mergeTimeline
    <3>2. ASSUME "timelineReq" \notin failed, NEW t \in DOMAIN mergeTimeline
          PROVE  mergeTimeline[t].blocks <= mergeTimeline[t].requests
      <4> DEFINE SAt == {e \in answers.timelineReq : e.ts = t}
                 BAt == {e \in answers.timelineBlock : e.ts = t}
      <4>1. mergeTimeline[t].requests = Cardinality(SAt) /\ mergeTimeline[t].blocks = Cardinality(BAt)
        BY <3>1, <3>2 DEF mergeTimeline
      <4>2. SAt \in SUBSET lines /\ BAt \in SUBSET SAt
        BY <2>1, <2>2, <3>2 DEF Unless
      <4> HIDE DEF SAt, BAt
      <4> QED BY <2>6, <4>1, <4>2
    <3>3. ASSUME DOMAIN mergeTimeline # {} PROVE macro
      <4>1. ~({"timelineReq", "timelineBlock"} \subseteq failed)
        BY <2>1, <3>1, <3>3 DEF Unless
      <4> QED BY <2>1, <4>1
    <3> QED BY <3>2, <3>3
  <2>14. ASSUME NEW X \in SUBSET lines
         PROVE  Total(aggregateGeo(Newest(X))) = AtMost(Cardinality(X), Limit)
    <3>1. Newest(X) \in SUBSET lines
      BY <2>14 DEF Newest
    <3>2. Total(aggregateGeo(Newest(X))) = Cardinality(Newest(X))
      BY <2>5, <3>1, TotalIs
    <3> QED BY <2>2, <3>2, NewestCount
  <2>15. ASSUME "geoWorld" \notin failed
         PROVE  Total(aggregateGeo(answers.geoChina)) <= Total(aggregateGeo(answers.geoWorld))
    <3>1. PICK X \in SUBSET V : answers.geoChina = Newest(X)
      BY <2>1, <2>2, <2>7 DEF Unless
    <3>2. answers.geoWorld = Newest(V)
      BY <2>1, <2>15 DEF Unless
    <3>3. /\ Total(aggregateGeo(answers.geoChina)) = AtMost(Cardinality(X), Limit)
          /\ Total(aggregateGeo(answers.geoWorld)) = AtMost(Cardinality(V), Limit)
      BY <2>2, <2>14, <3>1, <3>2
    <3>4. Cardinality(X) \in Nat /\ Cardinality(V) \in Nat /\ Cardinality(X) <= Cardinality(V)
      BY <2>2, <2>5, <2>6
    <3> QED BY <3>3, <3>4, ReportsAssumptions DEF AtMost
  <2>16. ASSUME "blocked" \notin labels PROVE DOMAIN aggregateGeo(answers.geoChina) = {}
    <3>1. answers.geoChina = {}
      BY <2>1, <2>3, <2>7, <2>16 DEF Unless
    <3> QED BY <2>7, <3>1 DEF aggregateGeo
  <2>17. ASSUME NEW T \in topk(A, TopN, byKey(A))
         PROVE  LET listed == {e \in A : e.key \in T}
                IN  /\ "key" \notin labels => listed = {}
                    /\ "block" \notin failed => Cardinality(listed) <= blocks
                    /\ /\ "key" \in labels /\ attackIps <= TopN
                       /\ {"block", "attackIp", "topAttackIps"} \cap failed = {}
                       => Cardinality(listed) = blocks
    <3> DEFINE listed == {e \in A : e.key \in T}
    <3>1. "key" \notin labels => A = {}
      BY <2>1 DEF Unless
    <3>2. listed \in SUBSET B
      BY <2>1 DEF Unless
    <3>3. ASSUME "block" \notin failed PROVE Cardinality(listed) <= blocks
      <4> HIDE DEF listed
      <4> QED BY <2>6, <2>8, <2>9, <3>2, <3>3
    <3>4. ASSUME "key" \in labels, attackIps <= TopN,
                 {"block", "attackIp", "topAttackIps"} \cap failed = {}
          PROVE  Cardinality(listed) = blocks
      <4>1. A = B /\ attackIps = AtMost(Cardinality(Groups(B)), TopIps) /\ blocks = Cardinality(B)
        BY <2>1, <2>9, <3>4 DEF attackIps, Unless
      <4>2. IsFiniteSet(Groups(B)) /\ Cardinality(Groups(B)) \in Nat
        BY <2>5, <2>8
      <4>3. Cardinality(Groups(B)) <= TopN /\ TopN \in Nat
        BY <3>4, <4>1, <4>2, ReportsAssumptions DEF AtMost
      <4>4. T \in topk(B, TopN, byKey(B))
        BY <4>1
      <4>5. T = Groups(B)
        BY <4>2, <4>3, <4>4, TopOfFew
      <4>6. listed = B
        BY <4>1, <4>5 DEF Groups
      <4> QED BY <4>1, <4>6
    <3> QED BY <3>1, <3>3, <3>4
  <2> QED BY <2>10, <2>11, <2>12, <2>13, <2>15, <2>16, <2>17 DEF QuietReportAddsUp, A
<1>2. ASSUME IInv PROVE QuietReportAddsUp
  BY <1>1, <1>2 DEF QuietReportAddsUp
<1> QED BY <1>2, Inductive, PTL
=============================================================================
