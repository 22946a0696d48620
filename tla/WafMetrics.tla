----------------------------- MODULE WafMetrics -----------------------------
(***************************************************************************)
(* WafMetricsService with its SlidingWindowCounters and its                *)
(* SummaryWindowBuffer: the access log of the WAF is read once at start    *)
(* and then followed with tail; every line goes into one buffer for the    *)
(* summaries and into a group of counters for each time range.             *)
(*                                                                         *)
(* Lines come in the order in which nginx writes them, which need not be   *)
(* the order of their time stamps: a line is stamped up to Skew before it  *)
(* is written.  Both windows are queues in the order of arrival; eviction  *)
(* stops at the first event that is young enough, a summary at the first   *)
(* that is too old.                                                        *)
(*                                                                         *)
(* A line is its stamp, its country, if it has one, and what the WAF did.  *)
(* Of the seven counters of a group two stand here for all: those of every *)
(* request, and those of attacks.  Every line has a numeric stamp, as      *)
(* nginx writes it; ingest would stamp one without it with the time of     *)
(* reading.                                                                *)
(***************************************************************************)
EXTENDS Integers, Sequences, FiniteSets

CONSTANTS
  Countries,   \* the keys that are counted
  Nowhere,     \* the country of a line that names none
  Verdicts,    \* what the WAF may do with a request
  Requests,    \* the requests that arrive: their countries and verdicts
  Ranges,      \* names of time ranges
  rangeToSeconds,        \* their lengths
  MaxWindow,             \* SUMMARY_MAX_WINDOW_SECONDS
  Bucket,      \* length of a point of the series
  Skew,        \* how far a stamp may be behind the writing of its line
  Faults,      \* which of the failures below may happen
  MaxTime, MaxLines, MaxFaults   \* bounds

ASSUME MetricsAssumptions ==
  /\ Nowhere \notin Countries
  /\ Verdicts \subseteq {"pass", "rule", "blocked"}
  /\ Requests \subseteq [country : Countries \cup {Nowhere}, verdict : Verdicts]
  /\ rangeToSeconds \in [Ranges -> Nat \ {0}]
  /\ MaxWindow \in Nat /\ \A r \in Ranges : rangeToSeconds[r] <= MaxWindow
  /\ Bucket \in Nat \ {0} /\ Skew \in Nat
  /\ Faults \subseteq {"read", "tail", "crash"}
  /\ MaxTime \in Nat /\ MaxLines \in Nat /\ MaxFaults \in Nat

Lines == [ts : Int, country : Countries \cup {Nowhere}, verdict : Verdicts]
Stats == {"geoWorldVisit", "geoWorldBlock"}

VARIABLES
  now,       \* Date.now()
  log,       \* the lines of the access log
  phase,     \* what the service does with the log
  pos,       \* the lines that it has read or passed over
  counters,  \* counters[r][k]: the counter of a range
  buf,       \* the queue of the summaries
  missed,    \* history: lines that were passed over
  faultsLeft

vars == <<now, log, phase, pos, counters, buf, missed, faultsLeft>>
----------------------------------------------------------------------------
(* SlidingWindowCounter and SummaryWindowBuffer *)

Empty == [queue |-> <<>>, counts |-> [c \in Countries |-> 0]]
Tally(q, c) == Cardinality({i \in DOMAIN q : q[i].country = c})

\* The number of events at the front that are older than cutoff.
Expired(q, cutoff) ==
  CHOOSE n \in 0..Len(q) : /\ \A i \in 1..n : q[i].ts < cutoff
                           /\ n < Len(q) => q[n + 1].ts >= cutoff

\* Mutant: the counts of evicted events are kept.
evictExpired_KeepsCounts(w, cutoff) ==
  LET n == Expired(w.queue, cutoff) IN [w EXCEPT !.queue = SubSeq(@, n + 1, Len(@))]

\* evictExpired takes events from the front and off their counts.
evictExpired(w, cutoff) ==
  LET n == Expired(w.queue, cutoff)
      gone(c) == Tally(SubSeq(w.queue, 1, n), c)
  IN  [queue |-> SubSeq(w.queue, n + 1, Len(w.queue)),
       counts |-> [c \in Countries |-> IF w.counts[c] > gone(c) THEN w.counts[c] - gone(c) ELSE 0]]

\* add refuses an event that is out of the window, and evicts by its stamp.
add(w, e, window) ==
  LET kept == evictExpired(w, e.ts - window)
  IN  IF e.ts < now - window THEN w
      ELSE [queue |-> Append(kept.queue, e),
            counts |-> [kept.counts EXCEPT ![e.country] = @ + 1]]

evictOld(q) == SubSeq(q, Expired(q, now - MaxWindow) + 1, Len(q))
bufferAdd(q, e) ==
  IF now - e.ts <= MaxWindow THEN Append(evictOld(q), e) ELSE evictOld(q)

\* The events that a scan from the back passes before one older than cutoff.
Scanned(q, cutoff) ==
  {i \in DOMAIN q : \A j \in i..Len(q) : q[j].ts >= cutoff}

\* Mutant: the scan starts at the front.
getSummary_FromFront(window) ==
  LET q == evictOld(buf)
      hits == {i \in DOMAIN q : \A j \in 1..i : q[j].ts >= now - window}
  IN  [req |-> Cardinality(hits),
       block |-> Cardinality({i \in hits : q[i].verdict = "blocked"})]

getSummary(window) ==
  LET q == evictOld(buf)
      hits == Scanned(q, now - window)
  IN  [req |-> Cardinality(hits),
       block |-> Cardinality({i \in hits : q[i].verdict = "blocked"})]

\* Mutant: the buckets end with the one that is under way.
getSeries_Shifted(window) ==
  LET q == evictOld(buf)
      size == (window + Bucket - 1) \div Bucket
  IN  [b \in {(now - i * Bucket) \div Bucket : i \in 0..size - 1} |->
         Cardinality({i \in Scanned(q, now - window) : q[i].ts \div Bucket = b})]

\* getSeries: bucketCount buckets, each named by the number of its interval.
getSeries(window) ==
  LET q == evictOld(buf)
      size == (window + Bucket - 1) \div Bucket
  IN  [b \in {(now - i * Bucket) \div Bucket : i \in 1..size} |->
         Cardinality({i \in Scanned(q, now - window) : q[i].ts \div Bucket = b})]

\* Mutant: only an event evicts.
getAll_Stale(r, k) == counters[r][k].counts

\* getAll and, before the ten largest are taken, getTopN.
getAll(r, k) == evictExpired(counters[r][k], now - rangeToSeconds[r]).counts
----------------------------------------------------------------------------
initializeCounters == [r \in Ranges |-> [k \in Stats |-> Empty]]

Init ==
  /\ now = 0
  /\ log = <<>>
  /\ phase = "reading"
  /\ pos = 0
  /\ counters = initializeCounters
  /\ buf = <<>>
  /\ missed = {}
  /\ faultsLeft = MaxFaults

Fail(kind) == kind \in Faults /\ faultsLeft > 0 /\ faultsLeft' = faultsLeft - 1

\* An attack is a request that was blocked or that triggered a rule.
isAttack(e) == e.verdict \in {"blocked", "rule"}
Counted(k, e) == e.country \in Countries /\ (k = "geoWorldVisit" \/ isAttack(e))

ingest(e) ==
  /\ buf' = bufferAdd(buf, e)
  /\ counters' = [r \in Ranges |-> [k \in Stats |->
                    IF Counted(k, e) THEN add(counters[r][k], e, rangeToSeconds[r])
                    ELSE counters[r][k]]]

\* nginx logs a request that it finished now or up to Skew ago.
WriteLine ==
  /\ Len(log) < MaxLines
  /\ \E age \in 0..Skew, r \in Requests :
       log' = Append(log, [ts |-> now - age, country |-> r.country, verdict |-> r.verdict])
  /\ UNCHANGED <<now, phase, pos, counters, buf, missed, faultsLeft>>

Clock ==
  /\ now < MaxTime
  /\ now' = now + 1
  /\ UNCHANGED <<log, phase, pos, counters, buf, missed, faultsLeft>>

\* prePopulate, and the lines that tail hands over.
ReadLine ==
  /\ phase \in {"reading", "tail"} /\ pos < Len(log)
  /\ ingest(log[pos + 1])
  /\ pos' = pos + 1
  /\ UNCHANGED <<now, log, phase, missed, faultsLeft>>

\* The end of the file as it is now.
EndOfFile ==
  /\ phase = "reading" /\ pos = Len(log)
  /\ phase' = "gap"
  /\ UNCHANGED <<now, log, pos, counters, buf, missed, faultsLeft>>

\* The first reading fails: tail is not started either.
ReadFails ==
  /\ phase = "reading" /\ Fail("read")
  /\ phase' = "off"
  /\ UNCHANGED <<now, log, pos, counters, buf, missed>>

\* Mutant: tail is started once.
startTail_Once ==
  /\ phase = "gap"
  /\ phase' = "tail"
  /\ pos' = Len(log)
  /\ missed' = missed \cup (pos + 1)..Len(log)
  /\ UNCHANGED <<now, log, counters, buf, faultsLeft>>

\* tail -n 0 -F: what was written since the end of the first reading, or while
\* tail was down, is passed over.
startTail ==
  /\ phase \in {"gap", "down"}
  /\ phase' = "tail"
  /\ pos' = Len(log)
  /\ missed' = missed \cup (pos + 1)..Len(log)
  /\ UNCHANGED <<now, log, counters, buf, faultsLeft>>

TailEnds ==
  /\ phase = "tail" /\ Fail("tail")
  /\ phase' = "down"
  /\ UNCHANGED <<now, log, pos, counters, buf, missed>>

\* The process is restarted and reads the whole file again.
Restart ==
  /\ Fail("crash")
  /\ phase' = "reading" /\ pos' = 0
  /\ counters' = initializeCounters /\ buf' = <<>>
  /\ missed' = {}
  /\ UNCHANGED <<now, log>>

\* A request for statistics leaves what it has evicted out of the queues.
Query ==
  /\ counters' = [r \in Ranges |-> [k \in Stats |->
                    evictExpired(counters[r][k], now - rangeToSeconds[r])]]
  /\ buf' = evictOld(buf)
  /\ UNCHANGED <<now, log, phase, pos, missed, faultsLeft>>

Next ==
  \/ WriteLine \/ Clock \/ ReadLine \/ EndOfFile \/ ReadFails
  \/ startTail \/ TailEnds \/ Restart \/ Query

\* Lines are read and timers fire; nothing forces lines or failures.
Fairness == WF_vars(ReadLine) /\ WF_vars(EndOfFile) /\ WF_vars(startTail)

Spec == Init /\ [][Next]_vars
FairSpec == Spec /\ Fairness
----------------------------------------------------------------------------
\* The lines that were handed over, and those of them since a time.
Handed == (1..pos) \ missed
Since(t) == {i \in Handed : log[i].ts >= t}

\* Types; a counter counts what its queue holds, whatever was evicted in between;
\* no buffer holds more lines than were handed over.
TypeOK ==
  /\ now \in 0..MaxTime /\ phase \in {"reading", "gap", "tail", "down", "off"}
  /\ pos \in 0..Len(log) /\ missed \subseteq 1..pos
  /\ \A i \in DOMAIN log : log[i] \in Lines /\ log[i].ts <= now
  /\ \A r \in Ranges, k \in Stats :
       counters[r][k].counts = [c \in Countries |-> Tally(counters[r][k].queue, c)]
  /\ Len(buf) <= Cardinality(Handed)
  /\ faultsLeft \in 0..MaxFaults

\* The statistics of a range count every line of the range once, and of the
\* older ones at most those that are older by at most the skew.
TopCountsWithinSkew ==
  \A r \in Ranges, k \in Stats, c \in Countries :
    LET n == getAll(r, k)[c]
        of(lines) == Cardinality({i \in lines : log[i].country = c /\ Counted(k, log[i])})
    IN  /\ of(Since(now - rangeToSeconds[r])) <= n
        /\ n <= of(Since(now - rangeToSeconds[r] - Skew))

\* The summary of a range counts no line twice and none that is too old, and
\* leaves out at most those that are within the skew of being too old.
SummaryWithinSkew ==
  \A r \in Ranges :
    LET s == getSummary(rangeToSeconds[r])
        req(lines) == Cardinality(lines)
        block(lines) == Cardinality({i \in lines : log[i].verdict = "blocked"})
        all == Since(now - rangeToSeconds[r])
        certain == Since(now - rangeToSeconds[r] + Skew)
    IN  /\ req(certain) <= s.req /\ s.req <= req(all)
        /\ block(certain) <= s.block /\ s.block <= block(all)

\* The points of the series add up to the summary but for the requests of the
\* interval that is under way, which no point covers.
SeriesAddsUp ==
  \A r \in Ranges :
    LET series == getSeries(rangeToSeconds[r])
        q == evictOld(buf)
        open == {i \in Scanned(q, now - rangeToSeconds[r]) : q[i].ts \div Bucket = now \div Bucket}
        Sum[B \in SUBSET DOMAIN series] ==
          IF B = {} THEN 0 ELSE LET b == CHOOSE b \in B : TRUE IN series[b] + Sum[B \ {b}]
    IN  Sum[DOMAIN series] + Cardinality(open) = getSummary(rangeToSeconds[r]).req

\* The log is followed again whenever tail ended, and read to its end, unless the
\* first reading failed.
FollowsLog == <>[](phase = "off") \/ []<>(phase = "tail" /\ pos = Len(log))
=============================================================================
