---------------------------- MODULE SilverTriage ----------------------------
(***************************************************************************)
(* notebooks/02_silver_correlate.py: the joins that turn one snapshot of   *)
(* the bronze tables into silver_query_execution and silver_triage.        *)
(*                                                                         *)
(* row_number breaks ties in any order Spark likes, so a build has a set   *)
(* of possible results.  read_bronze gives None for a table it cannot      *)
(* read.  A row is                                                         *)
(*   an execution   [request, tracking, end, success, error],              *)
(*   a refresh      [row |-> [request, end], copy |-> n], the nth copy     *)
(*                  bronze has of it, end = Unfinished while it runs,      *)
(*   an OS event    [time, level].                                         *)
(***************************************************************************)
EXTENDS Integers, FiniteSets

CONSTANTS
  TriageWindow,     \* TRIAGE_TIME_WINDOW_SECS
  EventWindow       \* EVENT_LOG_TIME_WINDOW_SECS

ASSUME WindowAssumption == TriageWindow \in Nat /\ EventWindow \in Nat

None == [readable |-> FALSE, rows |-> {}]
Snapshot(table) == [readable |-> TRUE, rows |-> table]

Unfinished == -1

Distance(s, t) == IF s > t THEN s - t ELSE t - s

\* The gap of a row without a match: null, which sorts last.
NoGap == TriageWindow + EventWindow + 1

KeyOf(x) == <<x.request, x.tracking>>
FailedOf(silver) == {x \in silver : ~ x.success}
RequestsOf(rows) == {r.exec.request : r \in rows}

----------------------------------------------------------------------------

\* Mistaken variant of LatestPerKey: ascending order, so the first record wins.
EarliestPerKey(table) ==
  LET earliest == {x \in table : \A y \in table : KeyOf(y) = KeyOf(x) => x.end <= y.end}
  IN  {S \in SUBSET earliest :
         /\ {KeyOf(x) : x \in S} = {KeyOf(x) : x \in table}
         /\ \A x, y \in S : KeyOf(x) = KeyOf(y) => x = y}

\* row_number over (RequestId, QueryTrackingId), latest end first: the results
\* that keep one of the latest rows of every key.
LatestPerKey(table) ==
  LET latest == {x \in table : \A y \in table : KeyOf(y) = KeyOf(x) => y.end <= x.end}
  IN  {S \in SUBSET latest :
         /\ {KeyOf(x) : x \in S} = {KeyOf(x) : x \in table}
         /\ \A x, y \in S : KeyOf(x) = KeyOf(y) => x = y}

\* Level 1: one row for every pair of a failed query and a copy of a refresh
\* with its RequestId.
ExactJoin(failed, refreshes) ==
  {[exec |-> p[1], refresh |-> {p[2]}, confidence |-> "EXACT_REQUESTID"] :
     p \in {q \in failed \X refreshes : q[1].request = q[2].row.request}}

\* Mistaken variant of Unmatched: level 2 without the anti join.
NotAntiJoined(failed, refreshes) == failed

Unmatched(failed, refreshes) ==
  {x \in failed : \A r \in refreshes : r.row.request # x.request}

\* Left join on |dt| <= window: the matches of x, or x with no match.
WithinWindow(x, refreshes) ==
  {r \in refreshes : /\ r.row.end # Unfinished
                     /\ Distance(x.end, r.row.end) <= TriageWindow}

\* Mistaken variant of WindowJoin: an inner join.
InnerWindowJoin(x, refreshes) ==
  {[exec |-> x, refresh |-> {r}, gap |-> Distance(x.end, r.row.end)] :
     r \in WithinWindow(x, refreshes)}

WindowJoin(x, refreshes) ==
  IF WithinWindow(x, refreshes) = {}
    THEN {[exec |-> x, refresh |-> {}, gap |-> NoGap]}
    ELSE {[exec |-> x, refresh |-> {r}, gap |-> Distance(x.end, r.row.end)] :
            r \in WithinWindow(x, refreshes)}

\* Mistaken variant of NearestPerRequest: no order within the partition.
AnyPerRequest(rows) ==
  {S \in SUBSET rows : /\ RequestsOf(S) = RequestsOf(rows)
                       /\ \A r, s \in S : r.exec.request = s.exec.request => r = s}

\* row_number over RequestId, nearest first, rank 1 kept: every way of keeping
\* one nearest row for each RequestId.
NearestPerRequest(rows) ==
  LET nearest == {r \in rows : \A s \in rows : s.exec.request = r.exec.request
                                                 => r.gap <= s.gap}
  IN  {S \in SUBSET nearest : /\ RequestsOf(S) = RequestsOf(rows)
                              /\ \A r, s \in S : r.exec.request = s.exec.request => r = s}

\* Mistaken variant of WindowConfidence: the label the header lists instead.
HostOnlyConfidence(r) == IF r.refresh = {} THEN "HOST_ONLY" ELSE "TIME_WINDOW"

\* Level 2: the nearest refresh in the window for what level 1 left over.
WindowConfidence(r) == IF r.refresh = {} THEN "GATEWAY_ONLY" ELSE "TIME_WINDOW"

WindowTriage(failed, refreshes) ==
  {{[exec |-> r.exec, refresh |-> r.refresh, confidence |-> WindowConfidence(r)] : r \in S} :
     S \in NearestPerRequest(
             UNION {WindowJoin(x, refreshes) : x \in Unmatched(failed, refreshes)})}

\* Without refresh history every failed query keeps its own row.
RefreshTriage(failed, history) ==
  IF history.readable
    THEN {ExactJoin(failed, history.rows) \union W : W \in WindowTriage(failed, history.rows)}
    ELSE {{[exec |-> x, refresh |-> {}, confidence |-> "GATEWAY_ONLY"] : x \in failed}}

\* Level 3: left join with the errors and warnings of the OS event log.
Serious(events) == {e \in events : e.level \in {"Error", "Warning"}}

NearbyEvents(x, events) ==
  {e \in Serious(events) : Distance(x.end, e.time) <= EventWindow}

WithEvent(r, event, gap) ==
  [exec |-> r.exec, refresh |-> r.refresh, confidence |-> r.confidence,
   event |-> event, gap |-> gap]

EventJoin(r, events) ==
  IF NearbyEvents(r.exec, events) = {}
    THEN {WithEvent(r, {}, NoGap)}
    ELSE {WithEvent(r, {e}, Distance(r.exec.end, e.time)) :
            e \in NearbyEvents(r.exec, events)}

\* failure_layer: the first evidence that applies, in this order.
LayerOf(r) ==
  IF r.event # {} THEN "OS_SERVICE_EVENT"
  ELSE IF r.refresh # {} THEN "SERVICE_REFRESH_ERROR"
  ELSE IF r.exec.error THEN "GATEWAY_LOG_ERROR" ELSE "UNKNOWN"

TriageRow(r) == [exec |-> r.exec, refresh |-> r.refresh, confidence |-> r.confidence,
                 event |-> r.event, layer |-> LayerOf(r)]

\* Without an event log no arm ranks the rows again.
EventTriage(rows, log) ==
  IF log.readable
    THEN NearestPerRequest(UNION {EventJoin(r, log.rows) : r \in rows})
    ELSE {{WithEvent(r, {}, NoGap) : r \in rows}}

\* build_silver_triage: the tables it may compute.
TriageTables(silver, history, log) ==
  {{TriageRow(r) : r \in S} :
     S \in UNION {EventTriage(rows, log) : rows \in RefreshTriage(FailedOf(silver), history)}}
=============================================================================
