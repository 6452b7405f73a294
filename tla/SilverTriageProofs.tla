------------------------- MODULE SilverTriageProofs -------------------------
(* What the joins of SilverTriage return, for every content of the tables. *)
EXTENDS SilverTriage, TLAPS

\* Every key of the table keeps a row of the table that is its latest: the
\* result of the row_number of build_silver_query_execution.
LEMMA LatestPerKeyFacts ==
  ASSUME NEW table, NEW S \in LatestPerKey(table)
  PROVE  /\ S \subseteq table
         /\ \A x \in table : \E y \in S : KeyOf(y) = KeyOf(x) /\ x.end <= y.end
<1>1. S \subseteq table
  BY DEF LatestPerKey
<1>2. ASSUME NEW x \in table
      PROVE  \E y \in S : KeyOf(y) = KeyOf(x) /\ x.end <= y.end
  <2>1. PICK y \in S : KeyOf(y) = KeyOf(x)
    <3>1. KeyOf(x) \in {KeyOf(z) : z \in S}
      BY DEF LatestPerKey
    <3> QED
      BY <3>1
  <2>2. x.end <= y.end
    BY <2>1 DEF LatestPerKey
  <2> QED
    BY <2>1, <2>2
<1> QED
  BY <1>1, <1>2

\* Level 1 pairs failed queries with refreshes of their RequestId, and finds
\* every query it can.
LEMMA ExactJoinFacts ==
  ASSUME NEW failed, NEW refreshes
  PROVE  /\ \A r \in ExactJoin(failed, refreshes) :
              /\ r.exec \in failed /\ r.confidence = "EXACT_REQUESTID"
              /\ r.refresh \in SUBSET refreshes
              /\ \E c \in refreshes : c.row.request = r.exec.request
         /\ \A x \in failed \ Unmatched(failed, refreshes) :
              \E r \in ExactJoin(failed, refreshes) : r.exec = x
<1>1. ASSUME NEW r \in ExactJoin(failed, refreshes)
      PROVE  /\ r.exec \in failed /\ r.confidence = "EXACT_REQUESTID"
             /\ r.refresh \in SUBSET refreshes
             /\ \E c \in refreshes : c.row.request = r.exec.request
  <2>1. PICK p \in failed \X refreshes :
          /\ p[1].request = p[2].row.request
          /\ r = [exec |-> p[1], refresh |-> {p[2]}, confidence |-> "EXACT_REQUESTID"]
    BY DEF ExactJoin
  <2>2. p[1] \in failed /\ p[2] \in refreshes
    BY <2>1
  <2> QED
    BY <2>1, <2>2
<1>2. ASSUME NEW x \in failed, x \notin Unmatched(failed, refreshes)
      PROVE  \E r \in ExactJoin(failed, refreshes) : r.exec = x
  <2>1. PICK c \in refreshes : c.row.request = x.request
    BY <1>2 DEF Unmatched
  <2> DEFINE p == <<x, c>>
             r == [exec |-> p[1], refresh |-> {p[2]}, confidence |-> "EXACT_REQUESTID"]
  <2>2. p \in {q \in failed \X refreshes : q[1].request = q[2].row.request}
    BY <2>1
  <2>3. r \in ExactJoin(failed, refreshes)
    BY <2>2 DEF ExactJoin
  <2>4. r.exec = x
    OBVIOUS
  <2> QED
    BY <2>3, <2>4
<1> QED
  BY <1>1, <1>2

\* Level 2 labels unmatched queries only, and keeps every RequestId among them.
LEMMA WindowTriageFacts ==
  ASSUME NEW failed, NEW refreshes, NEW W \in WindowTriage(failed, refreshes)
  PROVE  /\ \A w \in W : /\ w.exec \in Unmatched(failed, refreshes)
                         /\ w.confidence \in {"TIME_WINDOW", "GATEWAY_ONLY"}
                         /\ w.refresh \in SUBSET refreshes
         /\ \A x \in Unmatched(failed, refreshes) :
              \E w \in W : w.exec.request = x.request
<1> DEFINE joined == UNION {WindowJoin(x, refreshes) : x \in Unmatched(failed, refreshes)}
           row(r) == [exec |-> r.exec, refresh |-> r.refresh,
                      confidence |-> WindowConfidence(r)]
<1>1. PICK S \in NearestPerRequest(joined) : W = {row(r) : r \in S}
  BY DEF WindowTriage
<1>2. /\ S \subseteq joined
      /\ RequestsOf(S) = RequestsOf(joined)
  BY DEF NearestPerRequest
<1>3. ASSUME NEW r \in joined
      PROVE  r.exec \in Unmatched(failed, refreshes) /\ r.refresh \in SUBSET refreshes
  <2>1. PICK x \in Unmatched(failed, refreshes) : r \in WindowJoin(x, refreshes)
    OBVIOUS
  <2>2. r.exec = x /\ r.refresh \in SUBSET refreshes
    <3>1. CASE WithinWindow(x, refreshes) = {}
      BY <2>1, <3>1 DEF WindowJoin
    <3>2. CASE WithinWindow(x, refreshes) # {}
      BY <2>1, <3>2 DEF WindowJoin, WithinWindow
    <3> QED
      BY <3>1, <3>2
  <2> QED
    BY <2>1, <2>2
<1>4. ASSUME NEW w \in W
      PROVE  /\ w.exec \in Unmatched(failed, refreshes)
             /\ w.confidence \in {"TIME_WINDOW", "GATEWAY_ONLY"}
             /\ w.refresh \in SUBSET refreshes
  <2>1. PICK r \in S : w = row(r)
    BY <1>1
  <2>2. w.exec = r.exec /\ w.refresh = r.refresh /\ w.confidence = WindowConfidence(r)
    BY <2>1
  <2>3. WindowConfidence(r) \in {"TIME_WINDOW", "GATEWAY_ONLY"}
    BY DEF WindowConfidence
  <2> QED
    BY <1>2, <1>3, <2>2, <2>3
<1>5. ASSUME NEW x \in Unmatched(failed, refreshes)
      PROVE  \E w \in W : w.exec.request = x.request
  <2>1. PICK j \in WindowJoin(x, refreshes) : j.exec = x
    <3>1. CASE WithinWindow(x, refreshes) = {}
      BY <3>1 DEF WindowJoin
    <3>2. CASE WithinWindow(x, refreshes) # {}
      <4>1. PICK c \in WithinWindow(x, refreshes) : TRUE
        BY <3>2
      <4>2. [exec |-> x, refresh |-> {c}, gap |-> Distance(x.end, c.row.end)]
              \in WindowJoin(x, refreshes)
        BY <3>2, <4>1 DEF WindowJoin
      <4> QED
        BY <4>2
    <3> QED
      BY <3>1, <3>2
  <2>2. x.request \in RequestsOf(joined)
    BY <2>1 DEF RequestsOf
  <2>3. PICK r \in S : r.exec.request = x.request
    BY <1>2, <2>2 DEF RequestsOf
  <2>4. row(r) \in W /\ row(r).exec = r.exec
    BY <1>1
  <2> QED
    BY <2>3, <2>4
<1> QED
  BY <1>4, <1>5

\* What levels 1 and 2 make of the failed queries.
AddsRefreshes(rows, failed, history) ==
  /\ \A r \in rows :
       /\ r.exec \in failed
       /\ r.confidence \in {"EXACT_REQUESTID", "TIME_WINDOW", "GATEWAY_ONLY"}
       /\ r.refresh \in SUBSET history.rows
       /\ r.confidence = "EXACT_REQUESTID" =>
            \E c \in history.rows : c.row.request = r.exec.request
       /\ history.readable /\ (\E c \in history.rows : c.row.request = r.exec.request)
            => r.confidence = "EXACT_REQUESTID"
  /\ \A x \in failed : \E r \in rows : r.exec.request = x.request

\* Both levels: a row is a failed query's; it is exact just when the history that
\* was read has a refresh of its RequestId; every RequestId that failed has a row.
LEMMA RefreshTriageFacts ==
  ASSUME NEW failed, NEW history, NEW rows \in RefreshTriage(failed, history)
  PROVE  AddsRefreshes(rows, failed, history)
<1> USE DEF AddsRefreshes
<1>1. CASE history.readable
  <2> DEFINE exact == ExactJoin(failed, history.rows)
  <2>1. PICK W \in WindowTriage(failed, history.rows) : rows = exact \union W
    BY <1>1 DEF RefreshTriage
  <2>2. ASSUME NEW r \in rows
        PROVE  /\ r.exec \in failed
               /\ r.confidence \in {"EXACT_REQUESTID", "TIME_WINDOW", "GATEWAY_ONLY"}
               /\ r.refresh \in SUBSET history.rows
               /\ r.confidence = "EXACT_REQUESTID"
                    <=> \E c \in history.rows : c.row.request = r.exec.request
    <3>1. CASE r \in exact
      BY <3>1, ExactJoinFacts
    <3>2. CASE r \in W
      <4>1. /\ r.exec \in Unmatched(failed, history.rows)
            /\ r.confidence \in {"TIME_WINDOW", "GATEWAY_ONLY"}
            /\ r.refresh \in SUBSET history.rows
        BY <3>2, WindowTriageFacts
      <4>2. /\ r.exec \in failed
            /\ \A c \in history.rows : c.row.request # r.exec.request
        BY <4>1 DEF Unmatched
      <4> QED
        BY <4>1, <4>2
    <3> QED
      BY <2>1, <3>1, <3>2
  <2>3. ASSUME NEW x \in failed
        PROVE  \E r \in rows : r.exec.request = x.request
    <3>1. CASE x \in Unmatched(failed, history.rows)
      BY <2>1, <3>1, WindowTriageFacts
    <3>2. CASE x \notin Unmatched(failed, history.rows)
      BY <2>1, <3>2, ExactJoinFacts
    <3> QED
      BY <3>1, <3>2
  <2> QED
    BY <2>2, <2>3
<1>2. CASE ~ history.readable
  <2> DEFINE row(x) == [exec |-> x, refresh |-> {}, confidence |-> "GATEWAY_ONLY"]
  <2>1. rows = {row(x) : x \in failed}
    BY <1>2 DEF RefreshTriage
  <2>2. ASSUME NEW r \in rows
        PROVE  /\ r.exec \in failed
               /\ r.confidence = "GATEWAY_ONLY"
               /\ r.refresh = {}
    BY <2>1
  <2>3. ASSUME NEW x \in failed
        PROVE  \E r \in rows : r.exec.request = x.request
    <3>1. row(x) \in rows /\ row(x).exec = x
      BY <2>1
    <3> QED
      BY <3>1
  <2> QED
    BY <1>2, <2>2, <2>3
<1> QED
  BY <1>1, <1>2

\* What level 3 makes of the rows of the levels before it.
AddsEvents(S, rows, log) ==
  /\ \A s \in S :
       /\ s.event \in SUBSET log.rows
       /\ \E r \in rows : /\ s.exec = r.exec
                          /\ s.refresh = r.refresh
                          /\ s.confidence = r.confidence
  /\ \A r \in rows : \E s \in S : s.exec.request = r.exec.request
  /\ log.readable => \A s, t \in S : s.exec.request = t.exec.request => s = t

\* Level 3 keeps the query, the refresh and the label of a row and adds an event
\* of the log; it keeps every RequestId, and one row of each when there is a log.
LEMMA EventTriageFacts ==
  ASSUME NEW rows, NEW log, NEW S \in EventTriage(rows, log)
  PROVE  AddsEvents(S, rows, log)
<1> USE DEF AddsEvents
<1> DEFINE joined == UNION {EventJoin(r, log.rows) : r \in rows}
<1>1. ASSUME NEW r \in rows, NEW j \in EventJoin(r, log.rows)
      PROVE  /\ j.exec = r.exec /\ j.refresh = r.refresh /\ j.confidence = r.confidence
             /\ j.event \in SUBSET log.rows
  <2>1. NearbyEvents(r.exec, log.rows) \subseteq log.rows
    BY DEF NearbyEvents, Serious
  <2>2. \E event \in SUBSET log.rows : \E gap : j = WithEvent(r, event, gap)
    <3>1. CASE NearbyEvents(r.exec, log.rows) = {}
      BY <3>1 DEF EventJoin
    <3>2. CASE NearbyEvents(r.exec, log.rows) # {}
      <4>1. PICK e \in NearbyEvents(r.exec, log.rows) :
              j = WithEvent(r, {e}, Distance(r.exec.end, e.time))
        BY <3>2 DEF EventJoin
      <4>2. {e} \in SUBSET log.rows
        BY <2>1
      <4> QED
        BY <4>1, <4>2
    <3> QED
      BY <3>1, <3>2
  <2> QED
    BY <2>2 DEF WithEvent
<1>2. ASSUME NEW r \in rows
      PROVE  \E j \in EventJoin(r, log.rows) : j.exec = r.exec
  <2>1. \E j : j \in EventJoin(r, log.rows)
    <3>1. CASE NearbyEvents(r.exec, log.rows) = {}
      BY <3>1 DEF EventJoin
    <3>2. CASE NearbyEvents(r.exec, log.rows) # {}
      <4>1. PICK e \in NearbyEvents(r.exec, log.rows) : TRUE
        BY <3>2
      <4>2. WithEvent(r, {e}, Distance(r.exec.end, e.time)) \in EventJoin(r, log.rows)
        BY <3>2, <4>1 DEF EventJoin
      <4> QED
        BY <4>2
    <3> QED
      BY <3>1, <3>2
  <2> QED
    BY <1>1, <2>1
<1>3. CASE log.readable
  <2>1. S \in NearestPerRequest(joined)
    BY <1>3 DEF EventTriage
  <2>2. /\ S \subseteq joined
        /\ RequestsOf(S) = RequestsOf(joined)
        /\ \A s, t \in S : s.exec.request = t.exec.request => s = t
    BY <2>1 DEF NearestPerRequest
  <2>3. ASSUME NEW s \in S
        PROVE  /\ s.event \in SUBSET log.rows
               /\ \E r \in rows : /\ s.exec = r.exec
                                  /\ s.refresh = r.refresh
                                  /\ s.confidence = r.confidence
    <3>1. PICK r \in rows : s \in EventJoin(r, log.rows)
      BY <2>2
    <3> QED
      BY <1>1, <3>1
  <2>4. ASSUME NEW r \in rows
        PROVE  \E s \in S : s.exec.request = r.exec.request
    <3>1. PICK j \in joined : j.exec = r.exec
      BY <1>2
    <3>2. r.exec.request \in RequestsOf(joined)
      BY <3>1 DEF RequestsOf
    <3> QED
      BY <2>2, <3>2 DEF RequestsOf
  <2> QED
    BY <2>2, <2>3, <2>4
<1>4. CASE ~ log.readable
  <2>1. S = {WithEvent(r, {}, NoGap) : r \in rows}
    BY <1>4 DEF EventTriage
  <2>2. ASSUME NEW r \in rows
        PROVE  /\ WithEvent(r, {}, NoGap) \in S
               /\ WithEvent(r, {}, NoGap).exec = r.exec
    BY <2>1 DEF WithEvent
  <2>3. ASSUME NEW s \in S
        PROVE  /\ s.event \in SUBSET log.rows
               /\ \E r \in rows : /\ s.exec = r.exec
                                  /\ s.refresh = r.refresh
                                  /\ s.confidence = r.confidence
    BY <2>1 DEF WithEvent
  <2> QED
    BY <1>4, <2>2, <2>3
<1> QED
  BY <1>3, <1>4

\* The rows that can be built from three tables.
TriageRows(silver, history, log) ==
  [exec : FailedOf(silver),
   refresh : SUBSET history.rows,
   confidence : {"EXACT_REQUESTID", "TIME_WINDOW", "GATEWAY_ONLY"},
   event : SUBSET log.rows,
   layer : {"OS_SERVICE_EVENT", "SERVICE_REFRESH_ERROR", "GATEWAY_LOG_ERROR", "UNKNOWN"}]

\* What a table is that build_silver_triage may write.
IsTriage(T, silver, history, log) ==
  /\ \A t \in T :
       /\ t \in TriageRows(silver, history, log)
       /\ t.confidence = "EXACT_REQUESTID" =>
            \E c \in history.rows : c.row.request = t.exec.request
       /\ history.readable /\ (\E c \in history.rows : c.row.request = t.exec.request)
            => t.confidence = "EXACT_REQUESTID"
  /\ RequestsOf(T) = {x.request : x \in FailedOf(silver)}
  /\ log.readable =>
       \A t, u \in T : t.exec.request = u.exec.request => t = u

\* The whole of build_silver_triage.
LEMMA TriageFacts ==
  ASSUME NEW silver, NEW history, NEW log, NEW T \in TriageTables(silver, history, log)
  PROVE  IsTriage(T, silver, history, log)
<1>1. PICK rows \in RefreshTriage(FailedOf(silver), history) :
        \E S \in EventTriage(rows, log) : T = {TriageRow(s) : s \in S}
  BY DEF TriageTables
<1>S. PICK S \in EventTriage(rows, log) : T = {TriageRow(s) : s \in S}
  BY <1>1
<1>R. AddsRefreshes(rows, FailedOf(silver), history)
  BY <1>1, RefreshTriageFacts
<1>E. AddsEvents(S, rows, log)
  BY <1>S, EventTriageFacts
<1>2. \A s : /\ TriageRow(s).exec = s.exec
             /\ TriageRow(s).refresh = s.refresh
             /\ TriageRow(s).confidence = s.confidence
             /\ TriageRow(s).event = s.event
  BY DEF TriageRow
<1>3. ASSUME NEW t \in T
      PROVE  /\ t \in TriageRows(silver, history, log)
             /\ t.confidence = "EXACT_REQUESTID" =>
                  \E c \in history.rows : c.row.request = t.exec.request
             /\ history.readable /\ (\E c \in history.rows : c.row.request = t.exec.request)
                  => t.confidence = "EXACT_REQUESTID"
  <2>1. PICK s \in S : t = TriageRow(s)
    BY <1>S
  <2>2. PICK r \in rows : /\ s.exec = r.exec
                          /\ s.refresh = r.refresh
                          /\ s.confidence = r.confidence
    BY <1>E DEF AddsEvents
  <2>3. s.event \in SUBSET log.rows
    BY <1>E DEF AddsEvents
  <2>4. /\ r.exec \in FailedOf(silver)
        /\ r.confidence \in {"EXACT_REQUESTID", "TIME_WINDOW", "GATEWAY_ONLY"}
        /\ r.refresh \in SUBSET history.rows
        /\ r.confidence = "EXACT_REQUESTID" =>
             \E c \in history.rows : c.row.request = r.exec.request
        /\ history.readable /\ (\E c \in history.rows : c.row.request = r.exec.request)
             => r.confidence = "EXACT_REQUESTID"
    BY <1>R DEF AddsRefreshes
  <2>5. LayerOf(s) \in {"OS_SERVICE_EVENT", "SERVICE_REFRESH_ERROR",
                        "GATEWAY_LOG_ERROR", "UNKNOWN"}
    BY DEF LayerOf
  <2>6. t \in TriageRows(silver, history, log)
    BY <2>1, <2>2, <2>3, <2>4, <2>5 DEF TriageRow, TriageRows
  <2> QED
    BY <1>2, <2>1, <2>2, <2>4, <2>6
<1>5. RequestsOf(T) = {x.request : x \in FailedOf(silver)}
  <2>1. RequestsOf(T) \subseteq {x.request : x \in FailedOf(silver)}
    BY <1>3 DEF RequestsOf, TriageRows
  <2>2. ASSUME NEW x \in FailedOf(silver)
        PROVE  x.request \in RequestsOf(T)
    <3>1. PICK r \in rows : r.exec.request = x.request
      BY <1>R DEF AddsRefreshes
    <3>2. PICK s \in S : s.exec.request = r.exec.request
      BY <1>E, <3>1 DEF AddsEvents
    <3>3. TriageRow(s) \in T /\ TriageRow(s).exec.request = x.request
      BY <1>S, <1>2, <3>1, <3>2
    <3> QED
      BY <3>3 DEF RequestsOf
  <2> QED
    BY <2>1, <2>2
<1>6. ASSUME log.readable, NEW t \in T, NEW u \in T, t.exec.request = u.exec.request
      PROVE  t = u
  <2>1. PICK s \in S, v \in S : t = TriageRow(s) /\ u = TriageRow(v)
    BY <1>S
  <2>2. s.exec.request = v.exec.request
    BY <1>2, <1>6, <2>1
  <2>3. s = v
    BY <1>E, <1>6, <2>2 DEF AddsEvents
  <2> QED
    BY <2>1, <2>3
<1> QED
  BY <1>3, <1>5, <1>6 DEF IsTriage
----------------------------------------------------------------------------
(* Which refresh a row names, and what its label says of the others *)

FailuresOf(q, failed) == {x \in failed : x.request = q}

\* What the refresh and the label of a row have to do with the failed queries of
\* its RequestId and the refreshes in reach of them.
NamesNearest(r, failed, refreshes) ==
  /\ r.confidence = "EXACT_REQUESTID" =>
       \A c \in r.refresh : c.row.request = r.exec.request
  /\ r.confidence = "GATEWAY_ONLY" =>
       \A x \in FailuresOf(r.exec.request, failed) : WithinWindow(x, refreshes) = {}
  /\ r.confidence = "TIME_WINDOW" =>
       /\ r.refresh # {}
       /\ r.refresh \subseteq WithinWindow(r.exec, refreshes)
       /\ \A c \in r.refresh, x \in FailuresOf(r.exec.request, failed) :
            \A s \in WithinWindow(x, refreshes) :
              Distance(r.exec.end, c.row.end) <= Distance(x.end, s.row.end)

HasTimes(failed, refreshes) ==
  /\ \A x \in failed : x.end \in Int
  /\ \A c \in refreshes : c.row.end \in Int

\* A row of the left join on |dt| <= window is a match, or has none and the gap
\* that sorts last.
LEMMA WindowJoinFacts ==
  ASSUME NEW x, NEW refreshes, NEW j \in WindowJoin(x, refreshes)
  PROVE  /\ j.exec = x
         /\ \/ /\ WithinWindow(x, refreshes) = {}
               /\ j.refresh = {} /\ j.gap = NoGap
            \/ \E c \in WithinWindow(x, refreshes) :
                 /\ j.refresh = {c} /\ j.gap = Distance(x.end, c.row.end)
<1>1. CASE WithinWindow(x, refreshes) = {}
  BY <1>1 DEF WindowJoin
<1>2. CASE WithinWindow(x, refreshes) # {}
  <2>1. PICK c \in WithinWindow(x, refreshes) :
          j = [exec |-> x, refresh |-> {c}, gap |-> Distance(x.end, c.row.end)]
    BY <1>2 DEF WindowJoin
  <2> QED
    BY <2>1
<1> QED
  BY <1>1, <1>2

\* Every match of a query is a row of its join.
LEMMA WindowJoinHasAll ==
  ASSUME NEW x, NEW refreshes, NEW s \in WithinWindow(x, refreshes)
  PROVE  \E j \in WindowJoin(x, refreshes) :
           j.exec = x /\ j.gap = Distance(x.end, s.row.end)
<1> DEFINE j == [exec |-> x, refresh |-> {s}, gap |-> Distance(x.end, s.row.end)]
<1>1. j \in WindowJoin(x, refreshes)
  BY DEF WindowJoin
<1> QED
  BY <1>1

\* A refresh in the window is nearer than no refresh.
LEMMA WindowBelowNoGap ==
  ASSUME NEW x, NEW refreshes, NEW s \in WithinWindow(x, refreshes),
         x.end \in Int, s.row.end \in Int
  PROVE  Distance(x.end, s.row.end) < NoGap
BY WindowAssumption DEF WithinWindow, NoGap, Distance

\* Level 2: of all pairs of a failed query of the RequestId and a refresh in its
\* window, the row has one that is nearest; it has none when there is no pair.
LEMMA WindowNearest ==
  ASSUME NEW failed, NEW refreshes, HasTimes(failed, refreshes),
         NEW W \in WindowTriage(failed, refreshes), NEW w \in W
  PROVE  NamesNearest(w, failed, refreshes)
<1> DEFINE joined == UNION {WindowJoin(x, refreshes) : x \in Unmatched(failed, refreshes)}
           row(r) == [exec |-> r.exec, refresh |-> r.refresh,
                      confidence |-> WindowConfidence(r)]
<1>1. PICK S \in NearestPerRequest(joined) : W = {row(r) : r \in S}
  BY DEF WindowTriage
<1>2. PICK r \in S : w = row(r)
  BY <1>1
<1>3. /\ w.exec = r.exec /\ w.refresh = r.refresh
      /\ w.confidence = WindowConfidence(r)
  BY <1>2
<1>4. /\ r \in joined
      /\ \A j \in joined : j.exec.request = r.exec.request => r.gap <= j.gap
  BY <1>1, <1>2 DEF NearestPerRequest
<1>5. PICK y \in Unmatched(failed, refreshes) : r \in WindowJoin(y, refreshes)
  BY <1>4
<1>6. r.exec = y
  BY <1>5, WindowJoinFacts
<1> DEFINE rivals == FailuresOf(y.request, failed)
<1>7. rivals \subseteq Unmatched(failed, refreshes) /\ y \in rivals
  BY <1>5 DEF FailuresOf, Unmatched
<1>8. ASSUME NEW x \in rivals, NEW s \in WithinWindow(x, refreshes)
      PROVE  /\ r.gap <= Distance(x.end, s.row.end)
             /\ r.gap # NoGap
  <2>1. PICK j \in WindowJoin(x, refreshes) :
          j.exec = x /\ j.gap = Distance(x.end, s.row.end)
    BY WindowJoinHasAll
  <2>2. j \in joined /\ j.exec.request = r.exec.request
    BY <1>6, <1>7, <2>1 DEF FailuresOf
  <2>3. x.end \in Int /\ s.row.end \in Int
    BY DEF HasTimes, FailuresOf, WithinWindow
  <2>4. /\ Distance(x.end, s.row.end) < NoGap
        /\ Distance(x.end, s.row.end) \in Int /\ NoGap \in Int
    BY <2>3, WindowBelowNoGap, WindowAssumption DEF Distance, NoGap
  <2>5. r.gap <= Distance(x.end, s.row.end)
    BY <1>4, <2>1, <2>2
  <2> QED
    BY <2>4, <2>5
<1>9. CASE r.refresh = {} /\ r.gap = NoGap
  <2>1. \A x \in rivals : WithinWindow(x, refreshes) = {}
    BY <1>8, <1>9
  <2>2. w.confidence = "GATEWAY_ONLY"
    BY <1>3, <1>9 DEF WindowConfidence
  <2> QED
    BY <1>3, <1>6, <2>1, <2>2 DEF NamesNearest
<1>10. CASE \E c \in WithinWindow(y, refreshes) :
              r.refresh = {c} /\ r.gap = Distance(y.end, c.row.end)
  <2>1. PICK c \in WithinWindow(y, refreshes) :
          r.refresh = {c} /\ r.gap = Distance(y.end, c.row.end)
    BY <1>10
  <2>2. w.confidence = "TIME_WINDOW"
    BY <1>3, <2>1 DEF WindowConfidence
  <2>3. \A x \in rivals : \A s \in WithinWindow(x, refreshes) :
          Distance(y.end, c.row.end) <= Distance(x.end, s.row.end)
    BY <1>8, <2>1
  <2>4. w.refresh # {} /\ w.refresh \subseteq WithinWindow(w.exec, refreshes)
    BY <1>3, <1>6, <2>1
  <2> QED
    BY <1>3, <1>6, <2>1, <2>2, <2>3, <2>4 DEF NamesNearest
<1> QED
  BY <1>5, <1>9, <1>10, WindowJoinFacts

\* Both levels, whether refresh history can be read or not.
LEMMA RefreshNearest ==
  ASSUME NEW failed, NEW history, HasTimes(failed, history.rows),
         ~ history.readable => history.rows = {},
         NEW rows \in RefreshTriage(failed, history), NEW r \in rows
  PROVE  NamesNearest(r, failed, history.rows)
<1>1. CASE history.readable
  <2>1. PICK W \in WindowTriage(failed, history.rows) :
          rows = ExactJoin(failed, history.rows) \union W
    BY <1>1 DEF RefreshTriage
  <2>2. CASE r \in W
    BY <2>2, WindowNearest
  <2>3. CASE r \in ExactJoin(failed, history.rows)
    <3>1. PICK p \in failed \X history.rows :
            /\ p[1].request = p[2].row.request
            /\ r = [exec |-> p[1], refresh |-> {p[2]}, confidence |-> "EXACT_REQUESTID"]
      BY <2>3 DEF ExactJoin
    <3>2. /\ r.exec.request = p[1].request /\ r.refresh = {p[2]}
          /\ r.confidence = "EXACT_REQUESTID"
      BY <3>1
    <3> QED
      BY <3>1, <3>2 DEF NamesNearest
  <2> QED
    BY <2>1, <2>2, <2>3
<1>2. CASE ~ history.readable
  <2>1. r.confidence = "GATEWAY_ONLY"
    BY <1>2 DEF RefreshTriage
  <2>2. \A x \in failed : WithinWindow(x, history.rows) = {}
    BY <1>2 DEF WithinWindow
  <2> QED
    BY <2>1, <2>2 DEF NamesNearest, FailuresOf
<1> QED
  BY <1>1, <1>2

\* The whole of build_silver_triage: level 3 takes the refresh and the label over.
LEMMA TriageNearest ==
  ASSUME NEW silver, NEW history, NEW log, HasTimes(FailedOf(silver), history.rows),
         ~ history.readable => history.rows = {},
         NEW T \in TriageTables(silver, history, log), NEW t \in T
  PROVE  NamesNearest(t, FailedOf(silver), history.rows)
<1>1. PICK rows \in RefreshTriage(FailedOf(silver), history) :
        \E S \in EventTriage(rows, log) : T = {TriageRow(s) : s \in S}
  BY DEF TriageTables
<1>2. PICK S \in EventTriage(rows, log) : T = {TriageRow(s) : s \in S}
  BY <1>1
<1>3. PICK s \in S : t = TriageRow(s)
  BY <1>2
<1>4. AddsEvents(S, rows, log)
  BY <1>2, EventTriageFacts
<1>5. PICK r \in rows : /\ s.exec = r.exec
                        /\ s.refresh = r.refresh
                        /\ s.confidence = r.confidence
  BY <1>4 DEF AddsEvents
<1>6. t.exec = r.exec /\ t.refresh = r.refresh /\ t.confidence = r.confidence
  BY <1>3, <1>5 DEF TriageRow
<1>7. NamesNearest(r, FailedOf(silver), history.rows)
  BY <1>1, RefreshNearest
<1> QED
  BY <1>6, <1>7 DEF NamesNearest
=============================================================================
