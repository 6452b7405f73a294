--------------------------- MODULE MedallionProofs ---------------------------
(***************************************************************************)
(* Proofs about the two notebooks, for every set of rows the collectors    *)
(* stage, every width of the windows and every bound.                      *)
(***************************************************************************)
EXTENDS Medallion, SilverTriageProofs, FiniteSetTheorems

\* Appending keeps the table and numbers the new copies within the bound.
LEMMA AppendedFacts ==
  ASSUME NEW table \in SUBSET RefreshCopies, NEW rows \in SUBSET Refreshes
  PROVE  /\ table \subseteq Appended(table, rows)
         /\ Appended(table, rows) \subseteq RefreshCopies
<1> DEFINE copiesOf(r) == {c \in table : c.row = r}
           held(r) == Cardinality(copiesOf(r))
<1>1. ASSUME NEW r \in Refreshes
      PROVE  held(r) \in Nat
  <2> DEFINE number == [c \in copiesOf(r) |-> c.copy]
  <2>1. number \in Injection(copiesOf(r), 1..MaxCopies)
    BY DEF RefreshCopies, Injection, IsInjective
  <2>2. IsFiniteSet(1..MaxCopies)
    BY FS_Interval, BoundAssumption
  <2>3. IsFiniteSet(copiesOf(r))
    BY <2>1, <2>2, FS_Injection
  <2> QED
    BY <2>3, FS_CardinalityType
<1>2. ASSUME NEW r \in rows, held(r) < MaxCopies
      PROVE  [row |-> r, copy |-> held(r) + 1] \in RefreshCopies
  <2>1. held(r) + 1 \in 1..MaxCopies
    BY <1>1, <1>2, BoundAssumption
  <2> HIDE DEF held
  <2> QED
    BY <2>1 DEF RefreshCopies
<1>3. Appended(table, rows) =
        table \union {[row |-> r, copy |-> held(r) + 1] : r \in {s \in rows : held(s) < MaxCopies}}
  BY DEF Appended
<1> HIDE DEF held
<1> QED
  BY <1>2, <1>3

----------------------------------------------------------------------------
(* Type correctness *)

\* What a snapshot may hold.
LEMMA SnapshotType ==
  ASSUME NEW Universe, NEW table \in SUBSET Universe,
         NEW snapshot \in {None, Snapshot(table)}
  PROVE  snapshot \in SnapshotsOf(Universe)
<1>1. None \in SnapshotsOf(Universe)
  BY DEF None, SnapshotsOf
<1>2. Snapshot(table) \in SnapshotsOf(Universe)
  BY DEF Snapshot, SnapshotsOf
<1> QED
  BY <1>1, <1>2

LEMMA InitType == Init => TypeOK
<1> SUFFICES ASSUME Init PROVE TypeOK
  OBVIOUS
<1>1. history \in SnapshotsOf(RefreshCopies) /\ log \in SnapshotsOf(OsEvents)
  BY SnapshotType DEF Init
<1>2. inputs \in [silver : SUBSET Executions, history : SnapshotsOf(RefreshCopies),
                  log : SnapshotsOf(OsEvents)]
  BY <1>1 DEF Init
<1>3. /\ landedExecutions \subseteq Executions /\ landedRefreshes \subseteq Refreshes
      /\ landedEvents \subseteq OsEvents /\ eventFile \in BOOLEAN
      /\ queryTable \subseteq Executions /\ refreshTable \subseteq RefreshCopies
      /\ eventTable \subseteq OsEvents /\ silver \subseteq Executions
      /\ startTable \subseteq {Start}
  BY DEF Init
<1>4. triage \subseteq [exec : Executions, refresh : SUBSET RefreshCopies,
                        confidence : Confidences, event : SUBSET OsEvents,
                        layer : Layers]
  BY DEF Init
<1>5. /\ bronzeAt \in {"idle", "network", "events", "others", "refreshes"}
      /\ silverAt \in {"idle", "refreshes", "events", "join", "asserted", "raised"}
      /\ faults \in 0..MaxFaults
  BY BoundAssumption DEF Init
<1> QED
  BY <1>1, <1>2, <1>3, <1>4, <1>5 DEF TypeOK

LEMMA ReadsType ==
  ASSUME TypeOK, NEW snapshot, NEW table, Reads(snapshot, table)
  PROVE  faults' \in 0..MaxFaults
BY BoundAssumption DEF Reads, TypeOK

\* The rows that build_silver_triage computes are rows of the table.
LEMMA TriageType ==
  ASSUME TypeOK, NEW rows \in TriageTables(silver, history, log)
  PROVE  rows \subseteq [exec : Executions, refresh : SUBSET RefreshCopies,
                         confidence : Confidences, event : SUBSET OsEvents,
                         layer : Layers]
<1>1. IsTriage(rows, silver, history, log)
  BY TriageFacts
<1>2. /\ FailedOf(silver) \subseteq Executions
      /\ history.rows \subseteq RefreshCopies
      /\ log.rows \subseteq OsEvents
  BY DEF TypeOK, FailedOf, SnapshotsOf
<1> QED
  BY <1>1, <1>2 DEF IsTriage, TriageRows, Confidences, Layers

LEMMA NextType == TypeOK /\ [Next]_vars => TypeOK'
<1> SUFFICES ASSUME TypeOK, [Next]_vars PROVE TypeOK'
  OBVIOUS
<1> USE DEF TypeOK, landing, bronzeVars, silverVars
<1>e. None \in SnapshotsOf(RefreshCopies) /\ None \in SnapshotsOf(OsEvents)
  BY DEF None, SnapshotsOf
<1>f. faults < MaxFaults => faults + 1 \in 0..MaxFaults
  BY BoundAssumption
<1>1. CASE Staging
  BY <1>1 DEF Staging, StageExecution, StageRefresh, StageEvents
<1>2. CASE IngestQueries
  BY <1>2 DEF IngestQueries
<1>3. CASE IngestNetwork \/ IngestEvents \/ IngestDiskAndInventory
  BY <1>3 DEF IngestNetwork, IngestEvents, IngestDiskAndInventory, IngestOther
<1>4. CASE IngestRefreshes
  BY <1>4, AppendedFacts DEF IngestRefreshes
<1>5. CASE BuildQueryExecution
  <2>1. silver' \subseteq Executions
    BY <1>5, LatestPerKeyFacts DEF BuildQueryExecution
  <2>2. faults' \in 0..MaxFaults
    BY <1>5, ReadsType DEF BuildQueryExecution
  <2> QED
    BY <1>5, <2>1, <2>2 DEF BuildQueryExecution
<1>6. CASE ReadRefreshes
  <2>1. history' \in SnapshotsOf(RefreshCopies)
    BY <1>6, SnapshotType DEF ReadRefreshes
  <2>2. faults' \in 0..MaxFaults
    BY <1>6, ReadsType DEF ReadRefreshes
  <2> QED
    BY <1>6, <2>1, <2>2 DEF ReadRefreshes
<1>7. CASE ReadEvents
  <2>0. eventTable \in SUBSET OsEvents /\ log' \in {None, Snapshot(eventTable)}
    BY <1>7 DEF ReadEvents
  <2>1. log' \in SnapshotsOf(OsEvents)
    <3> HIDE DEF TypeOK
    <3> QED
      BY <2>0, SnapshotType
  <2>2. faults' \in 0..MaxFaults
    BY <1>7, ReadsType DEF ReadEvents
  <2> QED
    BY <1>7, <2>1, <2>2 DEF ReadEvents
<1>8. CASE NothingToTriage
  BY <1>8, <1>e DEF NothingToTriage, EndSilver
<1>9. CASE WriteTriage
  <2>1. PICK rows \in TriageTables(silver, history, log) : triage' = rows
    BY <1>9 DEF WriteTriage
  <2>2. triage' \subseteq [exec : Executions, refresh : SUBSET RefreshCopies,
                           confidence : Confidences, event : SUBSET OsEvents,
                           layer : Layers]
    BY <2>1, TriageType
  <2> QED
    BY <1>9, <1>e, <2>2 DEF WriteTriage, EndSilver
<1>10. CASE AssertionFails
  BY <1>10, <1>e DEF AssertionFails, EndSilver
<1>11. CASE KillBronze
  BY <1>11, <1>f DEF KillBronze
<1>12. CASE KillSilver
  BY <1>12, <1>e, <1>f DEF KillSilver, EndSilver
<1>13. CASE UNCHANGED vars
  BY <1>13 DEF vars
<1> QED
  BY <1>1, <1>2, <1>3, <1>4, <1>5, <1>6, <1>7, <1>8, <1>9, <1>10, <1>11, <1>12, <1>13
     DEF Next, Bronze, Silver

\* Every table holds rows of its kind, whatever the notebooks read of each other
\* (01_bronze_ingest.py:815-857, 02_silver_correlate.py:96-385).
THEOREM TypeCorrect == Spec => []TypeOK
<1>1. Init => TypeOK
  BY InitType
<1>2. TypeOK /\ [Next]_vars => TypeOK'
  BY NextType
<1> QED
  BY <1>1, <1>2, PTL DEF Spec

----------------------------------------------------------------------------
(* The tables follow one another *)

\* Silver is built from bronze, and bronze holds what has landed.
SilverFollowsBronze ==
  /\ silver \subseteq queryTable
  /\ queryTable \subseteq landedExecutions

\* Refresh history only grows: what the written triage was computed from is part
\* of bronze, and of what a run has read since.
HistoryGrows ==
  /\ history.rows \subseteq refreshTable
  /\ inputs.history.rows \subseteq refreshTable
  /\ history.readable => inputs.history.rows \subseteq history.rows

\* The written triage is one that its inputs allow.
TriageFollowsInputs == IsTriage(triage, inputs.silver, inputs.history, inputs.log)

\* What could not be read holds nothing.
UnreadIsEmpty ==
  /\ ~ history.readable => history.rows = {}
  /\ ~ inputs.history.readable => inputs.history.rows = {}

\* Each row of the written triage names the refresh its label stands for.
TriageNamesNearest ==
  \A t \in triage : NamesNearest(t, FailedOf(inputs.silver), inputs.history.rows)

IInv ==
  /\ TypeOK
  /\ SilverFollowsBronze
  /\ HistoryGrows
  /\ TriageFollowsInputs
  /\ UnreadIsEmpty
  /\ TriageNamesNearest

LEMMA InitInv == Init => IInv
<1> SUFFICES ASSUME Init PROVE IInv
  OBVIOUS
<1>1. SilverFollowsBronze
  BY DEF Init, SilverFollowsBronze
<1>2. HistoryGrows
  BY DEF Init, HistoryGrows, None
<1>3. TriageFollowsInputs
  BY DEF Init, TriageFollowsInputs, IsTriage, RequestsOf, FailedOf
<1>4. UnreadIsEmpty /\ TriageNamesNearest
  BY DEF Init, UnreadIsEmpty, TriageNamesNearest, None
<1> QED
  BY <1>1, <1>2, <1>3, <1>4, InitType DEF IInv

LEMMA SilverFollowsBronzeNext ==
  IInv /\ [Next]_vars => SilverFollowsBronze'
<1> SUFFICES ASSUME IInv, [Next]_vars PROVE SilverFollowsBronze'
  OBVIOUS
<1> USE DEF IInv, SilverFollowsBronze, landing, bronzeVars, silverVars
<1>1. CASE Staging
  BY <1>1 DEF Staging, StageExecution, StageRefresh, StageEvents
<1>2. CASE IngestQueries
  BY <1>2 DEF IngestQueries
<1>3. CASE IngestNetwork \/ IngestEvents \/ IngestDiskAndInventory \/ IngestRefreshes
  BY <1>3 DEF IngestNetwork, IngestEvents, IngestDiskAndInventory, IngestOther,
              IngestRefreshes
<1>4. CASE BuildQueryExecution
  <2>1. silver' \subseteq queryTable
    BY <1>4, LatestPerKeyFacts DEF BuildQueryExecution
  <2> QED
    BY <1>4, <2>1 DEF BuildQueryExecution
<1>5. CASE ReadRefreshes \/ ReadEvents
  BY <1>5 DEF ReadRefreshes, ReadEvents
<1>6. CASE NothingToTriage \/ WriteTriage \/ AssertionFails
  BY <1>6 DEF NothingToTriage, WriteTriage, AssertionFails
<1>7. CASE KillBronze \/ KillSilver
  BY <1>7 DEF KillBronze, KillSilver
<1>8. CASE UNCHANGED vars
  BY <1>8 DEF vars
<1> QED
  BY <1>1, <1>2, <1>3, <1>4, <1>5, <1>6, <1>7, <1>8 DEF Next, Bronze, Silver

LEMMA HistoryGrowsNext ==
  IInv /\ [Next]_vars => HistoryGrows'
<1> SUFFICES ASSUME IInv, [Next]_vars PROVE HistoryGrows'
  OBVIOUS
<1> USE DEF IInv, HistoryGrows, landing, bronzeVars, silverVars
<1>1. CASE Staging
  BY <1>1 DEF Staging, StageExecution, StageRefresh, StageEvents
<1>2. CASE IngestQueries \/ IngestNetwork \/ IngestEvents \/ IngestDiskAndInventory
  BY <1>2 DEF IngestQueries, IngestNetwork, IngestEvents, IngestDiskAndInventory,
              IngestOther
<1>3. CASE IngestRefreshes
  <2>1. refreshTable \subseteq refreshTable'
    BY <1>3, AppendedFacts DEF IngestRefreshes, TypeOK
  <2> QED
    BY <1>3, <2>1 DEF IngestRefreshes
<1>4. CASE BuildQueryExecution \/ ReadEvents
  BY <1>4 DEF BuildQueryExecution, ReadEvents
<1>5. CASE ReadRefreshes
  <2>1. /\ history' = None \/ history' = Snapshot(refreshTable)
        /\ refreshTable' = refreshTable /\ inputs' = inputs
    BY <1>5 DEF ReadRefreshes
  <2> QED
    BY <2>1 DEF None, Snapshot
<1>6. CASE NothingToTriage \/ AssertionFails
  BY <1>6 DEF NothingToTriage, AssertionFails, EndSilver, None
<1>7. CASE WriteTriage
  BY <1>7 DEF WriteTriage, EndSilver, None
<1>8. CASE KillBronze
  BY <1>8 DEF KillBronze
<1>9. CASE KillSilver
  BY <1>9 DEF KillSilver, EndSilver, None
<1>10. CASE UNCHANGED vars
  BY <1>10 DEF vars
<1> QED
  BY <1>1, <1>2, <1>3, <1>4, <1>5, <1>6, <1>7, <1>8, <1>9, <1>10
     DEF Next, Bronze, Silver

\* Only WriteTriage changes silver_triage, and writes what it has computed.
LEMMA TriageStep ==
  ASSUME [Next]_vars
  PROVE  \/ /\ triage' \in TriageTables(silver, history, log)
            /\ inputs' = [silver |-> silver, history |-> history, log |-> log]
         \/ triage' = triage /\ inputs' = inputs
<1> USE DEF silverVars
<1>1. CASE WriteTriage
  BY <1>1 DEF WriteTriage
<1>2. CASE Staging \/ Bronze
  BY <1>2 DEF Staging, StageExecution, StageRefresh, StageEvents,
              Bronze, IngestQueries, IngestNetwork, IngestEvents,
              IngestDiskAndInventory, IngestOther, IngestRefreshes
<1>3. CASE BuildQueryExecution \/ ReadRefreshes \/ ReadEvents
  BY <1>3 DEF BuildQueryExecution, ReadRefreshes, ReadEvents
<1>4. CASE NothingToTriage \/ AssertionFails
  BY <1>4 DEF NothingToTriage, AssertionFails
<1>5. CASE KillBronze \/ KillSilver
  BY <1>5 DEF KillBronze, KillSilver
<1>6. CASE UNCHANGED vars
  BY <1>6 DEF vars
<1> QED
  BY <1>1, <1>2, <1>3, <1>4, <1>5, <1>6 DEF Next, Silver

LEMMA TriageFollowsInputsNext ==
  IInv /\ [Next]_vars => TriageFollowsInputs'
<1> SUFFICES ASSUME IInv, [Next]_vars PROVE TriageFollowsInputs'
  OBVIOUS
<1>1. CASE triage' = triage /\ inputs' = inputs
  BY <1>1 DEF IInv, TriageFollowsInputs
<1>2. CASE /\ triage' \in TriageTables(silver, history, log)
           /\ inputs' = [silver |-> silver, history |-> history, log |-> log]
  <2>1. IsTriage(triage', silver, history, log)
    BY <1>2, TriageFacts
  <2> QED
    BY <1>2, <2>1 DEF TriageFollowsInputs
<1> QED
  BY <1>1, <1>2, TriageStep

\* The history in memory is changed by the read and by the end of a run only.
LEMMA UnreadIsEmptyNext ==
  IInv /\ [Next]_vars => UnreadIsEmpty'
<1> SUFFICES ASSUME IInv, [Next]_vars PROVE UnreadIsEmpty'
  OBVIOUS
<1> USE DEF silverVars
<1>1. history' = history \/ history' = None \/ history' = Snapshot(refreshTable)
  <2>1. CASE ReadRefreshes
    BY <2>1 DEF ReadRefreshes
  <2>2. CASE Staging \/ Bronze
    BY <2>2 DEF Staging, StageExecution, StageRefresh, StageEvents,
                Bronze, IngestQueries, IngestNetwork, IngestEvents,
                IngestDiskAndInventory, IngestOther, IngestRefreshes
  <2>3. CASE BuildQueryExecution \/ ReadEvents
    BY <2>3 DEF BuildQueryExecution, ReadEvents
  <2>4. CASE NothingToTriage \/ WriteTriage \/ AssertionFails
    BY <2>4 DEF NothingToTriage, WriteTriage, AssertionFails, EndSilver
  <2>5. CASE KillBronze \/ KillSilver
    BY <2>5 DEF KillBronze, KillSilver, EndSilver
  <2>6. CASE UNCHANGED vars
    BY <2>6 DEF vars
  <2> QED
    BY <2>1, <2>2, <2>3, <2>4, <2>5, <2>6 DEF Next, Silver
<1>2. ~ history'.readable => history'.rows = {}
  BY <1>1 DEF IInv, UnreadIsEmpty, None, Snapshot
<1>3. inputs'.history = inputs.history \/ inputs'.history = history
  BY TriageStep
<1> QED
  BY <1>2, <1>3 DEF IInv, UnreadIsEmpty

LEMMA TriageNamesNearestNext ==
  IInv /\ [Next]_vars => TriageNamesNearest'
<1> SUFFICES ASSUME IInv, [Next]_vars PROVE TriageNamesNearest'
  OBVIOUS
<1>1. CASE triage' = triage /\ inputs' = inputs
  BY <1>1 DEF IInv, TriageNamesNearest
<1>2. CASE /\ triage' \in TriageTables(silver, history, log)
           /\ inputs' = [silver |-> silver, history |-> history, log |-> log]
  <2>1. HasTimes(FailedOf(silver), history.rows)
    <3>1. /\ FailedOf(silver) \subseteq Executions
          /\ history.rows \subseteq RefreshCopies
      BY DEF IInv, TypeOK, FailedOf, SnapshotsOf
    <3>2. \A c \in RefreshCopies : c.row.end \in Int
      BY RowAssumption DEF RefreshCopies, Unfinished
    <3> QED
      BY <3>1, <3>2, RowAssumption DEF HasTimes
  <2>2. ~ history.readable => history.rows = {}
    BY DEF IInv, UnreadIsEmpty
  <2>3. \A t \in triage' : NamesNearest(t, FailedOf(silver), history.rows)
    BY <1>2, <2>1, <2>2, TriageNearest
  <2> QED
    BY <1>2, <2>3 DEF TriageNamesNearest
<1> QED
  BY <1>1, <1>2, TriageStep

THEOREM Invariant == Spec => []IInv
<1>1. Init => IInv
  BY InitInv
<1>2. IInv /\ [Next]_vars => IInv'
  BY NextType, SilverFollowsBronzeNext, HistoryGrowsNext, TriageFollowsInputsNext,
     UnreadIsEmptyNext, TriageNamesNearestNext DEF IInv
<1> QED
  BY <1>1, <1>2, PTL DEF Spec

----------------------------------------------------------------------------

\* build_silver_triage, 02_silver_correlate.py:165-385: every RequestId with a
\* failed query has a row, no other has, and with an event log it has one only.
THEOREM FailedRequestsOnce == Spec => []EveryFailedRequestOnce
<1>1. IInv => EveryFailedRequestOnce
  BY DEF IInv, TriageFollowsInputs, IsTriage, EveryFailedRequestOnce
<1> QED
  BY <1>1, Invariant, PTL

\* 02_silver_correlate.py:111-119 "latest wins": bronze may append rows in any
\* order, be read at any time or not at all, and silver never goes back.
THEOREM LatestWins == Spec => SilverNeverGoesBack
<1> DEFINE Kept == \A x \in silver : \E y \in silver' : KeyOf(y) = KeyOf(x) /\ y.end >= x.end
<1>1. ASSUME IInv, [Next]_vars
      PROVE  Kept
  <2>1. \A x \in queryTable : x.end \in Nat
    BY <1>1, RowAssumption DEF IInv, TypeOK
  <2>2. silver \subseteq queryTable
    BY <1>1 DEF IInv, SilverFollowsBronze
  <2>3. silver' = silver \/ silver' \in LatestPerKey(queryTable)
    <3>1. CASE BuildQueryExecution
      BY <3>1 DEF BuildQueryExecution
    <3>2. CASE ~ BuildQueryExecution
      BY <1>1, <3>2 DEF Next, Staging, StageExecution, StageRefresh, StageEvents,
         Bronze, IngestQueries, IngestNetwork, IngestEvents,
         IngestDiskAndInventory, IngestOther, IngestRefreshes,
         Silver, ReadRefreshes, ReadEvents, NothingToTriage, WriteTriage, AssertionFails,
         KillBronze, KillSilver, vars, silverVars
    <3> QED
      BY <3>1, <3>2
  <2>4. CASE silver' = silver
    BY <2>1, <2>2, <2>4
  <2>5. CASE silver' \in LatestPerKey(queryTable)
    <3>1. ASSUME NEW x \in silver
          PROVE  \E y \in silver' : KeyOf(y) = KeyOf(x) /\ y.end >= x.end
      <4>1. x \in queryTable
        BY <2>2
      <4>2. PICK y \in silver' : KeyOf(y) = KeyOf(x) /\ x.end <= y.end
        BY <2>5, <4>1, LatestPerKeyFacts
      <4>3. y \in queryTable
        BY <2>5, LatestPerKeyFacts
      <4>4. y.end >= x.end
        BY <2>1, <4>1, <4>2, <4>3
      <4> QED
        BY <4>2, <4>4
    <3> QED
      BY <3>1
  <2> QED
    BY <2>3, <2>4, <2>5
<1> QED
  BY <1>1, Invariant, PTL DEF Spec, SilverNeverGoesBack

\* A triage that could read refresh history had all that the one before it had.
LEMMA HistoryKept ==
  ASSUME IInv, [Next]_vars, inputs'.history.readable
  PROVE  inputs.history.rows \subseteq inputs'.history.rows
<1>1. CASE inputs' = inputs
  BY <1>1
<1>2. CASE inputs' = [silver |-> silver, history |-> history, log |-> log]
  BY <1>2 DEF IInv, HistoryGrows
<1> QED
  BY <1>1, <1>2, TriageStep

\* The warn-and-continue of read_bronze, 02_silver_correlate.py:74-80: no run that
\* reads refresh history takes the exact label away from a request.
THEOREM ExactIsKept == Spec => ExactStaysExact
<1> DEFINE Kept == \A t \in triage, u \in triage' :
                     /\ t.confidence = "EXACT_REQUESTID"
                     /\ u.exec.request = t.exec.request
                     /\ inputs'.history.readable
                     => u.confidence = "EXACT_REQUESTID"
<1>1. ASSUME IInv, IInv', [Next]_vars
      PROVE  Kept
  <2> SUFFICES ASSUME NEW t \in triage, NEW u \in triage',
                      t.confidence = "EXACT_REQUESTID",
                      u.exec.request = t.exec.request,
                      inputs'.history.readable
               PROVE  u.confidence = "EXACT_REQUESTID"
    OBVIOUS
  <2>1. PICK c \in inputs.history.rows : c.row.request = t.exec.request
    BY <1>1 DEF IInv, TriageFollowsInputs, IsTriage
  <2>2. inputs.history.rows \subseteq inputs'.history.rows
    BY <1>1, HistoryKept
  <2>3. c \in inputs'.history.rows
    BY <2>1, <2>2
  <2>4. IsTriage(triage', inputs'.silver, inputs'.history, inputs'.log)
    BY <1>1 DEF IInv, TriageFollowsInputs
  <2> QED
    BY <2>1, <2>3, <2>4 DEF IsTriage
<1> QED
  BY <1>1, Invariant, PTL DEF Spec, ExactStaysExact

\* The nearest refresh per RequestId, 02_silver_correlate.py:225-266: while its failed
\* query stays, a time-window match is only ever replaced by an exact one or by one
\* that is as near, for any windows, rows, copies, ties and interleaving.
THEOREM WindowIsKept == Spec => WindowMatchNeverWorsens
<1> DEFINE Kept == \A t \in triage, u \in triage' :
                     /\ t.confidence = "TIME_WINDOW"
                     /\ u.exec.request = t.exec.request
                     /\ t.exec \in FailedOf(inputs'.silver)
                     /\ inputs'.history.readable
                     => \/ u.confidence = "EXACT_REQUESTID"
                        \/ /\ u.confidence = "TIME_WINDOW"
                           /\ \A r \in t.refresh, s \in u.refresh :
                                Distance(u.exec.end, s.row.end)
                                  <= Distance(t.exec.end, r.row.end)
<1>1. ASSUME IInv, IInv', [Next]_vars
      PROVE  Kept
  <2> SUFFICES ASSUME NEW t \in triage, NEW u \in triage',
                      t.confidence = "TIME_WINDOW",
                      u.exec.request = t.exec.request,
                      t.exec \in FailedOf(inputs'.silver),
                      inputs'.history.readable,
                      u.confidence # "EXACT_REQUESTID"
               PROVE  /\ u.confidence = "TIME_WINDOW"
                      /\ \A r \in t.refresh, s \in u.refresh :
                           Distance(u.exec.end, s.row.end) <= Distance(t.exec.end, r.row.end)
    OBVIOUS
  <2> DEFINE rows == inputs'.history.rows
             failed == FailedOf(inputs'.silver)
  <2>1. NamesNearest(t, FailedOf(inputs.silver), inputs.history.rows)
    BY <1>1 DEF IInv, TriageNamesNearest
  <2>2. NamesNearest(u, failed, rows)
    BY <1>1 DEF IInv, TriageNamesNearest
  <2>3. u.confidence \in {"TIME_WINDOW", "GATEWAY_ONLY"}
    BY <1>1 DEF IInv, TriageFollowsInputs, IsTriage, TriageRows
  <2>4. t.refresh # {} /\ t.refresh \subseteq WithinWindow(t.exec, inputs.history.rows)
    BY <2>1 DEF NamesNearest
  <2>5. inputs.history.rows \subseteq rows
    BY <1>1, HistoryKept
  <2>6. t.refresh \subseteq WithinWindow(t.exec, rows)
    BY <2>4, <2>5 DEF WithinWindow
  <2>7. t.exec \in FailuresOf(u.exec.request, failed)
    BY DEF FailuresOf
  <2>8. u.confidence = "TIME_WINDOW"
    BY <2>2, <2>3, <2>4, <2>6, <2>7 DEF NamesNearest
  <2> QED
    BY <2>2, <2>6, <2>7, <2>8 DEF NamesNearest
<1> QED
  BY <1>1, Invariant, PTL DEF Spec, WindowMatchNeverWorsens

----------------------------------------------------------------------------
(* When the U15 guardrail can fail *)

FinitelyLanded == IsFiniteSet(landedExecutions)

LEMMA FinitelyLandedNext == FinitelyLanded /\ [Next]_vars => FinitelyLanded'
<1> SUFFICES ASSUME FinitelyLanded, [Next]_vars PROVE FinitelyLanded'
  OBVIOUS
<1>1. landedExecutions' = landedExecutions
        \/ \E x : landedExecutions' = landedExecutions \union {x}
  BY DEF Next, Staging, StageExecution, StageRefresh, StageEvents,
         Bronze, IngestQueries, IngestNetwork, IngestEvents,
         IngestDiskAndInventory, IngestOther, IngestRefreshes,
         Silver, BuildQueryExecution, ReadRefreshes, ReadEvents, NothingToTriage,
         WriteTriage, AssertionFails, KillBronze, KillSilver, vars, landing
<1> QED
  BY <1>1, FS_AddElement DEF FinitelyLanded

\* With an event log every arm ranks, and a table has a row per RequestId at most.
LEMMA RankedFits ==
  ASSUME IsFiniteSet(silver), log.readable,
         NEW rows \in TriageTables(silver, history, log)
  PROVE  WithinGuardrail(rows)
<1> DEFINE query == [t \in rows |-> t.exec]
<1>1. IsTriage(rows, silver, history, log)
  BY TriageFacts
<1>2. \A t \in rows : t.exec \in FailedOf(silver)
  BY <1>1 DEF IsTriage, TriageRows
<1>3. query \in Injection(rows, FailedOf(silver))
  BY <1>1, <1>2 DEF IsTriage, Injection, IsInjective
<1>4. IsFiniteSet(FailedOf(silver))
  BY FS_Subset DEF FailedOf
<1> QED
  BY <1>3, <1>4, FS_Injection DEF WithinGuardrail

\* 02_silver_correlate.py:373-382: the assertion that each arm is nearest-match
\* deduped can only fail in a run that had no event log to rank by; with one it
\* holds for any tables and any ties.
GuardrailNeedsNoLog == [][AssertionFails => ~ log.readable]_vars

THEOREM GuardrailHoldsWithLog == Spec => GuardrailNeedsNoLog
<1>1. Init => FinitelyLanded
  BY FS_EmptySet DEF Init, FinitelyLanded
<1>2. FinitelyLanded /\ [Next]_vars => FinitelyLanded'
  BY FinitelyLandedNext
<1>3. IInv /\ FinitelyLanded => IsFiniteSet(silver)
  BY FS_Subset DEF IInv, SilverFollowsBronze, FinitelyLanded
<1> DEFINE Step == AssertionFails => ~ log.readable
<1>4. IInv /\ FinitelyLanded => Step
  BY <1>3, RankedFits DEF AssertionFails
<1> HIDE DEF Step
<1>5. IInv /\ FinitelyLanded /\ [Next]_vars => [Step]_vars
  BY <1>4
<1>6. Spec => [][Step]_vars
  BY <1>1, <1>2, <1>5, Invariant, PTL DEF Spec
<1> QED
  BY <1>6 DEF GuardrailNeedsNoLog, Step
=============================================================================
