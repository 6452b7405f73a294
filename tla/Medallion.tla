----------------------------- MODULE Medallion ------------------------------
(***************************************************************************)
(* The medallion pipeline from the landing zone to silver_triage: the      *)
(* notebook 01_bronze_ingest.py (every 5 minutes) and the notebook         *)
(* 02_silver_correlate.py (every 15), which nothing synchronises, over     *)
(* tables whose single writes are atomic.                                  *)
(*                                                                         *)
(* Bronze reads all landed files again on every run and appends what it    *)
(* finds; silver rebuilds its tables from what bronze holds and overwrites *)
(* them.  A notebook stops at the first exception nobody catches, and may  *)
(* be killed between two steps.  An ingest whose files Spark cannot select *)
(* from is such an exception, on every run until other files land; which   *)
(* ones these are is left open here, except for the event log.             *)
(*                                                                         *)
(* Copies are kept apart for refreshes only: silver reduces the copies of  *)
(* a query to one by its key, and those of an OS event by the RequestId,   *)
(* whatever their number.                                                  *)
(***************************************************************************)
EXTENDS SilverTriage

CONSTANTS
  Executions, Refreshes, OsEvents,  \* rows the collectors may stage
  \* bounds of a checked instance
  MaxCopies,        \* bronze keeps at most this many copies of a row
  MaxFaults         \* kills of a notebook and failed table reads

ASSUME RowAssumption ==
  /\ \A x \in Executions : x.end \in Nat /\ x.success \in BOOLEAN /\ x.error \in BOOLEAN
  /\ \A r \in Refreshes : r.end \in Nat \union {Unfinished}
  /\ \A e \in OsEvents : e.time \in Nat

ASSUME BoundAssumption == MaxCopies \in Nat \ {0} /\ MaxFaults \in Nat

VARIABLES
  landedExecutions, landedRefreshes, landedEvents,   \* rows in landing files
  eventFile,                        \* an event_log file has landed
  queryTable, refreshTable, eventTable,              \* bronze; a table exists once it has a row
  startTable,                       \* bronze_query_start: one row stands for all
  silver, triage,                   \* silver_query_execution, silver_triage
  bronzeAt, silverAt,               \* where each notebook is
  history, log,                     \* what build_silver_triage has read
  inputs,                           \* what the written triage was computed from
  faults

landing    == <<landedExecutions, landedRefreshes, landedEvents, eventFile>>
bronzeVars == <<queryTable, refreshTable, eventTable, startTable, bronzeAt>>
silverVars == <<silver, triage, silverAt, history, log, inputs>>
vars == <<landing, bronzeVars, silverVars, faults>>

Confidences == {"EXACT_REQUESTID", "TIME_WINDOW", "GATEWAY_ONLY"}
Layers == {"OS_SERVICE_EVENT", "SERVICE_REFRESH_ERROR", "GATEWAY_LOG_ERROR", "UNKNOWN"}

RefreshCopies == [row : Refreshes, copy : 1..MaxCopies]

Start == "start"

SnapshotsOf(table) == [readable : BOOLEAN, rows : SUBSET table]

TypeOK ==
  /\ landedExecutions \subseteq Executions
  /\ landedRefreshes \subseteq Refreshes
  /\ landedEvents \subseteq OsEvents
  /\ eventFile \in BOOLEAN
  /\ queryTable \subseteq Executions
  /\ refreshTable \subseteq RefreshCopies
  /\ eventTable \subseteq OsEvents
  /\ startTable \subseteq {Start}
  /\ silver \subseteq Executions
  /\ triage \subseteq [exec : Executions, refresh : SUBSET RefreshCopies,
                       confidence : Confidences, event : SUBSET OsEvents,
                       layer : Layers]
  /\ bronzeAt \in {"idle", "network", "events", "others", "refreshes"}
  /\ silverAt \in {"idle", "refreshes", "events", "join", "asserted", "raised"}
  /\ history \in SnapshotsOf(RefreshCopies)
  /\ log \in SnapshotsOf(OsEvents)
  /\ inputs \in [silver : SUBSET Executions, history : SnapshotsOf(RefreshCopies),
                 log : SnapshotsOf(OsEvents)]
  /\ faults \in 0..MaxFaults

Init ==
  /\ landedExecutions = {}
  /\ landedRefreshes = {}
  /\ landedEvents = {}
  /\ eventFile = FALSE
  /\ queryTable = {}
  /\ refreshTable = {}
  /\ eventTable = {}
  /\ startTable = {}
  /\ silver = {}
  /\ triage = {}
  /\ bronzeAt = "idle"
  /\ silverAt = "idle"
  /\ history = None
  /\ log = None
  /\ inputs = [silver |-> {}, history |-> None, log |-> None]
  /\ faults = 0

----------------------------------------------------------------------------
(* The collectors stage files; what they stage again changes nothing, and  *)
(* an event file may hold no event.                                        *)

StageExecution(x) ==
  /\ x \notin landedExecutions
  /\ landedExecutions' = landedExecutions \union {x}
  /\ UNCHANGED <<landedRefreshes, landedEvents, eventFile, bronzeVars, silverVars, faults>>

StageRefresh(r) ==
  /\ r \notin landedRefreshes
  /\ landedRefreshes' = landedRefreshes \union {r}
  /\ UNCHANGED <<landedExecutions, landedEvents, eventFile, bronzeVars, silverVars, faults>>

StageEvents(rows) ==
  /\ ~ (eventFile /\ rows \subseteq landedEvents)
  /\ landedEvents' = landedEvents \union rows
  /\ eventFile' = TRUE
  /\ UNCHANGED <<landedExecutions, landedRefreshes, bronzeVars, silverVars, faults>>

----------------------------------------------------------------------------
(* 01_bronze_ingest.py *)

\* _write_bronze_delta in append mode, with the copies it makes.
Appended(table, rows) ==
  LET held(r) == Cardinality({c \in table : c.row = r})
  IN  table \union {[row |-> r, copy |-> held(r) + 1] : r \in {s \in rows : held(s) < MaxCopies}}

\* ingest_gateway_logs: which of its two paths runs and what it can write is the
\* subject of QueryLogs.  It appends the executions or passes them over, and
\* either goes on, possibly with starts from CSVs, or raises: createDataFrame on
\* reports it cannot type, before or after it has written the executions.
IngestQueries ==
  /\ bronzeAt = "idle"
  /\ queryTable' \in {queryTable, landedExecutions}
  /\ \/ bronzeAt' = "network" /\ startTable' \in {startTable, {Start}}
     \/ bronzeAt' = "idle" /\ UNCHANGED startTable
  /\ UNCHANGED <<landing, refreshTable, eventTable, silverVars, faults>>

\* ingest_network_metrics, and further on ingest_disk_spool, ingest_gateway_inventory
\* and ingest_gateway_datasources: each goes on, or raises and ends the notebook if
\* no file of its kind holds a record.
IngestOther(step, next) ==
  /\ bronzeAt = step
  /\ bronzeAt' \in {next, "idle"}
  /\ UNCHANGED <<landing, queryTable, refreshTable, eventTable, startTable, silverVars,
                 faults>>

IngestNetwork == IngestOther("network", "events")
IngestDiskAndInventory == IngestOther("others", "refreshes")

\* Mistaken variant of IngestEvents: it ends the notebook in every case.
IngestEventsLast ==
  /\ bronzeAt = "events"
  /\ bronzeAt' = "idle"
  /\ eventTable' = landedEvents
  /\ UNCHANGED <<landing, queryTable, refreshTable, startTable, silverVars, faults>>

\* ingest_event_log.  No file: a warning.  Files that all have an empty Events
\* array: Spark infers an array of strings, and selecting evt.TimeCreated raises
\* outside the try block, which ends the notebook before ingest_refresh_history.
IngestEvents ==
  /\ bronzeAt = "events"
  /\ \/ /\ ~ eventFile
        /\ bronzeAt' = "others"
        /\ UNCHANGED eventTable
     \/ /\ eventFile /\ landedEvents = {}
        /\ bronzeAt' = "idle"
        /\ UNCHANGED eventTable
     \/ /\ eventFile /\ landedEvents # {}
        /\ bronzeAt' = "others"
        /\ eventTable' = landedEvents
  /\ UNCHANGED <<landing, queryTable, refreshTable, startTable, silverVars, faults>>

\* ingest_refresh_history, where files without a record raise and no file warns;
\* either way the run ends.
IngestRefreshes ==
  /\ bronzeAt = "refreshes"
  /\ bronzeAt' = "idle"
  /\ refreshTable' = Appended(refreshTable, landedRefreshes)
  /\ UNCHANGED <<landing, queryTable, eventTable, startTable, silverVars, faults>>

----------------------------------------------------------------------------
(* 02_silver_correlate.py *)

\* read_bronze: the table as it is now, None when it does not exist, and None
\* when reading it fails.
Reads(snapshot, table) ==
  \/ /\ snapshot = IF table = {} THEN None ELSE Snapshot(table)
     /\ UNCHANGED faults
  \/ /\ faults < MaxFaults
     /\ snapshot = None
     /\ faults' = faults + 1

\* build_silver_query_execution: nothing to read, or overwrite without the starts,
\* or with them: selecting artifact_type, which no row of theirs has, raises and
\* ends the notebook.
BuildQueryExecution ==
  /\ silverAt \in {"idle", "asserted", "raised"}
  /\ \/ /\ Reads(None, queryTable)
        /\ silverAt' = "refreshes"
        /\ UNCHANGED silver
     \/ /\ queryTable # {}
        /\ Reads(None, startTable)
        /\ silverAt' = "refreshes"
        /\ silver' \in LatestPerKey(queryTable)
     \/ /\ queryTable # {} /\ startTable # {}
        /\ silverAt' = "raised"
        /\ UNCHANGED <<silver, faults>>
  /\ UNCHANGED <<landing, bronzeVars, triage, history, log, inputs>>

\* build_silver_triage reads refresh history and event log one after the other,
\* while bronze goes on appending.
ReadRefreshes ==
  /\ silverAt = "refreshes"
  /\ silverAt' = "events"
  /\ history' \in {None, Snapshot(refreshTable)}
  /\ Reads(history', refreshTable)
  /\ UNCHANGED <<landing, bronzeVars, silver, triage, log, inputs>>

ReadEvents ==
  /\ silverAt = "events"
  /\ silverAt' = "join"
  /\ log' \in {None, Snapshot(eventTable)}
  /\ Reads(log', eventTable)
  /\ UNCHANGED <<landing, bronzeVars, silver, triage, history, inputs>>

EndSilver == history' = None /\ log' = None

\* The early returns: no silver_query_execution, or no failed query in it.  An
\* older silver_triage stays as it is.
NothingToTriage ==
  /\ silverAt = "join"
  /\ FailedOf(silver) = {}
  /\ silverAt' = "idle"
  /\ EndSilver
  /\ UNCHANGED <<landing, bronzeVars, silver, triage, inputs, faults>>

\* Mistaken variant of WithinGuardrail: a strict comparison.
StrictGuardrail(rows) == Cardinality(rows) < Cardinality(FailedOf(silver))

\* The guardrail: no more rows than failed queries.
WithinGuardrail(rows) == Cardinality(rows) <= Cardinality(FailedOf(silver))

WriteTriage ==
  /\ silverAt = "join"
  /\ FailedOf(silver) # {}
  /\ silverAt' = "idle"
  /\ \E rows \in TriageTables(silver, history, log) :
       /\ WithinGuardrail(rows)
       /\ triage' = rows
  /\ inputs' = [silver |-> silver, history |-> history, log |-> log]
  /\ EndSilver
  /\ UNCHANGED <<landing, bronzeVars, silver, faults>>

\* The assertion fails and ends the notebook; nothing is written.
AssertionFails ==
  /\ silverAt = "join"
  /\ FailedOf(silver) # {}
  /\ silverAt' = "asserted"
  /\ \E rows \in TriageTables(silver, history, log) : ~ WithinGuardrail(rows)
  /\ EndSilver
  /\ UNCHANGED <<landing, bronzeVars, silver, triage, inputs, faults>>

----------------------------------------------------------------------------

KillBronze ==
  /\ bronzeAt # "idle"
  /\ faults < MaxFaults
  /\ faults' = faults + 1
  /\ bronzeAt' = "idle"
  /\ UNCHANGED <<landing, queryTable, refreshTable, eventTable, startTable, silverVars>>

\* A kill, or a silver_query_execution that build_silver_triage cannot read.
KillSilver ==
  /\ silverAt \in {"refreshes", "events", "join"}
  /\ faults < MaxFaults
  /\ faults' = faults + 1
  /\ silverAt' = "idle"
  /\ EndSilver
  /\ UNCHANGED <<landing, bronzeVars, silver, triage, inputs>>

Staging ==
  \/ \E x \in Executions : StageExecution(x)
  \/ \E r \in Refreshes : StageRefresh(r)
  \/ \E rows \in SUBSET OsEvents : StageEvents(rows)

Bronze ==
  \/ IngestQueries
  \/ IngestNetwork
  \/ IngestEvents
  \/ IngestDiskAndInventory
  \/ IngestRefreshes

Silver ==
  \/ BuildQueryExecution
  \/ ReadRefreshes
  \/ ReadEvents
  \/ NothingToTriage
  \/ WriteTriage
  \/ AssertionFails

Next ==
  \/ Staging
  \/ Bronze
  \/ Silver
  \/ KillBronze
  \/ KillSilver

Spec == Init /\ [][Next]_vars

\* The scheduler keeps starting both notebooks and a started one goes on; nothing
\* obliges a collector to stage anything or a fault to happen.
FairSpec == Spec /\ WF_vars(Bronze) /\ WF_vars(Silver)
----------------------------------------------------------------------------
(* Safety *)

\* 02_silver_correlate.py:111-119 "latest wins", with bronze appending rows in any
\* order and reads failing: no run of silver replaces a query's row by an older
\* one or loses a query it had.
SilverNeverGoesBack ==
  [][\A x \in silver : \E y \in silver' : KeyOf(y) = KeyOf(x) /\ y.end >= x.end]_vars

\* build_silver_triage, 02_silver_correlate.py:165-385: silver_triage has a row for
\* every RequestId with a failed query in the silver_query_execution it was built
\* from and for no other, and a single one when the event log could be read.
EveryFailedRequestOnce ==
  /\ RequestsOf(triage) = {x.request : x \in FailedOf(inputs.silver)}
  /\ inputs.log.readable =>
       \A r, s \in triage : r.exec.request = s.exec.request => r = s

\* The warn-and-continue of read_bronze, 02_silver_correlate.py:74-80: a query once
\* tied to its refresh by RequestId is never reported with less confidence by a
\* later run, unless that run could not read refresh history.
ExactStaysExact ==
  [][\A t \in triage, u \in triage' :
       /\ t.confidence = "EXACT_REQUESTID"
       /\ u.exec.request = t.exec.request
       /\ inputs'.history.readable
       => u.confidence = "EXACT_REQUESTID"]_vars

\* The nearest refresh per RequestId, 02_silver_correlate.py:225-266, over a bronze
\* that is appended to between the reads: while the failed query of a time-window
\* match stays in silver, a later run that reads refresh history has the request
\* exact or in the window still, and never names a refresh that lies farther off.
WindowMatchNeverWorsens ==
  [][\A t \in triage, u \in triage' :
       /\ t.confidence = "TIME_WINDOW"
       /\ u.exec.request = t.exec.request
       /\ t.exec \in FailedOf(inputs'.silver)
       /\ inputs'.history.readable
       => \/ u.confidence = "EXACT_REQUESTID"
          \/ /\ u.confidence = "TIME_WINDOW"
             /\ \A r \in t.refresh, s \in u.refresh :
                  Distance(u.exec.end, s.row.end) <= Distance(t.exec.end, r.row.end)]_vars

\* 02_silver_correlate.py:373-382, the U15 guardrail "must never exceed the number
\* of failed gateway queries" because every arm is "nearest-match-deduped".
U15Guardrail == silverAt # "asserted"

----------------------------------------------------------------------------
(* Liveness *)

\* Requests with a landed failure that no landed row of the same query supersedes.
FailedRequests ==
  {x.request : x \in {y \in landedExecutions :
     /\ ~ y.success
     /\ \A z \in landedExecutions : KeyOf(z) = KeyOf(y) => z.end < y.end \/ z = y}}

\* Without an event log, copies of the refresh a query matches trip the guardrail.
GuardrailTripped ==
  /\ eventTable = {}
  /\ \E r \in landedRefreshes, x \in landedExecutions : r.request = x.request

\* From some time on every run of bronze appends the executions that landed, and
\* no landing kind beside the event log ends it before the refresh history.
QueriesIngested == <>[][IngestQueries => queryTable' = landedExecutions]_vars
NothingRaises ==
  <>[][IngestQueries \/ IngestNetwork \/ IngestDiskAndInventory => bronzeAt' # "idle"]_vars

\* 02_silver_correlate.py:165-385: whatever is killed, unreadable or landed in
\* between, all requests with a failed query are in silver_triage again and again,
\* unless the executions are held back before bronze, a start in bronze ends every
\* run of silver, or the guardrail does.
EventuallyTriaged ==
  QueriesIngested =>
    []<>(FailedRequests \subseteq RequestsOf(triage) \/ startTable # {} \/ GuardrailTripped)

\* 01_bronze_ingest.py:838-846: the failed queries and the refreshes with their
\* RequestId are reconciled, once there is an OS event in the landing zone, no start
\* in bronze, and no ingest ahead of the refresh history that goes on raising.
EventuallyReconciled ==
  QueriesIngested /\ NothingRaises =>
    []<>(\/ landedEvents = {}
         \/ startTable # {}
         \/ \A r \in landedRefreshes : r.request \in FailedRequests =>
              \E t \in triage : /\ t.exec.request = r.request
                               /\ t.confidence = "EXACT_REQUESTID")
=============================================================================
