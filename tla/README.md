# Formal model of pbi-gateway-monitoring

TLA+ specifications of the gateway-monitoring kit: the scheduled collectors on
each gateway host, the landing zone, and the notebooks that turn it into the
tables operators look at.  Paths below are relative to `src/starter/`.

## 1. Inventory

```
 gateway host                    landing zone        lakehouse                       readers
 Collect-GatewayLogs  --JSON-->  gateway_logs_*    ┐
 Collect-EventLog     --JSON-->  event_log_*       │ 01_bronze  -> bronze_* (append)
 Collect-RefreshHistory ------>  refresh_history_* ├ 02_silver  -> silver_* (overwrite)  report, KQL
 Get-GatewayInventory -------->  inventory, ...    │ 03_gold    -> gold_*   (overwrite)  Activator rules
 network / disk / mashup ----->  samples           ┘
 00_tenant_extract (admin APIs) -> 01a_tenant_silver_gold -> gold_inventory, ...
```

Nothing synchronises these programs: every arrow is a file or a table that one
scheduled program writes and another reads later.  Every program is sequential;
what is hard is their interleaving, kills between two writes, errors that are
caught and passed over, and inputs that arrive late or twice.

| Component | State it keeps | Operations | Hard behaviour | What makes it correct |
|---|---|---|---|---|
| Gateway log collector (`collectors/Collect-GatewayLogs.ps1`) | watermark file, staged files | parse watermark, list pattern by pattern, read, stage, rewrite watermark | the gateway writes meanwhile; read failures; kills; resolution and zone of the parsed time | the watermark passes only what is staged; deliveries never go back; all that is owed arrives |
| Event log collector (`collectors/Collect-EventLog.ps1`) | watermark file, staged files | two queries, stage, rewrite watermark | events logged during the queries; a query fails; UTC offset | no event lost without a record of the failed query |
| Refresh history collector (`collectors/Collect-RefreshHistory.ps1`) | none | list datasets, fetch refreshes, stage | re-stages the same refreshes; per-dataset failure; top 20 | every refresh in the window staged, repeats harmless |
| Inventory collector (`collectors/Get-GatewayInventory.ps1`) | none | clusters, members, data sources | a failed member call leaves a cluster out | a false alarm is explained by the failures the file records |
| Network, disk, mashup collectors | none | sample counters | process-id reuse, failed probe | arithmetic of the samples |
| Bronze ingest (`notebooks/01_bronze_ingest.py`, `gateway_bronze_lib.py`) | bronze tables | eight ingests in order, each append | re-reads all landing files; uncaught exception ends the run; two forms of the gateway logs in one table; positional headers, casts | rows are read by name or known not to be, nothing is lost in silence, copies harmless downstream |
| Silver correlate (`notebooks/02_silver_correlate.py`) | silver tables | query execution, triage, identity, network | reads tables one by one; a failed read counts as a missing table; fan-out of joins; an assertion | one row per failed query, the label matches the evidence |
| Gold aggregate (`notebooks/03_gold_aggregate.py`) | gold tables | gateway health, query performance, cluster load, dimension | history of a fleet that moves and is renamed; joins by part of a key; rounded thresholds | a node that is down ages, none vanishes, every execution counts once |
| Alert rules (`alerting/`) | Activator's rule state | fire and resolve | thresholds against collection cadence | an outage fires, a healthy gateway does not |
| Tenant extract (`notebooks/00_tenant_extract.py`, `01a_…`) | bronze and gold tables in two stores | scanner start, poll, result; paging; retries; flattening | throttling, poll limit, kills between and inside writes, sessions with other settings | gold is this session's extract; what is incomplete has one of two causes |
| Capacity bridge, tenant doctor (`notebooks/04_…`, `tenant_doctor.py`) | none | five checks and a gate; three sources | three variables decide what is mocked; two readings of the mode | nothing is written past a failed check |
| Databricks port (`databricks/`) | audit and run tables | resilient GET, ingest loops | retries, failures passed over | every call leaves an audit row |
| Credentials (`deploy/*.ps1`) | app credential, Key Vault secret | reset, store | failure between the two | a working secret is always stored |
| Deployment (`deploy/build_deploy_notebooks.py`, `build_deploy_notebook.py`) | none | order of the cells and of the pipeline's notebooks | one stops when the one before fails | modelled as the order in `TenantChain`, `GatewayFleet` |
| Report, DAX, KQL | none | generate text, read-only queries | — | not modelled: no state |

`PROJECT.json` lists every component with its status, and every hazard with its
line and the properties that cover it.

## 2. Modules

| Module | Models |
|---|---|
| `LogDelivery` | abstract: what the log collector owes the landing zone |
| `GatewayLogCollector` | `Collect-GatewayLogs.ps1` with the gateway as its environment |
| `GatewayLogCollectorProofs` | its theorems |
| `EventLogCollector` | `Collect-EventLog.ps1` with the Windows event logs |
| `EventLogCollectorProofs` | its theorems |
| `SilverTriage` | pure operators: the joins of `02_silver_correlate.py` up to `silver_triage` |
| `SilverTriageProofs` | lemmas about what those joins return |
| `Medallion` | the bronze and silver notebooks over shared tables; extends `SilverTriage` |
| `MedallionProofs` | its theorems |
| `QueryLogs` | both forms of the gateway logs from the landing through bronze to the identity and network tables of silver |
| `QueryLogsProofs` | its theorems |
| `GatewayFleet` | inventory collector, the pipeline's bronze and gold notebooks, heartbeat, load and dimension tables |
| `GatewayFleetProofs` | its theorems |
| `TenantChain` | the tenant notebook: doctor, extract, flattening, bridge |
| `TenantChainProofs` | its theorems |
| `MC*` | instances for TLC |

The modules share no variables because the programs share none: the collectors
end in a file, `QueryLogs`, `Medallion` and `GatewayFleet` begin with files, and
the three look at different tables of the same notebooks.  Where one needs what
another produces it takes it as free input (`Correlate` in `GatewayFleet`).

### GatewayLogCollector

One action per step of the script.  `StartRun` parses the watermark
(`ParsedWatermark`), `ListPattern` is one iteration of the listing loop,
`ReadFile` and `ReadFails` are one iteration of the reading loop with its
`catch`, `Stage` writes the staging file, `TruncateWatermark` and
`SaveWatermark` are the two effects of `Out-File` on the watermark.  `Crash` may
fall between any two.  `Tick` and `GatewayWrites` are the environment.  A file's
content is a version number.

The time semantics are those of PowerShell 7, which the repository asks for
(`src/README.md:92`): a saved watermark comes back as a `DateTime`, loses its
fraction of a second through its string form (`SecondOf`), and keeps UTC digits;
the first run's default is a UTC string that `Parse` turns into local time.
Windows PowerShell 5.1 keeps the watermark a string and shifts it by the offset
instead; that is not modelled.

`gap` is a history variable: for each file, why its newest version was overlooked
(`Causes`).  The code has no such notion; it lets the properties separate a loss
the script takes knowingly from one it does not know of.

### EventLogCollector

The same shape, with two differences that matter: the watermark becomes the
run's *start* time whatever the queries returned, and `Get-WinEvent` takes
`StartTime` by its text and reads it as local time, so a run's window starts
`UtcOffset` before the watermark.  `noticed` (events whose failed query is
recorded in a landed file) and `scopeFrom` (the start of the first saved window)
are history variables.

### SilverTriage and Medallion

`SilverTriage` defines, for one snapshot of the tables, the set of tables the
code may compute: `row_number` leaves the order of ties open.  An unreadable
table is `None`, as in `read_bronze`.  A time is a number of seconds, an absent
match is the empty set.

`Medallion` interleaves the two notebooks.  Bronze is five steps in the order of
its entry point: `IngestQueries`, `IngestNetwork`, `IngestEvents`,
`IngestDiskAndInventory` (three ingests that touch nothing the triage reads) and
`IngestRefreshes`.  Each of the others may raise and end the notebook before the
refresh history: `createDataFrame` on reports it cannot type, a `select` on a kind
without a record.  `IngestEvents` has the three outcomes of the code: no file, no
event in any file (Spark infers an array of strings, the `select` raises outside
the `try`, the notebook ends), and an append.  Silver reads its tables one after the
other and then computes and writes; `BuildQueryExecution` raises when it selects
`artifact_type` from starts that bronze has written (`startTable`).  A single Delta
write is atomic.  A read may fail (`Reads`), a notebook may be killed.  Copies are
counted for refreshes, the only table whose copies can multiply rows; the two others
are reduced to one row per key whatever the number of copies, so they are sets.

`inputs` is a history variable: the snapshots the written `silver_triage` was
computed from.

Left out of these two modules: the rows of the QueryStart join, payload columns and
the two forms of the gateway logs, which are in `QueryLogs`; rows without a
RequestId; overlapping runs of one notebook.

### QueryLogs

A file is a header and rows of cells, so that reading by name and by position can
differ.  `ingest_gateway_logs` is the chain of `bronzeAt`: the library path
(`IngestExecutionCsvs`, `IngestStartCsvs`), then, only if it handled nothing, the
fallback, which collects the staged reports (`CollectReports`) and writes them by
type.  `Sanitized`, `LostByLib` / `LostByParser` and `ExecutionRow` are the column
names, the casts and the rows.  What Spark does is external and taken from how the
code relies on it: a read of several CSV files applies the header of the first to
all (`HeaderUsed`), `createDataFrame` raises when no row has a value in some
column (`Inferable`), an append cannot change a column's type (`Writable`).
Silver is three builds in a row; a column that a build asks for and the table has
not is an exception (`StartNeeds`).

### GatewayFleet

`Tick`, `NodeChanges`, `ClusterRenamed` and `OtherLands` are the world;
`StartCollecting`, `ListCluster`, `WriteInventory`, `CollectorStops` the
collector, one cluster per step because the fleet changes between two calls.  The
pipeline is a program counter over the landing kinds and the gold tables in the
order of the code (`After`).  A kind whose files hold no record ends the run
(`Ingest`).  `Maps` and `Latest` leave open which row `dropDuplicates` and
`row_number` keep.  `Leave` is a build whose read fails, which may be any: the table
stays as it was.  `CvExceeds` is the rounded sample deviation in integers.
`since` and `run` are history variables, read by properties only.

### TenantChain

One session is one program counter. Its settings (`Envs`) are read where the code
reads them, so that the doctor, the extract and the bridge may disagree. `Requests`
are the steps that talk to the service: each may be throttled, refused or answered.
Retries and polls are bounded as in the code, the pages of a day are not:
`FetchActivityPage` may be answered with another continuation for ever. `Torn` says
what a kill or a failure leaves of the file being written. Tables are rows with the
session and store they came from, per store.

## 3. Runs

| Run | Question | Result |
|---|---|---|
| `log_collector` | is every unstaged version behind the watermark explained, are deliveries monotone, does everything owed arrive? | holds |
| `log_collector_read_failure` | "failed files … will retry next run" (`Collect-GatewayLogs.ps1:196`) | violated |
| `log_collector_reupload` | "avoids re-uploading files already processed" (`:109-110`) | violated |
| `event_collector` | east of UTC, is any event lost without a record? | holds |
| `event_collector_west` | the same west of UTC | violated |
| `medallion` | does a rebuild ever make a query or its match worse, and do failures reach `silver_triage`? | holds |
| `medallion_guardrail` | the U15 assertion never fails (`02_silver_correlate.py:373-382`) | violated |
| `query_logs` | is a cell read under the right column, is a lost number noted, what keeps whole files out, is the network sample the nearest? | holds |
| `query_logs_artifact` | silver can read the starts bronze wrote (`tests/test_medallion_spark.py:218`) | violated |
| `query_logs_network` | "one query maps to <=1 network row; a query with no sample keeps its … row" (`02_silver_correlate.py:547-549`), "no fan-out, no drop" (`tests/test_medallion_spark.py:25`) | violated |
| `fleet` | does the heartbeat table tell the truth about a changing fleet, and do load and dimension agree with it? | holds |
| `tenant` | what may a session write, what does it leave, and does it end? | holds |

**Properties.**  `LossIsExplained` / `NoSilentLoss`: the collectors' watermarks
against what is staged.  `ImplementsDelivery`: refinement of `LogDelivery`.
`EventuallyStaged`, `EventuallyAccounted`: what is owed arrives, except that a
kill inside the watermark's `Out-File` wedges the collector for good (an empty
file, on which `StrictMode` throws).  `EveryFailedRequestOnce`: every RequestId
with a failed query is in the triage, once if the event log was read.
`SilverNeverGoesBack`: no rebuild replaces a query's row by an older one.
`ExactStaysExact`: only an unreadable refresh history can lower an exact match.
`WindowMatchNeverWorsens`: a match by time window is only ever replaced by an exact
one or by a refresh at most as far off, as long as its failed query stays.
`EventuallyTriaged`, `EventuallyReconciled`: a failed query is triaged, and
reconciled with its refresh once an OS event has landed.  Both fail without their
premises and exceptions, which are the ways the code can stop for good: the
executions are never appended (`QueriesIngested` excludes it), an ingest ahead of
refresh history raises on every run (`NothingRaises`), a start in bronze ends every
run of silver (`startTable`), without an event log the guardrail stops triage
(`GuardrailTripped`), and with event-log files that are all empty bronze never
reaches refresh history.
`FailedFilesRetryNextRun` asks about a file older than the watermark, so a tie of two
file times is not what refutes it.

`query_logs`: `MisreadNeedsAnotherHeader` (a value under another column needs a
CSV with another header beside it), `NoSilentCast` (on both paths a lost number is
named in `_cast_errors`), `OneFormPerTable` and `CsvKeepsReportsOut` (the two forms
shut each other out), `CleanReportsNeverLand` (executions from reports are written
only once a report of executions with an unknown column and one with a lost number
have landed), `NothingIsAttributed` (the identity table never names an artifact),
`NetworkIsNearest` (the row of a request shows the sample nearest to any of its
queries; that only one of the queries keeps a row is what `NetworkKeepsEveryQuery`
is violated by).

`fleet`: `FalseAlarmIsExplained` (an offline alarm on a node that is up has every
newer listing failed for its cluster), `DownNodeAges` (a node that is down shows no
heartbeat from after it went down), `NodeNeverLeaves`, `HeartbeatWaitsForOthers` (an
empty landing kind stops the heartbeat), `LoadIsConserved` (every execution is in the
total of a row of the load table, and of one only unless the join with the hottest
node repeats the row: on a tie, or after a renaming), `HottestRowIsUnique` (except for
ties and renamings), `SkewIsAmongTheActive` (what the classes mean for two nodes, and
that a cluster with one busy node is never called skewed), `TablesOfARunAgree`.

`tenant`: `GatedWrites`, `ExtractIsComplete` (what is missing was given up at the
poll limit or lies past the one page of refreshables), `StaleIsEmpty` and
`FreshOnLanding` (what survives of earlier sessions, per store),
`TornFileIsForeign`, `UnknownModeIsOverride`, `SessionsEnd` (unless the service sends
continuations for ever, `TokensRunOut`).

**Bounds.**  Log collector: two files of two patterns, needed for the listing race;
two versions each, so a file can change after it is listed; two ticks per second, so
the watermark's fraction matters; `MaxTime` leaves room for three runs, one to lose a
version, one to save past it, one to show it. Event collector: one event of each log,
the same clock. Medallion: one RequestId with two queries, one inside and one outside
the window of a refresh; another whose query is logged twice, first as a failure; its
refresh, in at most two copies (`MaxCopies`: two already multiply rows, more change
only counts); one OS event; one fault (1.7 million states). `QuietFrom` stops writes,
failures and kills so that liveness can be asked of what remains. The collectors' runs
switch the deadlock check off because the clock stops at `MaxTime` and a wedged
collector does nothing more.

Query logs: seven files, at least one of each form and type, two CSVs whose columns
are ordered differently and one with two names that become the same safe name, a clean
and a dirty report, cells on which the two casts differ; two hosts and two NICs; every
order of landing and of runs (673 thousand states). Fleet: two nodes and two clusters,
one change (a node goes down or moves, or a cluster is renamed; what several changes
do is left to the proofs, which bound none of this), two collections (`MaxTime = 1`,
with an age of one unit already past `Threshold = 0`), one landing kind without a
record, counts that are nearly even, skewed and tied (4 million states). Tenant: two
workspaces in two scans, one event over two days and any number of pages, two
refreshables of which one is asked for, two attempts and two polls, two sessions under
six settings that between them take every branch on a setting (1.3 million states).
Its deadlock check is off because no session starts after the last.

**Fairness.**  The task scheduler starts the scripts and a started script goes
on: weak fairness of `Run`.  Time passes: strong fairness of `Tick`, because runs
may interrupt it.  For the notebooks, weak fairness of each notebook's step; in
`TenantChain` of the session's step: the notebook's thread runs on and every request
returns, with an answer or at its timeout, while nothing makes a user start or kill
one.  Fairness says nothing of which answer: what the notebooks need of their inputs
to get on is a premise of the property (`QueriesIngested`, `NothingRaises`,
`TokensRunOut`), not of the specification.
`QueryLogs` and `GatewayFleet` assume none and have no liveness property: nobody
owes the landing zone another file.
Kills, failures and the arrival of data are never fair.

**Mutants.**  Each property has a mistaken variant of a definition in its module
(their comments begin "Mistaken variant", or their names have an underscore) that
breaks it: a watermark of the saving time, a skip by file name, an overwriting
stage, an inner join, a lost ordering, a strict comparison, reading by position, a
population deviation, a retry without its limit.

## 4. Proofs

Proved with TLAPS for every value of the constants, from the assumptions named in
the modules (`ClockAssumption`, `PatternAssumption`, `LogAssumption`, ...):

* `GatewayLogCollectorProofs`: `TypeCorrect`, `InvariantCorrect`,
  `NoUnexplainedLoss`, `DeliveryRefinement`.  `LossIsExplained` is not inductive:
  it speaks of saved watermarks only, and a run between listing and saving holds
  the debt in its memory.  `IInv` adds the clock (nothing recorded lies in the
  future, and a run starts strictly after the listing its watermark came from),
  the run's memory by phase, the snapshot discipline (what was read lies between
  staged and written, each file once), and coverage: every file of an already
  listed pattern is pending, read, staged, explained, or changed after the
  listing.  `SaveWatermark` turns coverage into `LossIsExplained`.  The refinement
  maps every action to a step of `LogDelivery` or a stutter under `IInv`.
* `EventLogCollectorProofs`: `TypeCorrect`; `EastOfUtcNoSilentLoss`, which assumes
  `UtcOffset >= 0` (the run `event_collector_west` shows that the assumption is
  needed); and `LossIsInGap`, which assumes nothing of the offset: in every step, an
  event that ceases to be accounted for was logged between a saved watermark and the
  window the next run reads from it.  The offset is thus the only cause of a silent
  loss.  `RunInv` bounds a run's window by the present, which fails west of UTC;
  `AnyHostInv` replaces that by where the window of a run about to be saved begins.
* `SilverTriageProofs`: `TriageFacts` and `TriageNearest`, built from one lemma per
  join level: what rows a triage has, and which refresh each row names.  They hold
  for every content of the tables and every way of breaking ties, and need no
  induction because no join is recursive.
* `MedallionProofs`: `TypeCorrect`, `FailedRequestsOnce`, `WindowIsKept`,
  `LatestWins`, `ExactIsKept`, `GuardrailHoldsWithLog`, from one inductive invariant
  `IInv` in five parts besides the types: `SilverFollowsBronze` (silver holds rows of
  bronze, bronze rows that landed), `HistoryGrows` (what the written triage was
  computed from is contained in what a run has read since), `TriageFollowsInputs` and
  `TriageNamesNearest` (the written triage is one that the two lemmas above allow for
  its inputs) and `UnreadIsEmpty`. The first gives `LatestWins`, because a rebuild
  then ranks the row it replaces; the second and third `ExactIsKept`; with the fourth,
  that the history a later triage reads still has the refresh of an earlier match
  (`HistoryKept`), and that the nearest row was taken both times, `WindowIsKept`.
  `GuardrailHoldsWithLog` is the other half of the run `medallion_guardrail`: the
  assertion that TLC shows failing can fail only in a run that had no event log to
  rank by. It adds that what has landed is finite. The assumption on the data is
  `RowAssumption`: times are numbers of seconds.
* `QueryLogsProofs`: a first invariant, `IInv`, gives every row of the table its
  origin (a file, the header it was read with, the path that wrote it) and ties the
  form of the rows to the type `_cast_errors` has. From it: `FormsNeverMix`,
  `HeadersDecide`, `LossIsNoted`, `OnlyDirtyReportsLand`, and with the steps of bronze
  `CsvsShutReportsOut`. `OnlyDirtyReportsLand` speaks of reports of executions only: a
  CSV, however dirty, does not satisfy it. The second, `Full`, adds the types and that
  no start has the column that silver selects: `TypeCorrect`, `NeverAttributed`.
  `NearestSample` unfolds the two rankings of the network join. `NamesStayDistinct` is
  about `_sanitize_columns` alone: for every header without a repeated name there is
  always a free suffix (by the pigeonhole principle) and the names written are
  distinct. The suffixes are defined by recursion over the header; that the recursion
  defines them at every position is shown by a least counterexample, since the
  library's induction theorems cannot be instantiated here.
* `GatewayFleetProofs`: `IInv` follows a listing from the collector's memory over the
  landing to bronze: its rows are dated no later than now and show a node Live no
  later than it last went down, which must also hold of listings not yet written or
  ingested. From it: `DownAges`, `NoNodeLeaves`, `HeartbeatWaits`. `Full` adds that a
  listing newer than a node's last change shows it Live or records its cluster as
  failed (`CompleteOK`, for `FalseAlarmExplained`), and the order in which a run
  writes its tables (`RunOK`, for `TablesAgree`). `LoadConserved` is about the rows
  that are written: a node is counted under the one label its map keeps, its label has
  a row because a busiest node exists, and two rows of a label differ in the hottest
  node or in the label the peak was taken from, which is a tie or a renaming.
  `HottestUnique` needs that a maximum over a finite set of nodes is attained
  (`Attained`), `SkewAmongActive` the sums behind the coefficient of variation of two
  nodes (`PairSum`) and the arithmetic that turns its square into a ratio.
* `TenantChainProofs`: `IInv` carries the doctor's verdicts past the gate to the steps
  that write, and says which tables are this session's: those before the one in turn
  while it extracts or turns, all of them afterwards. From it: `WritesAreGated`,
  `LandingIsFresh`, `TornIsForeign`, `UnknownIsOverride`. `Full` adds the extract's
  progress (`WorkOK`: at every request, what the service listed is what was fetched
  and what is still to do) for `ExtractComplete`, and the session of what an extract
  leaves (`StaleOK`) for `StaleEmpty`.

The last three assume nothing of time or fairness, only the typing of the constants,
which TLC evaluates in their runs (`FilesAssumption`, `ValuesAssumption`,
`FleetConstants`, `ConstantsOK`), and hold for any number of files, nodes, sessions,
retries and kills.  Two assumptions are about data: the header of a log names a
column once, and the header of a file of starts has no column `artifact_type` (the
gateway's logs carry the artifact inside `EvaluationContext` only).

Every invariant and action property of the passing runs is thereby proved.  Left to
TLC are the liveness properties `EventuallyStaged`, `EventuallyAccounted`,
`EventuallyTriaged`, `EventuallyReconciled` and `SessionsEnd` (fairness and `ENABLED`
are out of the prover's reach).  What `SkewIsAmongTheActive` says in numbers it says
of two active nodes; for more, the classes are only defined, because a sum over a set
of any size needs induction over data.

## 5. Not modelled

In the modelled components: NTFS delays in updating a file's modification time; two
runs within one second writing the same staging file name; a torn staging file of a
collector; clock changes on the host; in bronze the FPM bridge, a stub that prints,
`QueryAggregation` records, which are collected and never written,
`_emit_schema_warnings`, which cannot fire, and `parse_csv_rows` and
`gold_mashup_health`, which the pipeline does not call; in gold the statistics
joined from the left to the heartbeat rows, which add and drop none.

Without a module:

* Refresh history, network, disk and mashup collectors: each run samples and writes
  one file and keeps nothing.  What their repeats and empty files do downstream is
  in `Medallion` and `GatewayFleet`.
* The Databricks port: the same retry-and-continue loop as the tenant extract, in
  three notebooks that are not the deployed ones.
* Credential and capacity scripts: a few external commands run once by hand.
* The other alert rules: one column against one threshold, evaluated by Fabric.
* Report, semantic model, KQL, deployment generators as text; node scripts; the
  simulator and the tests, which were read for what they say of the code.

Behaviour the models state that a reader of the code may not expect:

* `01a_tenant_silver_gold.py` reads the JSON landing on a cluster too (lines 110-115),
  although its header says it "Reads the JSON landing written by 00_tenant_extract in
  MOCK/CI, or Delta bronze tables on cluster" (lines 12-13): on a cluster, where the
  extract writes Delta, gold is made of what an earlier session left in the landing,
  or of nothing (`GoldSource`).  Mode `capacity_metrics_xmla` always raises,
  because `04_capacity_bridge.py:108` tests a name that is never bound, and the
  doctor calls the mode valid; the doctor reads the mode from the configuration
  first, the bridge from the environment first; `TENANT_EXTRACT_MOCK=0` switches the
  Key Vault fetch off without being a mock; zero records leave an earlier Delta table
  in place.
* `triage_confidence` is never `HOST_ONLY`, although the header of
  `02_silver_correlate.py` (lines 21-23) and the comment at 153-163 describe it as the
  label of a match with an OS event alone: the label is decided before the event join
  (lines 195-272), and such a query is `GATEWAY_ONLY`, as
  `tests/test_medallion_spark.py:20-21` expects (`Confidences`, `WindowConfidence`).
* The three rankings of `02_silver_correlate.py` (lines 260, 338, 561) are per RequestId
  while silver has a row per (RequestId, QueryTrackingId): of several queries of one
  request the triage and the network table keep one.
* The exceptions that end bronze are permanent while the same files lie in the landing;
  the first start in bronze ends every later run of silver.
* The heartbeat threshold (10 minutes) is shorter than the 15 minutes between two
  collections; `status_current` is always Live; a pipeline that fails stops
  recomputing the age; one empty landing kind stops the heartbeat.
* A directory of CSVs with different headers is read by position, although
  `gateway_bronze_lib.py:113` calls the reader immune to that; staged reports are
  written only from a dirty batch of executions, and starts never; the reports and the
  CSVs exclude each other.

## 6. Plan

Modelled and checked: everything the plan named except the Databricks port and the
credential rotation, for the reasons above.  Proved: every safety property of the
passing runs.  What is left:

1. Abstract specifications of what the event collector and the inventory's way to
   the heartbeat table promise, and proofs that the detailed modules implement them,
   as `LogDelivery` is for the log collector.
2. A bound on the skew classes that holds for any number of active nodes.
