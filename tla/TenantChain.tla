------------------------------ MODULE TenantChain ------------------------------
(***************************************************************************)
(* The tenant extract of Deploy_TenantExtract.ipynb: one session loads the *)
(* configuration, runs tenant_doctor as a gate, extracts the scanner,      *)
(* activity and refreshables tables into bronze (00_tenant_extract), turns *)
(* them into gold (01a_tenant_silver_gold) and bridges the capacity        *)
(* metrics (04_capacity_bridge).  The admin APIs throttle, refuse or       *)
(* answer; a session may be killed at any step and started again later,    *)
(* elsewhere or with other settings, over the tables of earlier ones.      *)
(* Tables are kept in two stores: Delta tables on a cluster, and the JSON  *)
(* files of a landing directory.                                           *)
(***************************************************************************)
EXTENDS Integers, FiniteSets

CONSTANTS
  Workspaces,    \* workspaces of the tenant
  ItemsIn,       \* the items of each workspace, a function
  Events,        \* activity events
  Refreshables,  \* refreshable datasets
  Capacities,    \* capacities with metered consumption
  Envs,          \* the settings a session may run under, see EnvType
  MaxTries,      \* attempts of _get and _post, 6 in the code
  MaxPolls,      \* polls of a scan's status, 60 in the code
  BatchSize,     \* workspaces per scan, 100 in the code
  Lookback,      \* days of activity before today, 7 in the code
  Top,           \* refreshables asked for, 1000 in the code
  MaxSessions    \* bound: sessions started

Flag  == {"unset", "0", "1"}
Modes == {"mock", "fpm_eventhouse", "capacity_metrics_xmla"}
Tables == {"scanner", "activity", "refreshables"}
Sinks == {"delta", "json"}

EnvType ==
  [spark: BOOLEAN,            \* a Spark session could be created
   force: BOOLEAN,            \* FORCE_JSON_LANDING
   requests: BOOLEAN,         \* the requests package is installed
   extractVar: Flag,          \* TENANT_EXTRACT_MOCK
   doctorVar: Flag,           \* TENANT_DOCTOR_MOCK
   keyVault: BOOLEAN,         \* config names a vault and a secret
   inline: BOOLEAN,           \* config carries a client secret itself
   cfgMode: Modes \cup {"other", "unset"},  \* config.capacityBridge.mode
   envMode: Modes \cup {"other", "unset"},  \* CAPACITY_BRIDGE_MODE
   enabled: SUBSET Tables]    \* collectors switched on for this session

ASSUME ConstantsOK ==
  /\ Envs \subseteq EnvType
  /\ ItemsIn \in [Workspaces -> SUBSET UNION {ItemsIn[w] : w \in Workspaces}]
  /\ IsFiniteSet(Workspaces) /\ IsFiniteSet(Events) /\ IsFiniteSet(Refreshables)
  /\ {MaxTries, MaxPolls, BatchSize, Top} \subseteq Nat \ {0}
  /\ {Lookback, MaxSessions} \subseteq Nat

VARIABLES
  pc,        \* the step the session is at
  session,   \* sessions started so far, the number of the current one
  env,       \* the settings of the current session
  secret,    \* a client secret is known
  report,    \* the doctor's checks
  tbl,       \* the table in turn, in extract and in gold
  tries,     \* attempts of the current request that were throttled
  work,      \* progress of the extract in turn
  counts,    \* records each extract reported, -1 before it does
  bronze,    \* bronze tables per store
  gold,      \* gold tables per store; "capacities" is the bridge's
  failedAt   \* the step at which the last session raised, or "none"

vars == <<pc, session, env, secret, report, tbl, tries, work, counts,
          bronze, gold, failedAt>>
flow == <<session, env, secret, report>>   \* fixed once the gate is passed

Checks   == {"D1", "D2", "D3", "D4", "D5"}
Requests == {"modified", "getInfo", "scanStatus", "scanResult",
             "activity", "refreshables"}
Running  == {"config", "gate", "token", "extract", "write", "assert",
             "goldRead", "goldWrite", "bridge"} \cup Checks \cup Requests
Records  == Workspaces \cup Events \cup Refreshables
GoldRecords == (UNION {ItemsIn[w] : w \in Workspaces}) \cup Records \cup Capacities

(* What a table holds: the session that wrote it and the one that landed   *)
(* its rows, whether they are the mock's, and whether the file was written *)
(* to its end.                                                             *)
TableType(rows) ==
  [at: 0..MaxSessions, from: 0..MaxSessions, mock: BOOLEAN, rows: SUBSET rows,
   whole: BOOLEAN]
NoTable == [at |-> 0, from |-> 0, mock |-> FALSE, rows |-> {}, whole |-> TRUE]

Following == [scanner |-> "activity", activity |-> "refreshables",
              refreshables |-> "end"]

NoWork == [todo |-> {}, batch |-> {}, listed |-> {}, acc |-> {}, n |-> 0,
           polls |-> 0, settled |-> TRUE, day |-> Lookback, pages |-> 0]

WorkType ==
  [todo: SUBSET Workspaces, batch: SUBSET Workspaces, listed: SUBSET Records,
   acc: SUBSET Records, n: Nat, polls: 0..MaxPolls, settled: BOOLEAN,
   day: 0..Lookback, pages: 0..1]

(* Types: the steps, the settings and the tables stay what the code calls  *)
(* them.                                                                   *)
TypeOK ==
  /\ pc \in Running \cup {"idle", "done", "failed"}
  /\ session \in 0..MaxSessions
  /\ env \in Envs
  /\ secret \in BOOLEAN
  /\ report \in [Checks -> {"none", "PASS", "FAIL", "SKIP"}]
  /\ tbl \in Tables
  /\ tries \in 0..(MaxTries - 1)
  /\ work \in WorkType
  /\ counts \in [Tables -> Nat \cup {-1}]
  /\ bronze \in [Sinks -> [Tables -> TableType(Records)]]
  /\ gold \in [Sinks -> [Tables \cup {"capacities"} -> TableType(GoldRecords)]]
  /\ failedAt \in Running \cup {"none"}

(* Names with an underscore are mistaken variants of the definition after  *)
(* them, used to see that the properties notice.                           *)

(* MOCK of 00_tenant_extract and of tenant_doctor, which falls back to the *)
(* extract's variable; the store written by this session; the mode of the  *)
(* bridge as the doctor reads it (the configuration first) and as the      *)
(* bridge does (the environment first).                                    *)
ExtractMock == env.extractVar = "1"
DoctorMock  == IF env.doctorVar = "unset" THEN ExtractMock
                                          ELSE env.doctorVar = "1"
Sink == IF env.spark /\ ~env.force THEN "delta" ELSE "json"
OrMock(first, second) ==
  IF first # "unset" THEN first ELSE IF second # "unset" THEN second ELSE "mock"
DoctorMode_ConfigOnly == OrMock(env.cfgMode, "mock")
DoctorMode == OrMock(env.cfgMode, env.envMode)
BridgeMode == OrMock(env.envMode, env.cfgMode)

Init ==
  /\ pc = "idle" /\ session = 0 /\ env \in Envs /\ secret = FALSE
  /\ report = [c \in Checks |-> "none"]
  /\ tbl = "scanner" /\ tries = 0 /\ work = NoWork
  /\ counts = [t \in Tables |-> -1]
  /\ bronze = [s \in Sinks |-> [t \in Tables |-> NoTable]]
  /\ gold = [s \in Sinks |-> [t \in Tables \cup {"capacities"} |-> NoTable]]
  /\ failedAt = "none"

(* A session starts, or a failed or finished one is run again from its top *)
(* cell, possibly under other settings.                                    *)
StartSession ==
  /\ pc \in {"idle", "done", "failed"} /\ session < MaxSessions
  /\ pc' = "config" /\ session' = session + 1 /\ env' \in Envs
  /\ secret' = FALSE /\ report' = [c \in Checks |-> "none"]
  /\ tbl' = "scanner" /\ tries' = 0 /\ work' = NoWork
  /\ counts' = [t \in Tables |-> -1] /\ failedAt' = "none"
  /\ UNCHANGED <<bronze, gold>>

(* An exception ends the session where it is raised.                       *)
Raise ==
  /\ pc' = "failed" /\ failedAt' = pc
  /\ UNCHANGED <<session, env, secret, report, tbl, tries, work, counts,
                 bronze, gold>>

(* load_config: the secret is fetched from the vault unless the mock       *)
(* variable is set at all, to "0" as well; a failing fetch only warns.     *)
LoadConfig ==
  /\ pc = "config" /\ pc' = "D1"
  /\ secret' \in {env.inline}
       \cup (IF env.keyVault /\ env.extractVar = "unset" THEN {TRUE} ELSE {})
  /\ UNCHANGED <<session, env, report, tbl, tries, work, counts, bronze, gold,
                 failedAt>>

--------------------------------------------------------------------------------
(* The doctor.  Every probe is one request without a retry.                *)

Required_NoProbes == {"D1"}
Required == {"D1", "D2", "D3"}

(* The statuses a check may get.                                           *)
Probe(id) ==
  CASE id = "D1" -> IF DoctorMock THEN {"PASS"}
                    ELSE IF env.requests /\ secret THEN {"PASS", "FAIL"}
                    ELSE {"FAIL"}
    [] id = "D5" -> IF DoctorMode \in Modes THEN {"PASS"} ELSE {"FAIL"}
    [] id = "D4" -> IF DoctorMock THEN {"PASS"} ELSE {"PASS", "SKIP"}
    [] OTHER     -> IF DoctorMock THEN {"PASS"} ELSE {"PASS", "FAIL"}

(* One check; without a token nothing else is asked.                       *)
Check(id, next) ==
  /\ pc = id
  /\ \E status \in Probe(id) :
       /\ report' = [report EXCEPT ![id] = status]
       /\ pc' = IF id = "D1" /\ status = "FAIL" THEN "gate" ELSE next
  /\ UNCHANGED <<session, env, secret, tbl, tries, work, counts, bronze, gold,
                 failedAt>>

Doctor == \/ Check("D1", "D2") \/ Check("D2", "D3") \/ Check("D3", "D4")
          \/ Check("D4", "D5") \/ Check("D5", "gate")

Ready == \A id \in Required : report[id] # "FAIL"

(* The notebook's assertion on the verdict.                                *)
Gate ==
  /\ pc = "gate"
  /\ IF Ready
       THEN /\ pc' = "token"
            /\ UNCHANGED <<flow, tbl, tries, work, counts, bronze, gold, failedAt>>
       ELSE Raise

--------------------------------------------------------------------------------
(* 00_tenant_extract.                                                      *)

(* A second token is asked for; then the collectors run in turn.           *)
AcquireToken ==
  /\ pc = "token"
  /\ \/ /\ ExtractMock \/ (env.requests /\ secret)
        /\ pc' = "extract"
        /\ UNCHANGED <<flow, tbl, tries, work, counts, bronze, gold, failedAt>>
     \/ ~ExtractMock /\ Raise

(* Leaving a table, in the extract or in gold: the next one or the next    *)
(* step.                                                                   *)
Advance(step, end) ==
  IF Following[tbl] = "end"
    THEN pc' = end /\ tbl' = "scanner"
    ELSE pc' = step /\ tbl' = Following[tbl]

(* What the mock returns: one blob with its workspaces, events, datasets.  *)
MockRecords ==
  CASE tbl = "scanner"  -> Workspaces
    [] tbl = "activity" -> Events
    [] OTHER            -> Refreshables

(* A collector begins: skipped if it is switched off, answered by its      *)
(* fixture under MOCK, else its first request is sent.                     *)
BeginExtract ==
  /\ pc = "extract"
  /\ IF tbl \notin env.enabled
       THEN Advance("extract", "assert") /\ UNCHANGED work
       ELSE /\ UNCHANGED tbl
            /\ work' = IF ExtractMock
                         THEN [NoWork EXCEPT !.acc = MockRecords,
                                             !.listed = MockRecords, !.n = 1]
                         ELSE NoWork
            /\ pc' = CASE ExtractMock -> "write"
                       [] ~ExtractMock /\ tbl = "scanner" -> "modified"
                       [] OTHER       -> tbl
  /\ UNCHANGED <<flow, tries, counts, bronze, gold, failedAt>>

(* 429 and 5xx are waited out and asked again, MaxTries times in all;      *)
(* any other refusal, a lost connection or a timeout raises at once.       *)
Throttled_Forever ==
  /\ pc \in Requests
  /\ tries' = (tries + 1) % MaxTries
  /\ UNCHANGED <<pc, flow, tbl, work, counts, bronze, gold, failedAt>>
Throttled ==
  /\ pc \in Requests
  /\ IF tries + 1 = MaxTries
       THEN Raise
       ELSE /\ tries' = tries + 1
            /\ UNCHANGED <<pc, flow, tbl, work, counts, bronze, gold, failedAt>>

Refused == pc \in Requests /\ Raise

(* An answer moves the work on to the next step and resets the attempts.   *)
Answered(request, step, w) ==
  /\ pc = request /\ pc' = step /\ work' = w /\ tries' = 0
  /\ UNCHANGED <<flow, tbl, counts, bronze, gold, failedAt>>

BatchOrWrite(todo) == IF todo = {} THEN "write" ELSE "getInfo"

ListModified ==
  \E ws \in SUBSET Workspaces :
    Answered("modified", BatchOrWrite(ws),
             [work EXCEPT !.todo = ws, !.listed = ws])

(* The next batch of at most BatchSize workspaces.                         *)
PostWorkspaceInfo ==
  \E b \in SUBSET work.todo :
    /\ Cardinality(b) <= BatchSize /\ (b = work.todo \/ Cardinality(b) = BatchSize)
    /\ Answered("getInfo", "scanStatus",
                [work EXCEPT !.batch = b, !.todo = @ \ b, !.polls = 0])

(* Polling stops at Succeeded, or at its limit without it.                 *)
PollScanStatus_OneMore ==
  \/ Answered("scanStatus", "scanResult", work)
  \/ LET polls == work.polls + 1 IN
     Answered("scanStatus",
              IF polls > MaxPolls THEN "scanResult" ELSE "scanStatus",
              [work EXCEPT !.polls = polls, !.settled = @ /\ polls <= MaxPolls])
PollScanStatus ==
  \/ Answered("scanStatus", "scanResult", work)
  \/ LET polls == work.polls + 1 IN
     Answered("scanStatus",
              IF polls = MaxPolls THEN "scanResult" ELSE "scanStatus",
              [work EXCEPT !.polls = polls, !.settled = @ /\ polls # MaxPolls])

(* The result is fetched either way.  A scan that never was Succeeded may  *)
(* hold any part of its batch; what comes is appended as one blob.         *)
FetchScanResult_LastBatch ==
  \E part \in SUBSET work.batch :
    /\ (work.polls < MaxPolls) => part = work.batch
    /\ Answered("scanResult", BatchOrWrite(work.todo),
                [work EXCEPT !.acc = part, !.n = @ + 1])
FetchScanResult ==
  \E part \in SUBSET work.batch :
    /\ (work.polls < MaxPolls) => part = work.batch
    /\ Answered("scanResult", BatchOrWrite(work.todo),
                [work EXCEPT !.acc = @ \cup part, !.n = @ + 1])

(* One page of one day's events.  The service decides whether more follow, *)
(* and nothing bounds how many do; of the pages of a day only the parity   *)
(* is kept.  Days are asked for from the oldest to today.                  *)
FetchActivityPage ==
  \E page \in SUBSET (Events \ work.acc), more \in BOOLEAN :
    Answered("activity",
             IF ~more /\ work.day = 0 THEN "write" ELSE "activity",
             [work EXCEPT !.acc = @ \cup page, !.listed = @ \cup page,
                          !.n = @ + Cardinality(page),
                          !.pages = IF more THEN 1 - @ ELSE 0,
                          !.day = IF more \/ @ = 0 THEN @ ELSE @ - 1])

(* One request for the first Top refreshables; no further page is read.    *)
FetchRefreshables ==
  \E all \in SUBSET Refreshables : \E first \in SUBSET all :
    /\ Cardinality(first) <= Top /\ (first = all \/ Cardinality(first) = Top)
    /\ Answered("refreshables", "write",
                [work EXCEPT !.acc = first, !.listed = all,
                             !.n = Cardinality(first)])

(* The records with their provenance stamp.                                *)
Landed == [at |-> session, from |-> session, mock |-> ExtractMock,
           rows |-> work.acc, whole |-> TRUE]

(* _write_bronze_json: the table is replaced, except that on a cluster     *)
(* zero records leave the table of an earlier session in place.            *)
WriteBronze_SkipEmpty ==
  /\ pc = "write"
  /\ counts' = [counts EXCEPT ![tbl] = work.n]
  /\ bronze' = IF work.n = 0 THEN bronze ELSE [bronze EXCEPT ![Sink][tbl] = Landed]
  /\ work' = NoWork
  /\ Advance("extract", "assert")
  /\ UNCHANGED <<flow, tries, gold, failedAt>>
WriteBronze_Ignore ==
  /\ pc = "write"
  /\ counts' = [counts EXCEPT ![tbl] = work.n]
  /\ bronze' = IF bronze[Sink][tbl] # NoTable THEN bronze
               ELSE [bronze EXCEPT ![Sink][tbl] = Landed]
  /\ work' = NoWork
  /\ Advance("extract", "assert")
  /\ UNCHANGED <<flow, tries, gold, failedAt>>
WriteBronze ==
  /\ pc = "write"
  /\ counts' = [counts EXCEPT ![tbl] = work.n]
  /\ bronze' = IF Sink = "delta" /\ work.n = 0 THEN bronze
               ELSE [bronze EXCEPT ![Sink][tbl] = Landed]
  /\ work' = NoWork
  /\ Advance("extract", "assert")
  /\ UNCHANGED <<flow, tries, gold, failedAt>>

(* The notebook's assertion that something was extracted.                  *)
AssertExtracted ==
  /\ pc = "assert"
  /\ IF \E t \in Tables : counts[t] > 0
       THEN /\ pc' = "goldRead"
            /\ UNCHANGED <<flow, tbl, tries, work, counts, bronze, gold, failedAt>>
       ELSE Raise

--------------------------------------------------------------------------------
(* 01a_tenant_silver_gold and 04_capacity_bridge.                          *)

(* The table 01a reads: always the file of the landing directory, empty    *)
(* when there is none.                                                     *)
GoldSource(t) == bronze["json"][t]

(* A file that ends early does not parse and raises, before any gold table *)
(* is written.                                                             *)
ReadBronze ==
  /\ pc = "goldRead"
  /\ IF \A t \in Tables : GoldSource(t).whole
       THEN /\ pc' = "goldWrite"
            /\ UNCHANGED <<flow, tbl, tries, work, counts, bronze, gold, failedAt>>
       ELSE Raise

(* One row per item of a workspace, and one per event or refreshable.      *)
Transform(t, rows) ==
  IF t = "scanner" THEN UNION {ItemsIn[w] : w \in rows} ELSE rows

(* _write_gold: as in bronze, no rows leave a Delta table as it is.        *)
Replaced_SkipEmpty(t, table) ==
  IF table.rows = {} THEN gold ELSE [gold EXCEPT ![Sink][t] = table]
Replaced(t, table) ==
  IF Sink = "delta" /\ table.rows = {} THEN gold
  ELSE [gold EXCEPT ![Sink][t] = table]

WriteGold ==
  /\ pc = "goldWrite"
  /\ gold' = Replaced(tbl, [GoldSource(tbl) EXCEPT
                              !.at = session,
                              !.rows = Transform(tbl, GoldSource(tbl).rows)])
  /\ Advance("goldWrite", "bridge")
  /\ UNCHANGED <<flow, tries, work, counts, bronze, failedAt>>

(* The bridge: mock rows, the eventhouse's (Spark only, any part of the    *)
(* capacities), or an exception: an unreadable path, a mode it does not    *)
(* know, and always in capacity_metrics_xmla, whose first line tests a     *)
(* name the module never binds.                                            *)
Bridge ==
  /\ pc = "bridge"
  /\ \/ \E rows \in SUBSET Capacities :
          /\ \/ BridgeMode = "mock" /\ rows = Capacities
             \/ BridgeMode = "fpm_eventhouse" /\ env.spark
          /\ gold' = Replaced("capacities",
                       [at |-> session, from |-> session, mock |-> BridgeMode = "mock",
                        rows |-> rows, whole |-> TRUE])
          /\ pc' = "done"
          /\ UNCHANGED <<flow, tbl, tries, work, counts, bronze, failedAt>>
     \/ BridgeMode # "mock" /\ Raise

(* A write that ends early.  A JSON file was truncated when it was opened  *)
(* and keeps what had been written of it, not a whole file; a Delta write  *)
(* that does not commit leaves the old table.                              *)
Torn ==
  LET rest == [at |-> session, from |-> 0, mock |-> FALSE, rows |-> {},
               whole |-> FALSE] IN
  \/ UNCHANGED <<bronze, gold>>
  \/ /\ pc = "write" /\ Sink = "json"
     /\ bronze' = [bronze EXCEPT !["json"][tbl] = rest] /\ UNCHANGED gold
  \/ /\ pc \in {"goldWrite", "bridge"} /\ Sink = "json"
     /\ gold' = [gold EXCEPT
                   !["json"][IF pc = "bridge" THEN "capacities" ELSE tbl] = rest]
     /\ UNCHANGED bronze

(* Writing raises, or the kernel is lost at any step.                      *)
WriteRaises ==
  /\ pc \in {"write", "goldWrite", "bridge"} /\ Torn
  /\ pc' = "failed" /\ failedAt' = pc
  /\ UNCHANGED <<flow, tbl, tries, work, counts>>
Kill ==
  /\ pc \in Running /\ pc' = "idle" /\ Torn
  /\ secret' = FALSE /\ report' = [c \in Checks |-> "none"]
  /\ tbl' = "scanner" /\ tries' = 0 /\ work' = NoWork
  /\ counts' = [t \in Tables |-> -1]
  /\ UNCHANGED <<session, env, failedAt>>

Extract ==
  \/ AcquireToken \/ BeginExtract \/ Throttled \/ Refused
  \/ ListModified \/ PostWorkspaceInfo \/ PollScanStatus \/ FetchScanResult
  \/ FetchActivityPage \/ FetchRefreshables \/ WriteBronze \/ AssertExtracted

Step ==
  \/ LoadConfig \/ Doctor \/ Gate \/ Extract
  \/ ReadBronze \/ WriteGold \/ Bridge \/ WriteRaises

Next == StartSession \/ Step \/ Kill

(* Fairness: the notebook's own thread runs on, and every request returns, *)
(* with an answer or at its timeout.  Nothing makes a user start or kill.  *)
Spec == Init /\ [][Next]_vars /\ WF_vars(Step)

--------------------------------------------------------------------------------
(* Nothing is written unless every required check passed in this session.  *)
(* The gate is one assertion six steps before the first write, and the     *)
(* doctor goes on after a failed probe.                                    *)
GatedWrites ==
  [][(bronze' # bronze \/ gold' # gold)
       => \A id \in {"D1", "D2", "D3"} : report[id] = "PASS"]_vars

(* What an extract writes is all the service listed for it, unless a scan  *)
(* was given up at the polling limit, or there are more refreshables than  *)
(* the one request asks for (extract_scanner, extract_refreshables).       *)
ExtractIsComplete ==
  (pc = "write" /\ work.acc # work.listed) =>
    \/ tbl = "scanner" /\ ~work.settled
    \/ tbl = "refreshables" /\ Cardinality(work.listed) > Top

(* A session that ends well on a cluster leaves a bronze table of an       *)
(* earlier session only where it extracted zero records: "0 records,       *)
(* skipping Delta write" is the one way for stale rows to survive a run.   *)
StaleIsEmpty ==
  pc = "done" => \A t \in env.enabled :
    bronze[Sink][t].at # session => Sink = "delta" /\ counts[t] = 0

(* With the JSON landing, a session that ends well has turned exactly the  *)
(* rows it extracted into gold, whatever earlier sessions left behind and  *)
(* wherever they were killed.                                              *)
FreshOnLanding ==
  (pc = "done" /\ Sink = "json") => \A t \in env.enabled :
    /\ gold["json"][t].from = session
    /\ gold["json"][t].mock = ExtractMock
    /\ gold["json"][t].rows = Transform(t, bronze["json"][t].rows)

(* A bronze file torn by a killed or failed write stops 01a only in a      *)
(* session that did not itself rewrite all files: one on a cluster, or one *)
(* with a collector switched off.                                          *)
TornFileIsForeign ==
  failedAt = "goldRead" => Sink = "delta" \/ env.enabled # Tables

(* The bridge meets a mode it does not know, after gold was written, only  *)
(* if the doctor had reported it, or because the environment overrides the *)
(* mode of the configuration that the doctor had checked.                  *)
UnknownModeIsOverride ==
  (pc = "bridge" /\ BridgeMode \notin Modes) =>
    \/ report["D5"] = "FAIL"
    \/ env.cfgMode \in Modes /\ env.envMode = "other"

(* From some time on the service names no further page of a day.           *)
TokensRunOut ==
  <>[][FetchActivityPage => work'.day # work.day \/ pc' = "write"]_vars

(* Every session ends, at the end or with an exception: the retries of a   *)
(* request and the polls of a scan are bounded.  The pages of a day are    *)
(* not, `while cont:` (00_tenant_extract.py:179), so this is asked only    *)
(* while the service does not answer with continuation URIs for ever.      *)
SessionsEnd ==
  TokensRunOut => ((pc = "config") ~> (pc \in {"idle", "done", "failed"}))

================================================================================
