----------------------------- MODULE GatewayFleet ------------------------------
(***************************************************************************)
(* The fleet view: Get-GatewayInventory.ps1 lists the clusters' members,   *)
(* 01_bronze_ingest.py appends the listings to bronze_gateway_inventory    *)
(* amid the other landing kinds, and 03_gold_aggregate.py turns them and   *)
(* silver_query_execution into the heartbeat table the gateway-offline     *)
(* rule reads, the query and cluster load tables and the gateway           *)
(* dimension.  The pipeline of build_deploy_notebook.py runs the notebooks *)
(* one after the other, each if the one before succeeded.  Nodes go up and *)
(* down, move, leave and their clusters are renamed meanwhile; collector   *)
(* and pipeline may be stopped anywhere and run again later.  Time passes  *)
(* in units of five minutes.  All queries fall in one hour, as no table    *)
(* relates two hours; the statistics joined to the heartbeat rows from the *)
(* left on unique keys neither add nor drop a row and are left out.        *)
(***************************************************************************)
EXTENDS Integers, FiniteSets, Functions

CONSTANTS
  Nodes, Clusters, Names,  \* gateway nodes, cluster ids, cluster names
  Threshold,     \* gatewayOfflineThresholdMinutes, in units of time
  Arrangements,  \* homes of the nodes a behaviour may start with
  FirstNames,    \* names of the clusters at the start
  Landings,      \* what the other landing kinds may hold at the start
  Loads,         \* executions per node silver_query_execution may hold
  MaxTime,       \* bound: units of time, one collection in each
  MaxChanges     \* bound: nodes going up or down or moving, and renamings

None == "none"
Label == Clusters \X Names                 \* GatewayClusterId, -Name
NoLabel == <<None, None>>
Row == [node: Nodes \cup {None}, label: Label \cup {NoLabel}, live: BOOLEAN,
        at: 0..MaxTime]
LoadRow == [label: Label, hottest: Nodes, peakOf: Label]
Before == {"network", "events", "disk"}    \* ingested before the inventory
Other == Before \cup {"mashup"}
Content == {"absent", "empty", "rows"}
Tables == {"health", "performance", "load", "dim"}

ASSUME FleetConstants ==
  /\ Nodes # {} /\ IsFiniteSet(Nodes) /\ None \notin Nodes \cup Clusters
  /\ Arrangements \subseteq [Nodes -> Clusters]
  /\ FirstNames \in [Clusters -> Names]
  /\ Landings \subseteq [Other -> Content]
  /\ Loads \subseteq [Nodes -> Nat]
  /\ {Threshold, MaxTime, MaxChanges} \subseteq Nat

VARIABLES
  now,
  up, home, nameOf,  \* running nodes, their clusters (None: removed), the names
  since,       \* since when a node has been as it is
  changes,     \* changes of the fleet so far
  collector,   \* the listing in progress: its start, clusters left, rows
  landing,     \* inventory files: [at, failed clusters, rows]
  others,      \* content of the other landing kinds
  bronze,      \* the inventory files ingested
  queries,     \* silver_query_execution: executions per node
  at,          \* the step the pipeline is at, or "idle"
  run,         \* tables this run of the pipeline has written
  health, performance, load, dim

fleet == <<up, home, nameOf, since, changes>>
tables == <<health, performance, load, dim>>
pipeline == <<bronze, queries, at, run, tables>>
vars == <<now, fleet, collector, landing, others, pipeline>>

NotCollecting == [at |-> -1, left |-> {}, failed |-> {}, rows |-> {}]

Init ==
  /\ now = 0 /\ changes = 0
  /\ up = [n \in Nodes |-> TRUE] /\ home \in Arrangements
  /\ nameOf = FirstNames /\ since = [n \in Nodes |-> 0]
  /\ collector = NotCollecting /\ landing = {}
  /\ others \in Landings
  /\ bronze = {} /\ queries = [n \in Nodes |-> 0]
  /\ at = "idle" /\ run = {}
  /\ health = {} /\ performance = queries
  /\ load = [stats |-> {}, rows |-> {}] /\ dim = {}

--------------------------------------------------------------------------------
(* The gateways and what else feeds the lakehouse.                         *)

Tick ==
  /\ now < MaxTime /\ now' = now + 1
  /\ UNCHANGED <<fleet, collector, landing, others, pipeline>>

NodeChanges(n) ==
  /\ changes < MaxChanges /\ changes' = changes + 1
  /\ since' = [since EXCEPT ![n] = now]
  /\ \/ up' = [up EXCEPT ![n] = ~@] /\ UNCHANGED home
     \/ \E c \in (Clusters \cup {None}) \ {home[n]} :
          home' = [home EXCEPT ![n] = c] /\ UNCHANGED up
  /\ UNCHANGED <<now, nameOf, collector, landing, others, pipeline>>

ClusterRenamed(c) ==
  /\ changes < MaxChanges /\ changes' = changes + 1
  /\ \E name \in Names \ {nameOf[c]} : nameOf' = [nameOf EXCEPT ![c] = name]
  /\ UNCHANGED <<now, up, home, since, collector, landing, others,
                 pipeline>>

(* A file with records lands among the empty ones of a kind.               *)
OtherLands(k) ==
  /\ others[k] = "empty" /\ others' = [others EXCEPT ![k] = "rows"]
  /\ UNCHANGED <<now, fleet, collector, landing, pipeline>>

--------------------------------------------------------------------------------
(* Get-GatewayInventory.ps1.                                               *)

(* The collection is dated at its start; clusters are then listed one by   *)
(* one.  Without a connection or the list of clusters it ends with no file.*)
StartCollecting ==
  /\ collector = NotCollecting /\ \A f \in landing : f.at # now
  /\ collector' = [at |-> now, left |-> Clusters, failed |-> {}, rows |-> {}]
  /\ UNCHANGED <<now, fleet, landing, others, pipeline>>

(* Members listed without the name of their cluster.                       *)
ListCluster_NoName(c) ==
  /\ c \in collector.left
  /\ \/ collector' = [collector EXCEPT !.left = @ \ {c}, !.failed = @ \cup {c}]
     \/ collector' = [collector EXCEPT !.left = @ \ {c}, !.rows = @ \cup
          {[node |-> n, label |-> <<c, None>>, live |-> up[n],
            at |-> collector.at] : n \in {m \in Nodes : home[m] = c}}]
  /\ UNCHANGED <<now, fleet, landing, others, pipeline>>

(* The members of a cluster with their state, or a failure that is noted   *)
(* and passed over.                                                        *)
ListCluster(c) ==
  /\ c \in collector.left
  /\ \/ collector' = [collector EXCEPT !.left = @ \ {c}, !.failed = @ \cup {c}]
     \/ collector' = [collector EXCEPT !.left = @ \ {c}, !.rows = @ \cup
          {[node |-> n, label |-> <<c, nameOf[c]>>, live |-> up[n],
            at |-> collector.at] : n \in {m \in Nodes : home[m] = c}}]
  /\ UNCHANGED <<now, fleet, landing, others, pipeline>>

(* The file is written even with no member in it.                          *)
WriteInventory ==
  /\ collector # NotCollecting /\ collector.left = {}
  /\ landing' = landing \cup {[at |-> collector.at, failed |-> collector.failed,
                               rows |-> collector.rows]}
  /\ collector' = NotCollecting
  /\ UNCHANGED <<now, fleet, others, pipeline>>

CollectorStops ==
  /\ collector # NotCollecting /\ collector' = NotCollecting
  /\ UNCHANGED <<now, fleet, landing, others, pipeline>>

--------------------------------------------------------------------------------
(* The pipeline: 01_bronze_ingest.py, without the kinds of the triage that *)
(* Medallion models, 02_silver_correlate.py, 03_gold_aggregate.py.         *)

After == [idle |-> "network", network |-> "events", events |-> "disk",
          disk |-> "inventory", inventory |-> "datasources",
          datasources |-> "mashup", mashup |-> "silver", silver |-> "health",
          health |-> "performance", performance |-> "load", load |-> "dim",
          dim |-> "idle"]
Kinds == Other \cup {"inventory", "datasources"}

StartPipeline ==
  /\ at = "idle" /\ at' = After[at] /\ run' = {}
  /\ UNCHANGED <<now, fleet, collector, landing, others, bronze, queries, tables>>

PipelineStops ==
  /\ at # "idle" /\ at' = "idle"
  /\ UNCHANGED <<now, fleet, collector, landing, others, bronze, queries, run, tables>>

(* What the files of a kind may hold; every datasource list may have failed.*)
Contents(k) ==
  CASE k \in Other                       -> {others[k]}
    [] k \notin Other /\ landing = {}    -> {"absent"}
    [] k = "datasources" /\ landing # {} -> {"empty", "rows"}
    [] k = "inventory" /\ landing # {}   -> IF \E f \in landing : f.rows # {}
                                             THEN {"rows"} ELSE {"empty"}

(* Ingestion that overwrites the table with the newest file.               *)
Ingest_NewestOnly(k) ==
  /\ at = k
  /\ \E content \in Contents(k) :
       /\ at' = IF content = "empty" THEN "idle" ELSE After[k]
       /\ bronze' = IF k = "inventory" /\ content = "rows"
                      THEN {f \in landing : \A g \in landing : g.at <= f.at} ELSE bronze
  /\ UNCHANGED <<now, fleet, collector, landing, others, queries, run, tables>>

(* A kind without structure that is passed over.                           *)
Ingest_PassOver(k) ==
  /\ at = k /\ at' = After[k]
  /\ \E content \in Contents(k) :
       bronze' = IF k = "inventory" /\ content = "rows" THEN landing ELSE bronze
  /\ UNCHANGED <<now, fleet, collector, landing, others, queries, run, tables>>

(* A kind with no file is skipped; where no file of a kind has a record,   *)
(* Spark infers no structure for it, selecting its fields raises, and the  *)
(* pipeline ends.  Otherwise every file of the kind is read again and      *)
(* appended; of the inventory only whether a file is in the table matters. *)
Ingest(k) ==
  /\ at = k
  /\ \E content \in Contents(k) :
       /\ at' = IF content = "empty" THEN "idle" ELSE After[k]
       /\ bronze' = IF k = "inventory" /\ content = "rows" THEN landing ELSE bronze
  /\ UNCHANGED <<now, fleet, collector, landing, others, queries, run, tables>>

(* More executions reach silver_query_execution.                           *)
Correlate ==
  /\ at = "silver" /\ at' = After[at]
  /\ queries' \in {q \in Loads \cup {queries} : \A n \in Nodes : q[n] >= queries[n]}
  /\ UNCHANGED <<now, fleet, collector, landing, others, bronze, run, tables>>

(* bronze_gateway_inventory.  explode_outer gives a file without members   *)
(* one row of nulls.                                                       *)
FileRows(f) ==
  IF f.rows = {} THEN {[node |-> None, label |-> NoLabel, live |-> FALSE, at |-> f.at]}
                 ELSE f.rows
Inventory == UNION {FileRows(f) : f \in bronze}

--------------------------------------------------------------------------------
(* 03_gold_aggregate.py: four tables in turn, each overwritten as a whole. *)

(* read_silver takes every exception for a missing table, so a table may   *)
(* stay as an earlier run wrote it in any run, and does before the first   *)
(* listing, or the first execution, is in the lakehouse.                   *)
Leave ==
  /\ at \in Tables /\ at' = After[at]
  /\ UNCHANGED <<now, fleet, collector, landing, others, bronze, queries, run, tables>>

Wrote(table) ==
  /\ at = table /\ at' = After[at] /\ run' = run \cup {table}
  /\ UNCHANGED <<now, fleet, collector, landing, others, bronze, queries>>

(* Listings of any status taken for heartbeats.                            *)
LiveAt_AnyStatus(n) == {r.at : r \in {x \in Inventory : x.node = n}}

(* build_gold_gateway_health: the nodes that ever were Live, the last time *)
(* they were and its age now.  status_current is the status of such a row. *)
LiveAt(n) == {r.at : r \in {x \in Inventory : x.live /\ x.node = n}}
(* The first heartbeat in place of the last.                               *)
Heartbeat_First(n) == CHOOSE t \in LiveAt(n) : \A u \in LiveAt(n) : t <= u

Heartbeat(n) == CHOOSE t \in LiveAt(n) : \A u \in LiveAt(n) : u <= t
BuildHealth ==
  /\ Wrote("health") /\ bronze # {}
  /\ health' = {[node |-> n, heartbeat |-> Heartbeat(n), age |-> now - Heartbeat(n)] :
                n \in {m \in Nodes : LiveAt(m) # {}}}
  /\ UNCHANGED <<performance, load, dim>>

(* build_gold_query_performance: the executions per node.                  *)
BuildPerformance ==
  /\ Wrote("performance") /\ performance' = queries
  /\ UNCHANGED <<health, load, dim>>

(* Population instead of sample deviation.                                 *)
CvExceeds_Population(x, limit) ==
  LET n == Cardinality(DOMAIN x)
      s == SumFunction(x)
      q == SumFunction([i \in DOMAIN x |-> x[i] * x[i]])
  IN 2000 * 2000 * (n * q - s * s) >= limit * limit * s * s

(* round(cv, 3) > t for the sample coefficient of variation cv of the      *)
(* counts x: cv is at least t and half a thousandth, squared and cleared   *)
(* of fractions.  A limit counts half thousandths.                         *)
CvExceeds(x, limit) ==
  LET n == Cardinality(DOMAIN x)
      s == SumFunction(x)
      q == SumFunction([i \in DOMAIN x |-> x[i] * x[i]])
  IN 2000 * 2000 * n * (n * q - s * s) >= limit * limit * (n - 1) * s * s

(* One node has no deviation; otherwise the thresholds 0.2, 0.5 and 0.8.   *)
SkewOf(x) ==
  IF Cardinality(DOMAIN x) = 1 THEN "single"
  ELSE LET passed == {limit \in {401, 1001, 1601} : CvExceeds(x, limit)}
       IN <<"balanced", "slight", "moderate", "severe">>[Cardinality(passed) + 1]

(* cluster_map, dropDuplicates: some one label a node was ever listed with.*)
Listed == {r.node : r \in Inventory} \cap Nodes
LabelsOf(n) == {r.label : r \in {x \in Inventory : x.node = n}}
(* A cluster map without dropDuplicates.                                   *)
Maps_AllLabels == {[n \in Listed |-> LabelsOf(n)]}

Maps == {m \in [Listed -> SUBSET Label] :
           \A n \in Listed : \E l \in LabelsOf(n) : m[n] = {l}}

(* The nodes of a label that ran queries, with their counts.               *)
Statistics(map) ==
  LET active(l) == {n \in Listed : queries[n] > 0 /\ l \in map[n]}
      counts(l) == [n \in active(l) |-> queries[n]]
  IN {[label |-> l, counts |-> counts(l), skew |-> SkewOf(counts(l))] :
      l \in {k \in Label : active(k) # {}}}
Peak(s) == CHOOSE p \in Range(s.counts) : \A q \in Range(s.counts) : q <= p

(* The hottest node joined by the hour alone.                              *)
Hottest_ByHour(stats) ==
  {r \in LoadRow : \E s, p \in stats :
     /\ r.label = s.label /\ r.peakOf = p.label
     /\ r.hottest \in DOMAIN p.counts /\ p.counts[r.hottest] = Peak(p)}

(* hottest_node is joined by cluster id and hour alone, both when the peak *)
(* is looked up and when the node is put back: for a label, every active   *)
(* node of its cluster id whose count is the peak of a label of that id.   *)
Hottest(stats) ==
  {r \in LoadRow : \E s, x, p \in stats :
     /\ r.label = s.label /\ r.peakOf = p.label
     /\ x.label[1] = s.label[1] /\ p.label[1] = s.label[1]
     /\ r.hottest \in DOMAIN x.counts /\ x.counts[r.hottest] = Peak(p)}

BuildLoad ==
  /\ Wrote("load") /\ bronze # {}
  /\ \E map \in Maps :
       LET stats == Statistics(map)
       IN load' = [stats |-> stats, rows |-> Hottest(stats)]
  /\ UNCHANGED <<health, performance, dim>>

(* The dimension's latest row taken without an order.                      *)
Latest_AnyRow(n) == {r \in Inventory : r.node = n}

(* build_gold_dim_gateway: a latest row per node, ties broken in any way;  *)
(* the nulls of an empty listing are a node of their own.                  *)
Latest(n) == {r \in Inventory : r.node = n
                /\ \A s \in Inventory : s.node = n => s.at <= r.at}
BuildDim ==
  /\ Wrote("dim") /\ bronze # {}
  /\ LET nodes == {r.node : r \in Inventory} IN
     \E choice \in [nodes -> Inventory] :
       /\ \A n \in nodes : choice[n] \in Latest(n)
       /\ dim' = {choice[n] : n \in nodes}
  /\ UNCHANGED <<health, performance, load>>

--------------------------------------------------------------------------------
Fleet == \/ Tick \/ \E n \in Nodes : NodeChanges(n)
         \/ \E c \in Clusters : ClusterRenamed(c)
         \/ \E k \in Other : OtherLands(k)
Collect == \/ StartCollecting \/ WriteInventory \/ CollectorStops
           \/ \E c \in Clusters : ListCluster(c)
Pipeline == \/ StartPipeline \/ PipelineStops \/ Correlate \/ Leave
            \/ \E k \in Kinds : Ingest(k)
            \/ BuildHealth \/ BuildPerformance \/ BuildLoad \/ BuildDim

Next == Fleet \/ Collect \/ Pipeline

Spec == Init /\ [][Next]_vars

--------------------------------------------------------------------------------
(* Types: the fleet, the files and the four gold tables.                   *)
TypeOK ==
  /\ now \in 0..MaxTime /\ changes \in 0..MaxChanges
  /\ up \in [Nodes -> BOOLEAN] /\ home \in [Nodes -> Clusters \cup {None}]
  /\ nameOf \in [Clusters -> Names] /\ since \in [Nodes -> 0..MaxTime]
  /\ collector \in [at: -1..MaxTime, left: SUBSET Clusters,
                    failed: SUBSET Clusters, rows: SUBSET Row]
  /\ landing \subseteq [at: 0..MaxTime, failed: SUBSET Clusters,
                        rows: SUBSET Row]
  /\ bronze \subseteq landing /\ others \in [Other -> Content]
  /\ at \in DOMAIN After /\ run \subseteq Tables
  /\ {queries, performance} \subseteq [Nodes -> Nat]
  /\ health \subseteq [node: Nodes, heartbeat: 0..MaxTime, age: 0..MaxTime]
  /\ \A s \in load.stats : s.label \in Label /\ DOMAIN s.counts \subseteq Nodes
  /\ load.rows \subseteq LoadRow
  /\ dim \subseteq Row

(* An offline alarm on a node that is in fact up is explained by what the  *)
(* notebook could read: every listing later than the heartbeat, of the     *)
(* time the node has been up where it is, failed for its cluster.          *)
FalseAlarmIsExplained ==
  [][health' # health =>
       \A r \in health' : up[r.node] /\ r.age > Threshold =>
         \A f \in bronze : f.at > r.heartbeat /\ f.at > since[r.node] =>
           home[r.node] \in f.failed \cup {None}]_vars

(* A node that is down shows no heartbeat from after it went down, so its  *)
(* age passes the threshold once it has been down that long, whatever was  *)
(* listed, lost or ingested late.                                          *)
DownNodeAges ==
  [][health' # health =>
       \A r \in health' : ~up[r.node] => r.heartbeat <= since[r.node]]_vars

(* A node once in the heartbeat table is in it for ever: bronze is         *)
(* append-only, so an offline node does not vanish, and a removed one does *)
(* not either.                                                             *)
NodeNeverLeaves ==
  [][{r.node : r \in health} \subseteq {r.node : r \in health'}]_vars

(* A landing kind whose files hold no record keeps every inventory listing *)
(* out of bronze: the heartbeat waits for the other collectors.            *)
HeartbeatWaitsForOthers ==
  [][bronze' # bronze => \A k \in Before : others[k] # "empty"]_vars

(* The rows of a load table whose total counts a node, and what duplicates *)
(* them: a tie of its label's busiest nodes, or a second label of the id.  *)
RowsFor(table, n) ==
  {r \in table.rows : \E s \in table.stats : r.label = s.label /\ n \in DOMAIN s.counts}
JoinsMix(table, n) ==
  \E s \in table.stats :
    /\ n \in DOMAIN s.counts
    /\ \/ \E t \in table.stats : t # s /\ t.label[1] = s.label[1]
       \/ \E m, k \in DOMAIN s.counts :
            m # k /\ s.counts[m] = Peak(s) /\ s.counts[k] = Peak(s)

(* No execution of a listed node is missing from the rows of the load      *)
(* table, and none is in the total of two of them, whatever labels the     *)
(* node was ever listed with, unless the hottest node's join by id and     *)
(* hour duplicates the row: on a tie, or after the cluster was renamed.    *)
LoadIsConserved ==
  [][load' # load =>
       \A n \in Listed : queries[n] > 0 =>
         /\ RowsFor(load', n) # {}
         /\ Cardinality(RowsFor(load', n)) = 1 \/ JoinsMix(load', n)
         /\ \A s \in load'.stats : n \in DOMAIN s.counts => s.counts[n] = queries[n]]_vars

(* A label has one row, of its busiest node, unless nodes tie or the       *)
(* cluster was renamed: then the joins by id alone mix the labels.         *)
HottestRowIsUnique ==
  \A s \in load.stats :
    LET rows == {r \in load.rows : r.label = s.label}
        busiest == {n \in DOMAIN s.counts : s.counts[n] = Peak(s)}
    IN /\ rows # {}
       /\ (\A t \in load.stats : t.label[1] = s.label[1] => t = s)
            => {r.hottest : r \in rows} = busiest
               /\ Cardinality(rows) = Cardinality(busiest)

(* Skew is seen only among nodes that ran queries: a cluster whose         *)
(* executions all fall on one node is never called skewed, and of two      *)
(* active nodes "severe" means more than three quarters on one, "balanced" *)
(* no more than four sevenths.                                             *)
SkewIsAmongTheActive ==
  \A s \in load.stats :
    LET total == SumFunction(s.counts) IN
    /\ s.skew = "single" <=> Cardinality(DOMAIN s.counts) = 1
    /\ Cardinality(DOMAIN s.counts) = 2 =>
         /\ s.skew = "severe" => 4 * Peak(s) > 3 * total
         /\ s.skew = "balanced" => 7 * Peak(s) <= 4 * total

(* The tables one run has written agree as far as their order allows: the  *)
(* dimension knows every node with a heartbeat, from no earlier a listing, *)
(* and the load counts no fewer executions of a node than the performance  *)
(* table; the dimension's row of nulls comes from an empty listing.        *)
TablesOfARunAgree ==
  /\ {"health", "dim"} \subseteq run =>
       \A h \in health : \E d \in dim : d.node = h.node /\ d.at >= h.heartbeat
  /\ {"performance", "load"} \subseteq run =>
       \A s \in load.stats, n \in Nodes :
         n \in DOMAIN s.counts => s.counts[n] >= performance[n]
  /\ \A d \in dim : d.node = None => \E f \in bronze : f.rows = {} /\ f.at = d.at

================================================================================
