-------------------------- MODULE GatewayFleetProofs ---------------------------
(***************************************************************************)
(* What the heartbeat and load tables say of the fleet, for any number of  *)
(* nodes, clusters, renamings, listings and runs of the pipeline.          *)
(*                                                                         *)
(* The invariant follows a listing from the collector's memory to bronze:  *)
(* every row is of a node and a label that exist, is dated no later than   *)
(* now, and shows a node Live no later than it last went down.  Nothing is *)
(* ever taken out of bronze, and the pipeline gets to the inventory only   *)
(* past the kinds before it.                                               *)
(*                                                                         *)
(* A second invariant, Full, adds the types, that a listing is complete    *)
(* but for the clusters it records as failed, the order in which a run     *)
(* writes the gold tables, and what these then say of each other.          *)
(***************************************************************************)
EXTENDS GatewayFleet, FiniteSetTheorems, Folds, WellFoundedInduction, TLAPS

NodeRow == [node: Nodes, label: Label, live: BOOLEAN, at: 0..MaxTime]

(* The fleet and the collector.                                            *)
FleetOK ==
  /\ now \in 0..MaxTime /\ changes \in 0..MaxChanges
  /\ up \in [Nodes -> BOOLEAN] /\ home \in [Nodes -> Clusters \cup {None}]
  /\ nameOf \in [Clusters -> Names] /\ since \in [Nodes -> 0..MaxTime]

(* A row of a listing: no later than now, and of a node that is down no    *)
(* Live row is later than its going down.                                  *)
Recorded(r) ==
  /\ r \in NodeRow /\ r.at <= now
  /\ r.live /\ ~up[r.node] => r.at <= since[r.node]

CollectorOK ==
  /\ collector \in [at: -1..MaxTime, left: SUBSET Clusters, failed: SUBSET Clusters,
                    rows: SUBSET NodeRow]
  /\ collector = NotCollecting \/ collector.at \in 0..now
  /\ \A r \in collector.rows : Recorded(r)

ListingsOK ==
  /\ landing \subseteq [at: 0..MaxTime, failed: SUBSET Clusters, rows: SUBSET NodeRow]
  /\ \A f \in landing : \A r \in f.rows : Recorded(r)

(* What bronze holds landed, and a node that is in the heartbeat table was *)
(* Live in it.                                                             *)
BronzeOK ==
  /\ bronze \subseteq landing
  /\ \A r \in health : r.node \in Nodes /\ LiveAt(r.node) # {}

(* The pipeline is past a kind only if it held a record or no file.        *)
OthersOK ==
  /\ others \in [Other -> Content] /\ at \in DOMAIN After
  /\ at \in {"events", "disk", "inventory"} => others["network"] # "empty"
  /\ at \in {"disk", "inventory"} => others["events"] # "empty"
  /\ at = "inventory" => others["disk"] # "empty"

IInv == FleetOK /\ CollectorOK /\ ListingsOK /\ BronzeOK /\ OthersOK

--------------------------------------------------------------------------------
LEMMA InitIInv == Init => IInv
BY FleetConstants
   DEF Init, IInv, FleetOK, CollectorOK, ListingsOK, BronzeOK, OthersOK, NotCollecting,
       After, Other, Before, Content, Label

(* Rows stay recorded while the clock and the fleet move on.               *)
LEMMA StaysRecorded ==
  ASSUME FleetOK, NEW r, Recorded(r), now' \in now..MaxTime,
         since' \in [Nodes -> 0..MaxTime], up' \in [Nodes -> BOOLEAN],
         \A n \in Nodes : UNCHANGED <<up[n], since[n]>> \/ since'[n] = now
  PROVE  Recorded(r)'
BY FleetConstants DEF FleetOK, Recorded, NodeRow

(* What a step of the fleet must do for the rest of the invariant.         *)
LEMMA FleetKeeps ==
  ASSUME IInv, FleetOK', now' \in now..MaxTime,
         \A n \in Nodes : UNCHANGED <<up[n], since[n]>> \/ since'[n] = now,
         UNCHANGED <<collector, landing, bronze, health, at, others>>
  PROVE  IInv'
<1>1. ASSUME NEW r, Recorded(r) PROVE Recorded(r)'
  BY <1>1, StaysRecorded DEF IInv, FleetOK
<1>2. CollectorOK'
  BY <1>1, FleetConstants DEF IInv, CollectorOK, FleetOK
<1>3. ListingsOK'
  BY <1>1 DEF IInv, ListingsOK
<1>4. BronzeOK'
  BY DEF IInv, BronzeOK, LiveAt, Inventory
<1>5. OthersOK'
  BY DEF IInv, OthersOK
<1> QED BY <1>2, <1>3, <1>4, <1>5 DEF IInv

LEMMA TickKeeps == ASSUME IInv, Tick PROVE IInv'
<1>1. FleetOK' /\ now' \in now..MaxTime
  BY FleetConstants DEF Tick, fleet, IInv, FleetOK
<1> QED BY <1>1, FleetKeeps DEF Tick, fleet, pipeline, tables

LEMMA NodeKeeps == ASSUME IInv, NEW n \in Nodes, NodeChanges(n) PROVE IInv'
<1>1. FleetOK' /\ now' \in now..MaxTime
  <2>1. UNCHANGED <<now, nameOf>> /\ changes' \in 0..MaxChanges
    BY FleetConstants DEF NodeChanges, IInv, FleetOK
  <2>2. now \in now..MaxTime
    BY FleetConstants DEF IInv, FleetOK
  <2>3. since' \in [Nodes -> 0..MaxTime]
    BY DEF NodeChanges, IInv, FleetOK
  <2>4. up[n] \in BOOLEAN /\ (~up[n]) \in BOOLEAN
    BY DEF IInv, FleetOK
  <2>5. up' \in [Nodes -> BOOLEAN]
    BY <2>4 DEF NodeChanges, IInv, FleetOK
  <2>6. home' \in [Nodes -> Clusters \cup {None}]
    BY DEF NodeChanges, IInv, FleetOK
  <2> QED BY <2>1, <2>2, <2>3, <2>5, <2>6 DEF IInv, FleetOK
<1>2. \A m \in Nodes : UNCHANGED <<up[m], since[m]>> \/ since'[m] = now
  BY DEF NodeChanges, IInv, FleetOK
<1> QED BY <1>1, <1>2, FleetKeeps DEF NodeChanges, pipeline, tables

LEMMA RenameKeeps == ASSUME IInv, NEW c \in Clusters, ClusterRenamed(c) PROVE IInv'
<1>1. FleetOK' /\ now' \in now..MaxTime
  BY FleetConstants DEF ClusterRenamed, IInv, FleetOK
<1> QED BY <1>1, FleetKeeps DEF ClusterRenamed, pipeline, tables

--------------------------------------------------------------------------------
(* The collector: a listing is recorded at a time between its start and    *)
(* now, when the node was up if it is shown Live.                          *)
LEMMA ListKeeps == ASSUME IInv, NEW c \in Clusters, ListCluster(c) PROVE CollectorOK'
<1>1. collector.at \in 0..now /\ collector.at \in 0..MaxTime
  BY FleetConstants DEF ListCluster, IInv, CollectorOK, NotCollecting, FleetOK
<1>2. CASE collector' = [collector EXCEPT !.left = @ \ {c}, !.failed = @ \cup {c}]
  BY <1>1, <1>2 DEF ListCluster, IInv, CollectorOK, Recorded, fleet
<1>3. CASE collector' = [collector EXCEPT !.left = @ \ {c}, !.rows = @ \cup
          {[node |-> n, label |-> <<c, nameOf[c]>>, live |-> up[n],
            at |-> collector.at] : n \in {m \in Nodes : home[m] = c}}]
  <2>1. ASSUME NEW n \in Nodes
        PROVE  Recorded([node |-> n, label |-> <<c, nameOf[c]>>, live |-> up[n],
                         at |-> collector.at])
    BY <1>1 DEF IInv, FleetOK, Recorded, NodeRow, Label
  <2>2. \A r \in collector'.rows : Recorded(r)
    BY <1>3, <2>1 DEF IInv, CollectorOK
  <2>3. collector' \in [at: -1..MaxTime, left: SUBSET Clusters, failed: SUBSET Clusters,
                        rows: SUBSET NodeRow]
    BY <1>3, <2>2 DEF IInv, CollectorOK, Recorded
  <2>4. collector'.at = collector.at
    BY <1>3 DEF IInv, CollectorOK
  <2> QED BY <1>1, <2>2, <2>3, <2>4 DEF ListCluster, CollectorOK, Recorded, fleet
<1> QED BY <1>2, <1>3 DEF ListCluster

LEMMA CollectKeeps == ASSUME IInv, Collect PROVE IInv'
<1>1. FleetOK' /\ OthersOK'
  BY DEF Collect, StartCollecting, ListCluster, WriteInventory, CollectorStops, fleet,
         pipeline, tables, IInv, FleetOK, OthersOK
<1>2. landing \subseteq landing' /\ UNCHANGED <<bronze, health>>
  BY DEF Collect, StartCollecting, ListCluster, WriteInventory, CollectorStops, pipeline, tables
<1>3. BronzeOK'
  BY <1>2 DEF IInv, BronzeOK, LiveAt, Inventory
<1>4. UNCHANGED <<now, up, since>>
  BY DEF Collect, StartCollecting, ListCluster, WriteInventory, CollectorStops, fleet
<1>5. ListingsOK'
  <2>1. CASE WriteInventory
    <3>1. collector \in [at: 0..now, left: SUBSET Clusters, failed: SUBSET Clusters,
                         rows: SUBSET NodeRow]
      BY <2>1 DEF WriteInventory, IInv, CollectorOK
    <3>2. 0..now \subseteq 0..MaxTime
      BY FleetConstants DEF IInv, FleetOK
    <3>3. [at |-> collector.at, failed |-> collector.failed, rows |-> collector.rows]
            \in [at: 0..MaxTime, failed: SUBSET Clusters, rows: SUBSET NodeRow]
      BY <3>1, <3>2
    <3>4. \A r \in collector.rows : Recorded(r)
      BY DEF IInv, CollectorOK
    <3> QED BY <2>1, <3>3, <3>4, <1>4 DEF WriteInventory, IInv, ListingsOK, Recorded
  <2>2. CASE UNCHANGED landing
    BY <2>2, <1>4 DEF IInv, ListingsOK, Recorded
  <2> QED BY <2>1, <2>2 DEF Collect, StartCollecting, ListCluster, CollectorStops
<1>6. CollectorOK'
  <2>1. CASE StartCollecting
    BY <2>1, FleetConstants DEF StartCollecting, IInv, FleetOK, CollectorOK, fleet
  <2>2. ASSUME NEW c \in Clusters, ListCluster(c) PROVE CollectorOK'
    BY <2>2, ListKeeps
  <2>3. CASE collector' = NotCollecting
    BY <2>3, FleetConstants DEF CollectorOK, NotCollecting
  <2> QED BY <2>1, <2>2, <2>3 DEF Collect, WriteInventory, CollectorStops
<1> QED BY <1>1, <1>3, <1>5, <1>6 DEF IInv

--------------------------------------------------------------------------------
(* The pipeline: it touches neither the fleet nor the collector.           *)
LEMMA PipelineFrame ==
  ASSUME IInv, UNCHANGED <<now, fleet, collector, landing>>
  PROVE  FleetOK' /\ CollectorOK' /\ ListingsOK'
BY DEF IInv, fleet, FleetOK, CollectorOK, ListingsOK, Recorded

LEMMA OthersKeep == ASSUME IInv, NEW k \in Other, OtherLands(k) PROVE IInv'
<1>1. FleetOK' /\ CollectorOK' /\ ListingsOK'
  BY PipelineFrame DEF OtherLands
<1>2. BronzeOK'
  BY DEF OtherLands, pipeline, tables, IInv, BronzeOK, LiveAt, Inventory
<1>3. others' \in [Other -> Content] /\ \A x \in Other : others[x] # "empty" => others'[x] # "empty"
  BY DEF OtherLands, IInv, OthersOK, Content
<1>4. OthersOK'
  BY <1>3 DEF OtherLands, pipeline, IInv, OthersOK, Other, Before
<1> QED BY <1>1, <1>2, <1>4 DEF IInv

(* Ingestion leaves bronze alone or makes it all that has landed.          *)
LEMMA IngestKeeps == ASSUME IInv, NEW k \in Kinds, Ingest(k) PROVE IInv'
<1>1. FleetOK' /\ CollectorOK' /\ ListingsOK'
  BY PipelineFrame DEF Ingest
<1>2. bronze' \in {bronze, landing} /\ UNCHANGED <<landing, health>>
  BY DEF Ingest, tables
<1>3. BronzeOK'
  BY <1>2 DEF IInv, BronzeOK, LiveAt, Inventory
<1>4. OthersOK'
  <2>1. others' = others /\ at = k /\ (at' = "idle" \/ at' = After[k])
    BY DEF Ingest
  <2>2. k \in Other => at' = "idle" \/ others[k] # "empty"
    BY DEF Ingest, Contents, Other, Before
  <2>3. k \in {"network", "events", "disk", "mashup", "inventory", "datasources"}
    BY DEF Kinds, Other, Before
  <2>4. at' \in {"idle", "datasources", "mashup", "silver"}
           \/ \E x \in Before : k = x /\ others[x] # "empty" /\ at' = After[x]
    BY <2>1, <2>2, <2>3 DEF After, Other, Before
  <2>5. CASE at' \in {"idle", "datasources", "mashup", "silver"}
    BY <2>1, <2>5 DEF IInv, OthersOK, After
  <2>6. ASSUME NEW x \in Before, k = x, others[x] # "empty", at' = After[x] PROVE OthersOK'
    <3>1. CASE x = "network"
      BY <2>1, <2>6, <3>1 DEF IInv, OthersOK, After
    <3>2. CASE x = "events"
      BY <2>1, <2>6, <3>2 DEF IInv, OthersOK, After
    <3>3. CASE x = "disk"
      BY <2>1, <2>6, <3>3 DEF IInv, OthersOK, After
    <3> QED BY <2>6, <3>1, <3>2, <3>3 DEF Before
  <2> QED BY <2>4, <2>5, <2>6
<1> QED BY <1>1, <1>3, <1>4 DEF IInv

(* The heartbeat table is written of the nodes some listing shows Live.    *)
LEMMA HealthKeeps == ASSUME IInv, BuildHealth PROVE IInv'
<1>1. FleetOK' /\ CollectorOK' /\ ListingsOK'
  BY PipelineFrame DEF BuildHealth, Wrote
<1>2. BronzeOK'
  BY DEF BuildHealth, Wrote, IInv, BronzeOK, LiveAt, Inventory
<1>3. OthersOK'
  BY DEF BuildHealth, Wrote, IInv, OthersOK, After
<1> QED BY <1>1, <1>2, <1>3 DEF IInv

(* The remaining steps of the pipeline leave bronze and the heartbeats.    *)
LEMMA RestKeeps ==
  ASSUME IInv, \/ StartPipeline \/ PipelineStops \/ Correlate \/ Leave
               \/ BuildPerformance \/ BuildLoad \/ BuildDim
  PROVE  IInv' /\ UNCHANGED <<bronze, landing, health>>
<1>1. UNCHANGED <<now, fleet, collector, landing, others, bronze, health>>
  BY DEF StartPipeline, PipelineStops, Correlate, Leave, BuildPerformance, BuildLoad,
         BuildDim, Wrote, tables
<1>2. (at' \in {After[at], "idle"} /\ at \in {"idle", "silver"} \cup Tables) \/ at' = "idle"
  BY DEF StartPipeline, PipelineStops, Correlate, Leave, BuildPerformance, BuildLoad,
         BuildDim, Wrote, Tables
<1>3. OthersOK'
  BY <1>1, <1>2 DEF IInv, OthersOK, After, Tables
<1>4. BronzeOK'
  BY <1>1 DEF IInv, BronzeOK, LiveAt, Inventory
<1> QED BY <1>1, <1>3, <1>4, PipelineFrame DEF IInv

LEMMA NextIInv == ASSUME IInv, [Next]_vars PROVE IInv'
<1>1. CASE UNCHANGED vars
  BY <1>1 DEF vars, fleet, pipeline, tables, IInv, FleetOK, CollectorOK, ListingsOK,
     Recorded, BronzeOK, LiveAt, Inventory, OthersOK
<1>2. CASE Fleet
  BY <1>2, TickKeeps, NodeKeeps, RenameKeeps, OthersKeep DEF Fleet
<1>3. CASE Collect
  BY <1>3, CollectKeeps
<1>4. CASE Pipeline
  BY <1>4, IngestKeeps, HealthKeeps, RestKeeps DEF Pipeline
<1> QED BY <1>1, <1>2, <1>3, <1>4 DEF Next

(* The invariant holds in every state the specification reaches.           *)
THEOREM InvariantCorrect == Spec => []IInv
BY InitIInv, NextIInv, PTL DEF Spec

--------------------------------------------------------------------------------
(* bronze only grows.                                                      *)
LEMMA BronzeGrows == ASSUME IInv, [Next]_vars PROVE bronze \subseteq bronze'
<1>1. ASSUME NEW k \in Kinds, Ingest(k) PROVE bronze \subseteq bronze'
  BY <1>1 DEF Ingest, IInv, BronzeOK
<1>2. Fleet \/ Collect \/ UNCHANGED vars \/ BuildHealth => UNCHANGED bronze
  BY DEF Fleet, Tick, NodeChanges, ClusterRenamed, OtherLands, Collect, StartCollecting,
         ListCluster, WriteInventory, CollectorStops, BuildHealth, Wrote, vars, pipeline
<1> QED BY <1>1, <1>2, RestKeeps DEF Next, Pipeline

LEMMA Leaves == ASSUME IInv, [Next]_vars
                PROVE  {r.node : r \in health} \subseteq {r.node : r \in health'}
<1>1. CASE BuildHealth
  <2>1. \A r \in health : r.node \in Nodes /\ LiveAt(r.node) # {}
    BY DEF IInv, BronzeOK
  <2> DEFINE row(n) == [node |-> n, heartbeat |-> Heartbeat(n), age |-> now - Heartbeat(n)]
  <2>2. \A n \in Nodes : LiveAt(n) # {} => row(n) \in health'
    BY <1>1 DEF BuildHealth
  <2>3. \A n : row(n).node = n
    OBVIOUS
  <2> HIDE DEF row
  <2> QED BY <2>1, <2>2, <2>3
<1>2. ASSUME ~BuildHealth PROVE UNCHANGED health
  <2>1. Fleet \/ Collect \/ UNCHANGED vars => UNCHANGED health
    BY DEF Fleet, Tick, NodeChanges, ClusterRenamed, OtherLands, Collect, StartCollecting,
         ListCluster, WriteInventory, CollectorStops, vars, pipeline, tables
  <2>2. \A k \in Kinds : Ingest(k) => UNCHANGED health
    BY DEF Ingest, tables
  <2> QED BY <1>2, <2>1, <2>2, RestKeeps DEF Next, Pipeline
<1> QED BY <1>1, <1>2

(* A node once in the heartbeat table stays in it: bronze, from which the  *)
(* table is recomputed, is append-only.                                    *)
THEOREM NoNodeLeaves == Spec => NodeNeverLeaves
BY InvariantCorrect, Leaves, PTL DEF Spec, NodeNeverLeaves

LEMMA Waits == ASSUME IInv, [Next]_vars, bronze' # bronze
               PROVE  \A k \in Before : others[k] # "empty"
<1>1. Fleet \/ Collect \/ UNCHANGED vars \/ BuildHealth => UNCHANGED bronze
  BY DEF Fleet, Tick, NodeChanges, ClusterRenamed, OtherLands, Collect, StartCollecting,
         ListCluster, WriteInventory, CollectorStops, BuildHealth, Wrote, vars, pipeline
<1>2. PICK k \in Kinds : Ingest(k)
  BY <1>1, RestKeeps DEF Next, Pipeline
<1>3. at = "inventory"
  BY <1>2 DEF Ingest
<1> QED BY <1>3 DEF IInv, OthersOK, Before

(* Listings reach bronze only when no kind ingested before them holds      *)
(* files without a record.                                                 *)
THEOREM HeartbeatWaits == Spec => HeartbeatWaitsForOthers
BY InvariantCorrect, Waits, PTL DEF Spec, HeartbeatWaitsForOthers


--------------------------------------------------------------------------------
(* A heartbeat is the maximum of a bounded set of times.                   *)
Less == {p \in Nat \X Nat : p[1] < p[2]}

LEMMA LessWellFounded == IsWellFoundedOn(Less, Nat)
BY NatLessThanWellFounded DEF OpToRel, Less

LEMMA MaxExists ==
  ASSUME NEW m \in Nat, NEW T \in SUBSET (0..m), T # {}
  PROVE  \E t \in T : \A u \in T : u <= t
<1> DEFINE D == {m - t : t \in T}
<1>0. \A t \in T : t \in 0..m /\ m - t \in Nat /\ m - t \in D
  OBVIOUS
<1>1. D \subseteq Nat /\ D # {}
  BY <1>0
<1>2. PICK x \in D : \A y \in D : ~(<<y, x>> \in Less)
  <2> HIDE DEF D
  <2> QED BY <1>1, LessWellFounded, WFMin
<1>3. \A y \in D : x <= y
  <2> HIDE DEF D
  <2>1. \A y, z \in Nat : y < z => <<y, z>> \in Less
    BY DEF Less
  <2>2. \A y \in D : ~(y < x)
    BY <1>1, <1>2, <2>1
  <2> QED BY <1>1, <2>2
<1>4. PICK t \in T : x = m - t
  OBVIOUS
<1> HIDE DEF D
<1> QED BY <1>0, <1>3, <1>4

(* Bronze shows a node that is down Live no later than it went down.       *)
LEMMA LiveBefore ==
  ASSUME IInv, NEW n \in Nodes, NEW t \in LiveAt(n)
  PROVE  t \in 0..MaxTime /\ (~up[n] => t <= since[n])
<1>1. PICK r \in Inventory : r.live /\ r.node = n /\ t = r.at
  BY DEF LiveAt
<1>2. PICK f \in bronze : r \in FileRows(f)
  BY <1>1 DEF Inventory
<1>3. r \in f.rows
  BY <1>1, <1>2 DEF FileRows
<1>4. Recorded(r)
  BY <1>2, <1>3 DEF IInv, BronzeOK, ListingsOK
<1> QED BY <1>1, <1>4 DEF Recorded, NodeRow

LEMMA HeartbeatIsLatest ==
  ASSUME IInv, NEW n \in Nodes, LiveAt(n) # {}
  PROVE  Heartbeat(n) \in LiveAt(n)
<1>1. LiveAt(n) \in SUBSET (0..MaxTime) /\ MaxTime \in Nat
  BY LiveBefore, FleetConstants
<1>2. \E t \in LiveAt(n) : \A u \in LiveAt(n) : u <= t
  <2> HIDE DEF IInv
  <2> QED BY <1>1, MaxExists
<1> QED BY <1>2 DEF Heartbeat

LEMMA Ages ==
  ASSUME IInv, [Next]_vars, health' # health
  PROVE  \A r \in health' : ~up[r.node] => r.heartbeat <= since[r.node]
<1>1. Fleet \/ Collect \/ UNCHANGED vars => UNCHANGED health
  BY DEF Fleet, Tick, NodeChanges, ClusterRenamed, OtherLands, Collect, StartCollecting,
         ListCluster, WriteInventory, CollectorStops, vars, pipeline, tables
<1>2. \A k \in Kinds : Ingest(k) => UNCHANGED health
  BY DEF Ingest, tables
<1>3. BuildHealth
  BY <1>1, <1>2, RestKeeps DEF Next, Pipeline
<1> SUFFICES ASSUME NEW r \in health', ~up[r.node] PROVE r.heartbeat <= since[r.node]
  OBVIOUS
<1>4. r.node \in Nodes /\ LiveAt(r.node) # {} /\ r.heartbeat = Heartbeat(r.node)
  BY <1>3 DEF BuildHealth
<1> QED BY <1>4, HeartbeatIsLatest, LiveBefore

(* A node that is down has a heartbeat from before it went down in every   *)
(* heartbeat table written since, whatever was listed, lost or late.       *)
THEOREM DownAges == Spec => DownNodeAges
BY InvariantCorrect, Ages, PTL DEF Spec, DownNodeAges

--------------------------------------------------------------------------------
(* The cluster map gives a node one label, so it is counted under one.     *)
LEMMA CountedOnce ==
  ASSUME NEW map \in Maps, NEW n \in Listed, queries[n] > 0
  PROVE  /\ \E x : {s \in Statistics(map) : n \in DOMAIN s.counts} = {x}
         /\ \A s \in Statistics(map) : n \in DOMAIN s.counts => s.counts[n] = queries[n]
<1> DEFINE active(k) == {m \in Listed : queries[m] > 0 /\ k \in map[m]}
           stat(k) == [label |-> k, counts |-> [m \in active(k) |-> queries[m]],
                       skew |-> SkewOf([m \in active(k) |-> queries[m]])]
<1>1. PICK l : map[n] = {l} /\ l \in Label
  BY DEF Maps
<1>2. Statistics(map) = {stat(k) : k \in {j \in Label : active(j) # {}}}
  BY DEF Statistics
<1>3. \A k : n \in active(k) <=> k = l
  BY <1>1
<1>4. \A k : /\ DOMAIN stat(k).counts = active(k)
             /\ \A m \in active(k) : stat(k).counts[m] = queries[m]
  OBVIOUS
<1> HIDE DEF active, stat
<1>5. stat(l) \in Statistics(map)
  BY <1>1, <1>2, <1>3
<1>6. \A s \in Statistics(map) : n \in DOMAIN s.counts <=> s = stat(l)
  BY <1>2, <1>3, <1>4
<1>7. {s \in Statistics(map) : n \in DOMAIN s.counts} = {stat(l)}
  BY <1>5, <1>6
<1> QED BY <1>3, <1>4, <1>6, <1>7

--------------------------------------------------------------------------------
(* Complete listings, the order of a run, and what the gold tables keep.   *)

(* A listing shows a node Live; a node that has not changed since before   *)
(* a listing began is in it where its cluster was listed.                  *)
Shows(f, n) == \E r \in f.rows : r.node = n /\ r.live /\ r.at = f.at

CompleteOK ==
  /\ \A f \in landing : f.at <= now
  /\ \A f \in landing, n \in Nodes :
       up[n] /\ f.at > since[n] => home[n] \in f.failed \cup {None} \/ Shows(f, n)
  /\ \A n \in Nodes :
       up[n] /\ collector.at > since[n] =>
         home[n] \in collector.left \cup collector.failed \cup {None} \/ Shows(collector, n)

(* What a table was made of is still in bronze; a run writes its tables in *)
(* the pipeline's order, and no execution arrives between performance and  *)
(* load.                                                                   *)
RunOK ==
  /\ \A h \in health : h.heartbeat \in LiveAt(h.node)
  /\ dim \subseteq Inventory
  /\ at \in Kinds \cup {"silver", "health"} => run = {}
  /\ at = "performance" => run \subseteq {"health"}
  /\ at = "load" => /\ run \subseteq {"health", "performance"}
                    /\ "performance" \in run => performance = queries
  /\ at = "dim" => run \subseteq {"health", "performance", "load"}

Full == /\ IInv /\ TypeOK /\ CompleteOK /\ RunOK
        /\ TablesOfARunAgree /\ HottestRowIsUnique /\ SkewIsAmongTheActive

--------------------------------------------------------------------------------
(* What bronze says.                                                       *)

(* A row of bronze is a listed member, or the nulls of an empty file.      *)
LEMMA InventoryRows ==
  ASSUME IInv, NEW r \in Inventory
  PROVE  /\ r \in Row
         /\ r.node = None => \E f \in bronze : f.rows = {} /\ f.at = r.at
<1>1. PICK f \in bronze : r \in FileRows(f)
  BY DEF Inventory
<1>2. f \in [at: 0..MaxTime, failed: SUBSET Clusters, rows: SUBSET NodeRow]
  BY <1>1 DEF IInv, BronzeOK, ListingsOK
<1>3. CASE f.rows = {}
  <2>1. r = [node |-> None, label |-> NoLabel, live |-> FALSE, at |-> f.at]
    BY <1>1, <1>3 DEF FileRows
  <2>2. f.at \in 0..MaxTime
    BY <1>2
  <2> QED BY <1>1, <1>3, <2>1, <2>2 DEF Row
<1>4. CASE f.rows # {}
  <2>1. r \in NodeRow
    BY <1>1, <1>2, <1>4 DEF FileRows
  <2> QED BY <2>1, FleetConstants DEF NodeRow, Row
<1> QED BY <1>3, <1>4

LEMMA InventoryGrows ==
  ASSUME IInv, [Next]_vars
  PROVE  /\ Inventory \subseteq Inventory'
         /\ \A n : LiveAt(n) \subseteq LiveAt(n)'
<1>1. bronze \subseteq bronze'
  BY BronzeGrows
<1>2. Inventory \subseteq Inventory'
  BY <1>1 DEF Inventory, FileRows
<1> QED BY <1>2 DEF LiveAt

(* Steps of the fleet and of the collector leave the pipeline alone.       *)
LEMMA OutsidePipeline ==
  ASSUME Fleet \/ Collect \/ UNCHANGED vars PROVE UNCHANGED pipeline
BY DEF Fleet, Tick, NodeChanges, ClusterRenamed, OtherLands, Collect, StartCollecting,
       ListCluster, WriteInventory, CollectorStops, vars

(* Steps of the pipeline leave the fleet and the collector alone.          *)
LEMMA InsidePipeline ==
  ASSUME Pipeline PROVE UNCHANGED <<now, fleet, collector, landing, others>>
BY DEF Pipeline, StartPipeline, PipelineStops, Correlate, Leave, Ingest, BuildHealth,
       BuildPerformance, BuildLoad, BuildDim, Wrote

(* The heartbeat is the latest Live listing, and not of the future.        *)
LEMMA HeartbeatIsMax ==
  ASSUME IInv, NEW n \in Nodes, LiveAt(n) # {}
  PROVE  /\ Heartbeat(n) \in LiveAt(n) /\ Heartbeat(n) \in 0..now
         /\ \A t \in LiveAt(n) : t <= Heartbeat(n)
<1>1. LiveAt(n) \subseteq 0..now /\ now \in Nat
  <2>1. ASSUME NEW t \in LiveAt(n) PROVE t \in 0..now
    <3>1. PICK r \in Inventory : r.live /\ r.node = n /\ t = r.at
      BY DEF LiveAt
    <3>2. PICK f \in bronze : r \in FileRows(f)
      BY <3>1 DEF Inventory
    <3>3. r \in f.rows
      BY <3>1, <3>2 DEF FileRows
    <3>4. Recorded(r)
      BY <3>2, <3>3 DEF IInv, BronzeOK, ListingsOK
    <3> QED BY <3>1, <3>4, FleetConstants DEF Recorded, NodeRow, IInv, FleetOK
  <2> QED BY <2>1, FleetConstants DEF IInv, FleetOK
<1>2. \E t \in LiveAt(n) : \A u \in LiveAt(n) : u <= t
  <2> HIDE DEF IInv
  <2> QED BY <1>1, MaxExists
<1> QED BY <1>1, <1>2 DEF Heartbeat

--------------------------------------------------------------------------------
(* Complete listings.                                                      *)
LEMMA CompleteKeeps == ASSUME Full, [Next]_vars PROVE CompleteOK'
<1>0. /\ FleetOK /\ CollectorOK /\ CompleteOK /\ now \in Nat
      /\ \A n \in Nodes : since[n] \in Nat
      /\ \A f \in landing : f.at \in Nat
  BY FleetConstants DEF Full, IInv, FleetOK, ListingsOK
<1>1. ASSUME UNCHANGED <<up, home, since, collector, landing>>, now' \in {now, now + 1}
      PROVE  CompleteOK'
  BY <1>0, <1>1 DEF CompleteOK, Shows
<1>2. CASE Pipeline \/ UNCHANGED vars
  BY <1>1, <1>2, InsidePipeline DEF fleet, vars
<1>3. ASSUME Tick \/ (\E c \in Clusters : ClusterRenamed(c)) \/ (\E k \in Other : OtherLands(k))
      PROVE  CompleteOK'
  BY <1>1, <1>3 DEF Tick, ClusterRenamed, OtherLands, fleet
<1>4. ASSUME NEW n \in Nodes, NodeChanges(n)
      PROVE  CompleteOK'
  <2>1. /\ UNCHANGED <<now, collector, landing>>
        /\ \A m \in Nodes \ {n} : UNCHANGED <<up[m], home[m], since[m]>>
        /\ since'[n] = now
    BY <1>0, <1>4 DEF NodeChanges, FleetOK
  <2>2. /\ \A f \in landing : ~(f.at > now)
        /\ ~(collector.at > now)
    BY <1>0 DEF CompleteOK, CollectorOK, NotCollecting
  <2> QED BY <1>0, <2>1, <2>2 DEF CompleteOK, Shows
<1>5. CASE StartCollecting
  <2>1. collector'.left = Clusters /\ UNCHANGED <<now, up, home, since, landing>>
    BY <1>5 DEF StartCollecting, fleet
  <2> QED BY <1>0, <2>1 DEF CompleteOK, FleetOK, Shows
<1>6. ASSUME NEW c \in Clusters, ListCluster(c)
      PROVE  CompleteOK'
  <2>1. UNCHANGED <<now, up, home, since, landing>>
    BY <1>6 DEF ListCluster, fleet
  <2>2. collector'.at = collector.at /\ collector.rows \subseteq collector'.rows
    BY <1>0, <1>6 DEF ListCluster, CollectorOK
  <2>3. ASSUME NEW n \in Nodes, up[n], collector.at > since[n]
        PROVE  \/ home[n] \in collector'.left \cup collector'.failed \cup {None}
               \/ Shows(collector', n)
    <3>1. CASE collector' = [collector EXCEPT !.left = @ \ {c}, !.failed = @ \cup {c}]
      BY <1>0, <2>2, <2>3, <3>1 DEF CompleteOK, CollectorOK, Shows
    <3>2. CASE collector' = [collector EXCEPT !.left = @ \ {c}, !.rows = @ \cup
          {[node |-> m, label |-> <<c, nameOf[c]>>, live |-> up[m],
            at |-> collector.at] : m \in {o \in Nodes : home[o] = c}}]
      <4> DEFINE r == [node |-> n, label |-> <<c, nameOf[c]>>, live |-> up[n],
                       at |-> collector.at]
      <4>1. collector'.left = collector.left \ {c} /\ collector'.failed = collector.failed
        BY <1>0, <3>2 DEF CollectorOK
      <4>2. home[n] = c => r \in collector'.rows
        BY <1>0, <3>2 DEF CollectorOK
      <4>3. r.node = n /\ r.live = up[n] /\ r.at = collector.at
        OBVIOUS
      <4>4. home[n] = c => Shows(collector', n)
        <5> HIDE DEF r
        <5> QED BY <2>2, <2>3, <4>2, <4>3 DEF Shows
      <4>5. Shows(collector, n) => Shows(collector', n)
        BY <2>2 DEF Shows
      <4> QED BY <1>0, <2>3, <4>1, <4>4, <4>5 DEF CompleteOK
    <3> QED BY <1>6, <3>1, <3>2 DEF ListCluster
  <2> QED BY <1>0, <2>1, <2>2, <2>3 DEF CompleteOK, Shows
<1>7. CASE WriteInventory
  <2> DEFINE g == [at |-> collector.at, failed |-> collector.failed, rows |-> collector.rows]
  <2>1. /\ UNCHANGED <<now, up, home, since>> /\ landing' = landing \cup {g}
        /\ collector' = NotCollecting /\ collector.left = {} /\ collector # NotCollecting
    BY <1>7 DEF WriteInventory, fleet
  <2>2. g.at <= now
    BY <1>0, <2>1 DEF CollectorOK
  <2>3. \A n \in Nodes : up[n] /\ g.at > since[n] =>
          home[n] \in g.failed \cup {None} \/ Shows(g, n)
    BY <1>0, <2>1 DEF CompleteOK, Shows
  <2>4. collector'.at = -1
    BY <2>1 DEF NotCollecting
  <2> HIDE DEF g
  <2> QED BY <1>0, <2>1, <2>2, <2>3, <2>4 DEF CompleteOK, Shows
<1>8. CASE CollectorStops
  <2>1. UNCHANGED <<now, up, home, since, landing>> /\ collector'.at = -1
    BY <1>8 DEF CollectorStops, fleet, NotCollecting
  <2> QED BY <1>0, <2>1 DEF CompleteOK, Shows
<1> QED BY <1>2, <1>3, <1>4, <1>5, <1>6, <1>7, <1>8 DEF Next, Fleet, Collect

(* No listing later than a heartbeat, of the time the node has been up     *)
(* where it is, has read its cluster.                                      *)
LEMMA Explained ==
  ASSUME Full, [Next]_vars, health' # health,
         NEW r \in health', up[r.node],
         NEW f \in bronze, f.at > r.heartbeat, f.at > since[r.node]
  PROVE  home[r.node] \in f.failed \cup {None}
<1>1. BuildHealth
  <2>1. \A k \in Kinds : Ingest(k) => UNCHANGED health
    BY DEF Ingest, tables
  <2> QED BY <2>1, OutsidePipeline, RestKeeps DEF Full, Next, Pipeline, pipeline, tables
<1>2. r.node \in Nodes /\ LiveAt(r.node) # {} /\ r.heartbeat = Heartbeat(r.node)
  BY <1>1 DEF BuildHealth
<1>3. f \in landing /\ f.at \in Nat /\ now \in Nat
  BY FleetConstants DEF Full, IInv, BronzeOK, ListingsOK, FleetOK
<1>4. Shows(f, r.node) => f.at \in LiveAt(r.node)
  BY DEF Shows, LiveAt, Inventory, FileRows
<1>5. ~Shows(f, r.node)
  BY <1>2, <1>3, <1>4, HeartbeatIsMax DEF Full
<1> QED BY <1>2, <1>3, <1>5 DEF Full, CompleteOK

--------------------------------------------------------------------------------
(* The load table.                                                         *)

(* A finite set of counts has a largest: of the sets without one the       *)
(* smallest would stay so without any of its members.                      *)
LEMMA Attained ==
  ASSUME NEW D, IsFiniteSet(D), D # {}, NEW f, \A x \in D : f[x] \in Nat
  PROVE  \E x \in D : \A y \in D : f[y] <= f[x]
<1> DEFINE HasMax(S) == \E x \in S : \A y \in S : f[y] <= f[x]
           Bad == {S \in SUBSET D : S # {} /\ ~HasMax(S)}
           Sizes == {Cardinality(S) : S \in Bad}
<1> SUFFICES ASSUME ~HasMax(D) PROVE FALSE
  OBVIOUS
<1>1. \A S \in SUBSET D : IsFiniteSet(S) /\ Cardinality(S) \in Nat
  BY FS_Subset, FS_CardinalityType
<1>2. Sizes \subseteq Nat /\ Sizes # {}
  <2>1. D \in Bad
    OBVIOUS
  <2>2. Bad \subseteq SUBSET D
    OBVIOUS
  <2> HIDE DEF Bad
  <2> QED BY <1>1, <2>1, <2>2
<1>3. PICK k \in Sizes : \A j \in Sizes : ~(<<j, k>> \in Less)
  <2> HIDE DEF Sizes
  <2> QED BY <1>2, LessWellFounded, WFMin
<1>4. PICK S \in Bad : k = Cardinality(S)
  OBVIOUS
<1>5. PICK x \in S : TRUE
  BY <1>4
<1> DEFINE R == S \ {x}
<1>6. IsFiniteSet(S) /\ Cardinality(R) = Cardinality(S) - 1 /\ R \in SUBSET D
  BY <1>1, <1>4, <1>5, FS_RemoveElement
<1>7. R # {}
  <2>1. R = {} => S = {x}
    BY <1>5
  <2>2. f[x] \in Nat
    BY <1>4, <1>5
  <2>3. S = {x} => HasMax(S)
    BY <2>2
  <2> QED BY <1>4, <2>1, <2>3
<1>8. ~HasMax(R)
  <2> SUFFICES ASSUME NEW m \in R, \A y \in R : f[y] <= f[m] PROVE FALSE
    OBVIOUS
  <2>1. \A y \in S : f[y] \in Nat
    BY <1>4
  <2>2. m \in S /\ f[m] \in Nat /\ f[x] \in Nat
    BY <1>5, <2>1
  <2>3. CASE f[x] <= f[m]
    <3>1. \A y \in S : f[y] <= f[m]
      BY <2>3
    <3> QED BY <1>4, <2>2, <3>1
  <2>4. CASE f[m] <= f[x]
    <3>1. \A y \in S : f[y] <= f[x]
      BY <2>1, <2>2, <2>4
    <3> QED BY <1>4, <1>5, <3>1
  <2> QED BY <2>2, <2>3, <2>4
<1>9. R \in Bad
  BY <1>6, <1>7, <1>8
<1>10. Cardinality(R) \in Sizes /\ Cardinality(R) < k /\ Cardinality(R) \in Nat /\ k \in Nat
  <2> HIDE DEF HasMax, R
  <2> QED BY <1>1, <1>2, <1>4, <1>6, <1>9
<1>11. <<Cardinality(R), k>> \in Less
  BY <1>10 DEF Less
<1> QED BY <1>3, <1>10, <1>11

(* A label has a row of statistics for its nodes that ran queries.         *)
LEMMA StatFacts ==
  ASSUME queries \in [Nodes -> Nat], NEW map \in Maps, NEW s \in Statistics(map)
  PROVE  /\ s.label \in Label /\ DOMAIN s.counts # {} /\ DOMAIN s.counts \subseteq Nodes
         /\ \A n \in DOMAIN s.counts : s.counts[n] = queries[n] /\ s.counts[n] \in Nat \ {0}
         /\ s.skew = SkewOf(s.counts)
<1> DEFINE active(k) == {m \in Listed : queries[m] > 0 /\ k \in map[m]}
           counts(k) == [m \in active(k) |-> queries[m]]
<1>1. PICK l \in Label : /\ active(l) # {}
                         /\ s = [label |-> l, counts |-> counts(l), skew |-> SkewOf(counts(l))]
  BY DEF Statistics
<1>2. s.label = l /\ s.counts = counts(l) /\ s.skew = SkewOf(counts(l))
  BY <1>1
<1>3. DOMAIN counts(l) = active(l) /\ \A m \in active(l) : counts(l)[m] = queries[m]
  OBVIOUS
<1>4. active(l) \subseteq Nodes /\ \A m \in active(l) : queries[m] \in Nat \ {0}
  BY DEF Listed
<1> HIDE DEF active, counts
<1> QED BY <1>1, <1>2, <1>3, <1>4

(* Its peak is some node's count, and no node has more.                    *)
LEMMA PeakIsMax ==
  ASSUME queries \in [Nodes -> Nat], NEW map \in Maps, NEW s \in Statistics(map)
  PROVE  /\ \E n \in DOMAIN s.counts : s.counts[n] = Peak(s)
         /\ \A n \in DOMAIN s.counts : s.counts[n] <= Peak(s)
<1>1. /\ DOMAIN s.counts # {} /\ IsFiniteSet(DOMAIN s.counts)
      /\ \A n \in DOMAIN s.counts : s.counts[n] \in Nat
  BY StatFacts, FS_Subset, FleetConstants
<1>2. PICK x \in DOMAIN s.counts : \A y \in DOMAIN s.counts : s.counts[y] <= s.counts[x]
  BY <1>1, Attained
<1>3. \E p \in Range(s.counts) : \A q \in Range(s.counts) : q <= p
  BY <1>2 DEF Range
<1>4. Peak(s) \in Range(s.counts) /\ \A q \in Range(s.counts) : q <= Peak(s)
  BY <1>3 DEF Peak
<1> QED BY <1>4 DEF Range

(* The joins by id and hour find the busiest nodes of a label, and nothing *)
(* else where it is the only label of its id.                              *)
UniqueIn(stats, table, s) ==
  LET rows == {r \in table : r.label = s.label}
      busiest == {n \in DOMAIN s.counts : s.counts[n] = Peak(s)}
  IN /\ rows # {}
     /\ (\A t \in stats : t.label[1] = s.label[1] => t = s)
          => {r.hottest : r \in rows} = busiest
             /\ Cardinality(rows) = Cardinality(busiest)

LEMMA HottestFacts ==
  ASSUME queries \in [Nodes -> Nat], NEW map \in Maps, NEW s \in Statistics(map)
  PROVE  UniqueIn(Statistics(map), Hottest(Statistics(map)), s)
<1> DEFINE stats == Statistics(map)
           rows == {r \in Hottest(stats) : r.label = s.label}
           busiest == {n \in DOMAIN s.counts : s.counts[n] = Peak(s)}
           row(n) == [label |-> s.label, hottest |-> n, peakOf |-> s.label]
<1>1. /\ s.label \in Label /\ busiest # {} /\ busiest \subseteq Nodes
      /\ busiest \subseteq DOMAIN s.counts
  BY StatFacts, PeakIsMax
<1>2. ASSUME NEW n \in busiest PROVE row(n) \in rows
  <2>1. row(n) \in LoadRow /\ row(n).label = s.label /\ row(n).peakOf = s.label
        /\ row(n).hottest = n
    BY <1>1 DEF LoadRow
  <2> HIDE DEF row
  <2> QED BY <2>1 DEF Hottest
<1>3. ASSUME \A t \in stats : t.label[1] = s.label[1] => t = s, NEW r \in rows
      PROVE  r.hottest \in busiest /\ r = row(r.hottest)
  <2>1. PICK u, x, p \in stats :
          /\ r.label = u.label /\ r.peakOf = p.label
          /\ x.label[1] = u.label[1] /\ p.label[1] = u.label[1]
          /\ r.hottest \in DOMAIN x.counts /\ x.counts[r.hottest] = Peak(p)
    BY DEF Hottest
  <2>2. x = s /\ p = s
    BY <1>3, <2>1
  <2>3. r.hottest \in busiest /\ r.label = s.label /\ r.peakOf = s.label
    BY <2>1, <2>2
  <2>4. r \in [label: Label, hottest: Nodes, peakOf: Label]
    BY DEF Hottest, LoadRow
  <2> QED BY <2>3, <2>4
<1>4. ASSUME \A t \in stats : t.label[1] = s.label[1] => t = s
      PROVE  /\ {r.hottest : r \in rows} = busiest
             /\ Cardinality(rows) = Cardinality(busiest)
  <2> DEFINE f == [n \in busiest |-> row(n)]
  <2>1. \A n : row(n).hottest = n
    OBVIOUS
  <2>2. \A r \in rows : r.hottest \in busiest /\ r = row(r.hottest)
    BY <1>3, <1>4
  <2> HIDE DEF row, rows, busiest
  <2>3. f \in Bijection(busiest, rows)
    BY <1>2, <2>1, <2>2 DEF Bijection, Injection, Surjection, IsInjective
  <2>4. IsFiniteSet(busiest)
    BY <1>1, FS_Subset, FleetConstants
  <2>5. Cardinality(rows) = Cardinality(busiest)
    BY <2>3, <2>4, FS_Bijection DEF ExistsBijection
  <2>6. {r.hottest : r \in rows} = busiest
    BY <1>2, <2>1, <2>2
  <2> QED BY <2>5, <2>6
<1>5. rows # {}
  BY <1>1, <1>2
<1> HIDE DEF row
<1> QED BY <1>4, <1>5 DEF UniqueIn

LEMMA HottestKeeps ==
  ASSUME Full, [Next]_vars PROVE HottestRowIsUnique'
<1>1. UNCHANGED load \/ BuildLoad
  BY OutsidePipeline
     DEF Next, Pipeline, StartPipeline, PipelineStops, Correlate, Leave, Ingest, BuildHealth,
         BuildPerformance, BuildDim, Wrote, pipeline, tables
<1>2. CASE UNCHANGED load
  BY <1>2 DEF Full, HottestRowIsUnique, Peak
<1>3. CASE BuildLoad
  <2>1. PICK map \in Maps : load' = [stats |-> Statistics(map),
                                     rows |-> Hottest(Statistics(map))]
    BY <1>3 DEF BuildLoad
  <2>2. load'.stats = Statistics(map) /\ load'.rows = Hottest(Statistics(map))
    BY <2>1
  <2>3. queries \in [Nodes -> Nat]
    BY DEF Full, TypeOK
  <2>4. \A s \in Statistics(map) : UniqueIn(Statistics(map), Hottest(Statistics(map)), s)
    BY <2>3, HottestFacts
  <2>5. \A s \in load'.stats : UniqueIn(load'.stats, load'.rows, s)
    BY <2>2, <2>4
  <2> QED BY <2>5 DEF UniqueIn, HottestRowIsUnique, Peak
<1> QED BY <1>1, <1>2, <1>3

--------------------------------------------------------------------------------
(* What a step does to the gold tables.                                    *)
LEMMA WhoWrites ==
  ASSUME [Next]_vars
  PROVE  /\ UNCHANGED health \/ BuildHealth
         /\ UNCHANGED performance \/ BuildPerformance
         /\ UNCHANGED load \/ BuildLoad
         /\ UNCHANGED dim \/ BuildDim
         /\ UNCHANGED queries \/ Correlate
         /\ \/ UNCHANGED run \/ StartPipeline
            \/ BuildHealth \/ BuildPerformance \/ BuildLoad \/ BuildDim
<1>1. CASE Fleet \/ Collect \/ UNCHANGED vars
  BY <1>1, OutsidePipeline DEF pipeline, tables
<1>2. CASE Pipeline
  <2>1. CASE StartPipeline \/ PipelineStops \/ Correlate \/ Leave \/ \E k \in Kinds : Ingest(k)
    BY <2>1 DEF StartPipeline, PipelineStops, Correlate, Leave, Ingest, tables
  <2>2. CASE BuildHealth \/ BuildPerformance \/ BuildLoad \/ BuildDim
    BY <2>2 DEF BuildHealth, BuildPerformance, BuildLoad, BuildDim, Wrote, Tables
  <2> QED BY <1>2, <2>1, <2>2 DEF Pipeline
<1> QED BY <1>1, <1>2 DEF Next

LEMMA InitFull == Init => Full
<1> SUFFICES ASSUME Init PROVE Full
  OBVIOUS
<1>1. IInv
  BY InitIInv
<1>2. TypeOK
  <2>1. /\ landing = {} /\ bronze = {} /\ run = {} /\ health = {} /\ dim = {}
        /\ load.stats = {} /\ load.rows = {}
    BY DEF Init
  <2>2. queries \in [Nodes -> Nat] /\ performance \in [Nodes -> Nat]
    BY DEF Init
  <2>3. collector \in [at: -1..MaxTime, left: SUBSET Clusters, failed: SUBSET Clusters,
                       rows: SUBSET Row]
    BY FleetConstants DEF Init, NotCollecting
  <2> QED BY <1>1, <2>1, <2>2, <2>3 DEF IInv, FleetOK, OthersOK, TypeOK
<1>3. CompleteOK
  BY DEF Init, CompleteOK, NotCollecting
<1>4. RunOK
  BY DEF Init, RunOK, Kinds, Other, Before
<1>5. TablesOfARunAgree /\ HottestRowIsUnique /\ SkewIsAmongTheActive
  BY DEF Init, TablesOfARunAgree, HottestRowIsUnique, SkewIsAmongTheActive
<1> QED BY <1>1, <1>2, <1>3, <1>4, <1>5 DEF Full

LEMMA TypeKeeps == ASSUME Full, [Next]_vars, IInv' PROVE TypeOK'
<1>0. IInv /\ TypeOK
  BY DEF Full
<1>1. /\ now' \in 0..MaxTime /\ changes' \in 0..MaxChanges
      /\ up' \in [Nodes -> BOOLEAN] /\ home' \in [Nodes -> Clusters \cup {None}]
      /\ nameOf' \in [Clusters -> Names] /\ since' \in [Nodes -> 0..MaxTime]
      /\ bronze' \subseteq landing' /\ others' \in [Other -> Content] /\ at' \in DOMAIN After
  BY DEF IInv, FleetOK, BronzeOK, OthersOK
<1>2. /\ collector' \in [at: -1..MaxTime, left: SUBSET Clusters, failed: SUBSET Clusters,
                         rows: SUBSET Row]
      /\ landing' \subseteq [at: 0..MaxTime, failed: SUBSET Clusters, rows: SUBSET Row]
  <2>1. NodeRow \subseteq Row
    BY DEF NodeRow, Row
  <2> QED BY <2>1 DEF IInv, CollectorOK, ListingsOK
<1>3. run' \subseteq Tables
  BY <1>0, WhoWrites DEF TypeOK, StartPipeline, BuildHealth, BuildPerformance, BuildLoad,
     BuildDim, Wrote, Tables
<1>4. queries' \in [Nodes -> Nat] /\ performance' \in [Nodes -> Nat]
  <2>1. CASE Correlate
    BY <1>0, <2>1, FleetConstants DEF TypeOK, Correlate, tables
  <2>2. CASE UNCHANGED queries
    BY <1>0, <2>2, WhoWrites DEF TypeOK, BuildPerformance
  <2> QED BY <2>1, <2>2, WhoWrites
<1>5. health' \subseteq [node: Nodes, heartbeat: 0..MaxTime, age: 0..MaxTime]
  <2>1. CASE BuildHealth
    <3>1. ASSUME NEW n \in Nodes, LiveAt(n) # {}
          PROVE  Heartbeat(n) \in 0..MaxTime /\ now - Heartbeat(n) \in 0..MaxTime
      <4>1. Heartbeat(n) \in 0..now
        BY <1>0, <3>1, HeartbeatIsMax
      <4>2. now \in 0..MaxTime
        BY <1>0 DEF TypeOK
      <4> QED BY <4>1, <4>2, FleetConstants
    <3> QED BY <2>1, <3>1 DEF BuildHealth
  <2> QED BY <1>0, <2>1, WhoWrites DEF TypeOK
<1>6. /\ \A s \in load'.stats : s.label \in Label /\ DOMAIN s.counts \subseteq Nodes
      /\ load'.rows \subseteq LoadRow
  <2>1. CASE BuildLoad
    <3>1. PICK map \in Maps : load' = [stats |-> Statistics(map),
                                       rows |-> Hottest(Statistics(map))]
      BY <2>1 DEF BuildLoad
    <3>2. load'.stats = Statistics(map) /\ load'.rows = Hottest(Statistics(map))
      BY <3>1
    <3>3. Hottest(Statistics(map)) \subseteq LoadRow
      BY DEF Hottest
    <3>4. queries \in [Nodes -> Nat]
      BY <1>0 DEF TypeOK
    <3> QED BY <3>2, <3>3, <3>4, StatFacts
  <2> QED BY <1>0, <2>1, WhoWrites DEF TypeOK
<1>7. dim' \subseteq Row
  <2>1. CASE BuildDim
    <3>1. dim' \subseteq Inventory
      BY <2>1 DEF BuildDim
    <3> QED BY <1>0, <3>1, InventoryRows
  <2> QED BY <1>0, <2>1, WhoWrites DEF TypeOK
<1> QED BY <1>1, <1>2, <1>3, <1>4, <1>5, <1>6, <1>7 DEF TypeOK

(* A run reaches its tables in the pipeline's order.                       *)
LEMMA RunKeeps == ASSUME Full, [Next]_vars PROVE RunOK'
<1>0. IInv /\ RunOK /\ TypeOK
  BY DEF Full
<1>1. \A n : LiveAt(n) \subseteq LiveAt(n)'
  BY <1>0, InventoryGrows
<1>2. \A h \in health' : h.heartbeat \in LiveAt(h.node)'
  <2>1. CASE BuildHealth
    <3>1. \A h \in health' : /\ h.node \in Nodes /\ LiveAt(h.node) # {}
                             /\ h.heartbeat = Heartbeat(h.node)
      BY <2>1 DEF BuildHealth
    <3>2. \A h \in health' : h.heartbeat \in LiveAt(h.node)
      BY <1>0, <3>1, HeartbeatIsMax
    <3> QED BY <1>1, <3>2
  <2> QED BY <1>0, <1>1, <2>1, WhoWrites DEF RunOK
<1>3. dim' \subseteq Inventory'
  <2>1. CASE BuildDim
    <3>1. dim' \subseteq Inventory
      BY <2>1 DEF BuildDim
    <3> QED BY <1>0, <3>1, InventoryGrows
  <2> QED BY <1>0, <2>1, WhoWrites, InventoryGrows DEF RunOK
<1> DEFINE Order ==
      /\ at \in Kinds \cup {"silver", "health"} => run = {}
      /\ at = "performance" => run \subseteq {"health"}
      /\ at = "load" => /\ run \subseteq {"health", "performance"}
                        /\ "performance" \in run => performance = queries
      /\ at = "dim" => run \subseteq {"health", "performance", "load"}
<1>4. Order'
  <2>1. Order
    BY <1>0 DEF RunOK
  <2>2. Kinds = {"network", "events", "disk", "mashup", "inventory", "datasources"}
    BY DEF Kinds, Other, Before
  <2>3. CASE Fleet \/ Collect \/ UNCHANGED vars
    BY <2>1, <2>3, OutsidePipeline DEF pipeline, tables
  <2>4. CASE StartPipeline
    BY <2>2, <2>4 DEF StartPipeline, After
  <2>5. CASE PipelineStops
    BY <2>2, <2>5 DEF PipelineStops
  <2>6. CASE Correlate
    BY <2>1, <2>2, <2>6 DEF Correlate, After
  <2>7. CASE Leave
    BY <2>1, <2>2, <2>7 DEF Leave, After, Tables, tables
  <2>8. ASSUME NEW k \in Kinds, Ingest(k) PROVE Order'
    <3>1. run' = {} /\ (at' = "idle" \/ at' = After[k])
      BY <2>1, <2>8 DEF Ingest
    <3>2. at' \in {"idle", "silver"} \cup Kinds
      BY <2>2, <3>1 DEF After
    <3> QED BY <2>2, <3>1, <3>2
  <2>9. CASE BuildHealth
    BY <2>1, <2>2, <2>9 DEF BuildHealth, Wrote, After
  <2>10. CASE BuildPerformance
    BY <2>1, <2>2, <2>10 DEF BuildPerformance, Wrote, After
  <2>11. CASE BuildLoad
    BY <2>1, <2>2, <2>11 DEF BuildLoad, Wrote, After
  <2>12. CASE BuildDim
    BY <2>1, <2>2, <2>12 DEF BuildDim, Wrote, After
  <2> QED BY <2>3, <2>4, <2>5, <2>6, <2>7, <2>8, <2>9, <2>10, <2>11, <2>12
          DEF Next, Pipeline
<1> QED BY <1>2, <1>3, <1>4 DEF RunOK

--------------------------------------------------------------------------------
(* The dimension is written of the latest row of every node in bronze, so  *)
(* of a node with a heartbeat one no earlier.                              *)
LEMMA DimensionCovers ==
  ASSUME Full, BuildDim
  PROVE  \A h \in health : \E d \in dim' : d.node = h.node /\ d.at >= h.heartbeat
<1> SUFFICES ASSUME NEW h \in health
             PROVE  \E d \in dim' : d.node = h.node /\ d.at >= h.heartbeat
  OBVIOUS
<1>1. PICK r \in Inventory : r.node = h.node /\ r.at = h.heartbeat
  BY DEF Full, RunOK, LiveAt
<1> DEFINE nodes == {x.node : x \in Inventory}
<1>2. PICK choice \in [nodes -> Inventory] :
        /\ \A n \in nodes : choice[n] \in Latest(n)
        /\ dim' = {choice[n] : n \in nodes}
  BY DEF BuildDim
<1>3. r.node \in nodes
  OBVIOUS
<1>4. choice[r.node] \in dim' /\ choice[r.node] \in Latest(r.node)
  BY <1>2, <1>3
<1>5. choice[r.node].node = r.node /\ r.at <= choice[r.node].at
  BY <1>4 DEF Latest
<1>6. r.at \in Nat /\ choice[r.node].at \in Nat
  <2>1. r \in Row /\ choice[r.node] \in Row
    BY <1>2, <1>3, InventoryRows DEF Full
  <2> QED BY <2>1, FleetConstants DEF Row
<1> QED BY <1>1, <1>4, <1>5, <1>6

LEMMA AgreeKeeps == ASSUME Full, [Next]_vars PROVE TablesOfARunAgree'
<1>0. IInv /\ RunOK /\ TypeOK /\ TablesOfARunAgree
  BY DEF Full
<1>1. {"health", "dim"} \subseteq run' =>
        \A h \in health' : \E d \in dim' : d.node = h.node /\ d.at >= h.heartbeat
  <2>1. CASE BuildDim
    BY <2>1, DimensionCovers DEF BuildDim
  <2>2. CASE BuildHealth
    BY <1>0, <2>2 DEF BuildHealth, Wrote, RunOK
  <2>3. ASSUME ~BuildHealth, ~BuildDim
        PROVE  /\ UNCHANGED <<health, dim>>
               /\ {"health", "dim"} \subseteq run' => {"health", "dim"} \subseteq run
    BY <2>3, WhoWrites DEF StartPipeline, BuildPerformance, BuildLoad, Wrote
  <2> QED BY <1>0, <2>1, <2>2, <2>3 DEF TablesOfARunAgree
<1>2. {"performance", "load"} \subseteq run' =>
        \A s \in load'.stats, n \in Nodes :
          n \in DOMAIN s.counts => s.counts[n] >= performance'[n]
  <2>1. CASE BuildLoad
    <3>1. PICK map \in Maps : load'.stats = Statistics(map)
      BY <2>1 DEF BuildLoad
    <3>2. queries \in [Nodes -> Nat]
      BY <1>0 DEF TypeOK
    <3>3. \A s \in load'.stats : \A n \in DOMAIN s.counts :
            s.counts[n] = queries[n] /\ s.counts[n] \in Nat
      BY <3>1, <3>2, StatFacts
    <3>4. "performance" \in run' => performance' = queries
      BY <1>0, <2>1 DEF BuildLoad, Wrote, RunOK
    <3> QED BY <3>3, <3>4
  <2>2. CASE BuildPerformance
    BY <1>0, <2>2 DEF BuildPerformance, Wrote, RunOK
  <2>3. ASSUME ~BuildLoad, ~BuildPerformance
        PROVE  /\ UNCHANGED <<load, performance>>
               /\ {"performance", "load"} \subseteq run' => {"performance", "load"} \subseteq run
    BY <2>3, WhoWrites DEF StartPipeline, BuildHealth, BuildDim, Wrote
  <2> QED BY <1>0, <2>1, <2>2, <2>3 DEF TablesOfARunAgree
<1>3. \A d \in dim' : d.node = None => \E f \in bronze' : f.rows = {} /\ f.at = d.at
  <2>1. dim' \subseteq Inventory
    <3>1. BuildDim => dim' \subseteq Inventory
      BY DEF BuildDim
    <3> QED BY <1>0, <3>1, WhoWrites DEF RunOK
  <2>2. bronze \subseteq bronze'
    BY <1>0, BronzeGrows
  <2> QED BY <1>0, <2>1, <2>2, InventoryRows
<1> QED BY <1>1, <1>2, <1>3 DEF TablesOfARunAgree

--------------------------------------------------------------------------------
(* The sum of two counts: the fold adds them one after the other, in       *)
(* either order.                                                           *)
LEMMA PairSum ==
  ASSUME NEW x, NEW a, NEW b, a # b, DOMAIN x = {a, b}, x[a] \in Int, x[b] \in Int
  PROVE  SumFunction(x) = x[a] + x[b]
<1> DEFINE pick(s) == CHOOSE z \in s : TRUE
           Sums(g) == g = [s \in SUBSET {a, b} |->
                             IF s = {} THEN 0 ELSE x[pick(s)] + g[s \ {pick(s)}]]
           sum == [s \in SUBSET {a, b} |->
                     IF s = {} THEN 0 ELSE IF s = {a} THEN x[a]
                     ELSE IF s = {b} THEN x[b] ELSE x[a] + x[b]]
<1>1. SumFunction(x) = (CHOOSE g : Sums(g))[{a, b}]
  BY DEF SumFunction, SumFunctionOnSet, FoldFunctionOnSet, MapThenFoldSet
<1>2. \A s : s # {} => pick(s) \in s
  OBVIOUS
<1>3. \A s \in SUBSET {a, b} : s \in {{}, {a}, {b}, {a, b}}
  OBVIOUS
<1>4. pick({a}) = a /\ pick({b}) = b /\ pick({a, b}) \in {a, b}
  BY <1>2
<1>5. /\ {a} \ {a} = {} /\ {b} \ {b} = {}
      /\ {a, b} \ {a} = {b} /\ {a, b} \ {b} = {a}
      /\ {a} # {b} /\ {a} # {a, b} /\ {b} # {a, b} /\ {a} # {} /\ {b} # {} /\ {a, b} # {}
      /\ {} \in SUBSET {a, b} /\ {a} \in SUBSET {a, b} /\ {b} \in SUBSET {a, b}
      /\ {a, b} \in SUBSET {a, b}
  OBVIOUS
<1>5a. {a} \ {pick({a})} = {} /\ {b} \ {pick({b})} = {}
  BY <1>4, <1>5
<1> HIDE DEF pick
<1>6. sum[{}] = 0 /\ sum[{a}] = x[a] /\ sum[{b}] = x[b] /\ sum[{a, b}] = x[a] + x[b]
  BY <1>5
<1>7. Sums(sum)
  <2>1. ASSUME NEW s \in SUBSET {a, b}
        PROVE  sum[s] = IF s = {} THEN 0 ELSE x[pick(s)] + sum[s \ {pick(s)}]
    <3> HIDE DEF sum
    <3>1. CASE s = {}
      BY <3>1, <1>6
    <3>2. CASE s = {a}
      <4>1. s \ {pick(s)} = {} /\ x[pick(s)] = x[a] /\ sum[s] = x[a] /\ s # {}
        BY <3>2, <1>4, <1>5a, <1>5, <1>6
      <4> QED BY <4>1, <1>6
    <3>3. CASE s = {b}
      <4>1. s \ {pick(s)} = {} /\ x[pick(s)] = x[b] /\ sum[s] = x[b] /\ s # {}
        BY <3>3, <1>4, <1>5a, <1>5, <1>6
      <4> QED BY <4>1, <1>6
    <3>4. CASE s = {a, b}
      BY <3>4, <1>4, <1>5, <1>6
    <3> QED BY <1>3, <3>1, <3>2, <3>3, <3>4
  <2> DEFINE next == [s \in SUBSET {a, b} |->
                        IF s = {} THEN 0 ELSE x[pick(s)] + sum[s \ {pick(s)}]]
  <2>2. \A s \in SUBSET {a, b} : sum[s] = next[s]
    BY <2>1
  <2>3. sum = next
    BY <2>2
  <2> QED BY <2>3
<1> DEFINE fold == CHOOSE g : Sums(g)
<1>8. Sums(fold)
  <2> HIDE DEF Sums, sum
  <2> QED BY <1>7
<1>9. \A s \in SUBSET {a, b} :
        fold[s] = IF s = {} THEN 0 ELSE x[pick(s)] + fold[s \ {pick(s)}]
  <2> HIDE DEF fold
  <2> QED BY <1>8
<1> HIDE DEF fold, Sums, sum
<1>10. fold[{}] = 0 /\ fold[{a}] = x[a] /\ fold[{b}] = x[b]
  <2>1. fold[{}] = 0
    BY <1>5, <1>9
  <2>2. fold[{a}] = x[pick({a})] + fold[{a} \ {pick({a})}]
    BY <1>5, <1>9
  <2>3. fold[{b}] = x[pick({b})] + fold[{b} \ {pick({b})}]
    BY <1>5, <1>9
  <2>4. fold[{a}] = x[a] + 0
    BY <1>4, <1>5a, <2>1, <2>2
  <2>5. fold[{b}] = x[b] + 0
    BY <1>4, <1>5a, <2>1, <2>3
  <2> QED BY <2>1, <2>4, <2>5
<1>11. fold[{a, b}] = x[a] + x[b]
  <2>1. fold[{a, b}] = x[pick({a, b})] + fold[{a, b} \ {pick({a, b})}]
    BY <1>5, <1>9
  <2> QED BY <1>4, <1>5, <1>10, <2>1
<1> QED BY <1>1, <1>11 DEF fold

(* Of two counts the variation passes 0.8 only above three quarters on one *)
(* node, and 0.2 whenever more than four sevenths are.                     *)
LEMMA SpreadIsSevere ==
  ASSUME NEW M \in Nat, NEW m \in Nat, m <= M, M > 0,
         8000000 * ((M - m) * (M - m)) >= 2563201 * ((M + m) * (M + m))
  PROVE  4 * M > 3 * (M + m)
<1> SUFFICES ASSUME 2 * (M - m) <= M + m PROVE FALSE
  OBVIOUS
<1> DEFINE d == M - m
           s == M + m
<1>1. d \in Nat /\ s \in Nat /\ s > 0 /\ 2 * d <= s
  OBVIOUS
<1>2. 8000000 * (d * d) >= 2563201 * (s * s)
  OBVIOUS
<1> HIDE DEF d, s
<1>3. (2 * d) * (2 * d) <= s * s
  BY <1>1
<1>4. s * s > 0 /\ s * s \in Nat /\ d * d \in Nat /\ 4 * (d * d) <= s * s
  BY <1>1, <1>3
<1> QED BY <1>2, <1>4

LEMMA SpreadIsBalanced ==
  ASSUME NEW M \in Nat, NEW m \in Nat, m <= M,
         ~(8000000 * ((M - m) * (M - m)) >= 160801 * ((M + m) * (M + m)))
  PROVE  7 * M <= 4 * (M + m)
<1> SUFFICES ASSUME 7 * (M - m) > M + m PROVE FALSE
  OBVIOUS
<1> DEFINE d == M - m
           s == M + m
<1>1. d \in Nat /\ s \in Nat /\ 7 * d > s
  OBVIOUS
<1>2. ~(8000000 * (d * d) >= 160801 * (s * s))
  OBVIOUS
<1> HIDE DEF d, s
<1>3. (7 * d) * (7 * d) >= s * s
  BY <1>1
<1>4. s * s \in Nat /\ d * d \in Nat /\ 49 * (d * d) >= s * s
  BY <1>1, <1>3
<1> QED BY <1>2, <1>4

(* How many thresholds are passed.                                         *)
LEMMA Thresholds ==
  /\ IsFiniteSet({401, 1001, 1601}) /\ Cardinality({401, 1001, 1601}) = 3
  /\ \A P \in SUBSET {401, 1001, 1601} :
       /\ Cardinality(P) \in 0..3 
       /\ Cardinality(P) = 3 => 1601 \in P
       /\ Cardinality(P) = 0 => 401 \notin P
<1> DEFINE T == {401, 1001, 1601}
<1>1. IsFiniteSet({401}) /\ Cardinality({401}) = 1
  BY FS_Singleton
<1>2. IsFiniteSet({401} \cup {1001}) /\ Cardinality({401} \cup {1001}) = 2
  BY <1>1, FS_AddElement
<1>3. IsFiniteSet(({401} \cup {1001}) \cup {1601}) /\ Cardinality(({401} \cup {1001}) \cup {1601}) = 3
  BY <1>2, FS_AddElement
<1>4. T = ({401} \cup {1001}) \cup {1601}
  OBVIOUS
<1>5. IsFiniteSet(T) /\ Cardinality(T) = 3
  BY <1>3, <1>4
<1>6. ASSUME NEW P \in SUBSET T
      PROVE  /\ Cardinality(P) \in 0..3 /\ IsFiniteSet(P)
             /\ Cardinality(P) = 3 => P = T
             /\ Cardinality(P) = 0 => P = {}
  <2> HIDE DEF T
  <2>1. IsFiniteSet(P) /\ Cardinality(P) \in Nat /\ Cardinality(P) <= 3
    BY <1>5, FS_Subset, FS_CardinalityType
  <2>2. Cardinality(P) = 3 => P = T
    BY <1>5, FS_Subset
  <2>3. Cardinality(P) = 0 => P = {}
    BY <2>1, FS_EmptySet
  <2> QED BY <2>1, <2>2, <2>3
<1> QED BY <1>5, <1>6

(* What the load table says of the skew of a label.                        *)
LEMMA SkewFacts ==
  ASSUME queries \in [Nodes -> Nat], NEW map \in Maps, NEW s \in Statistics(map)
  PROVE  LET total == SumFunction(s.counts) IN
         /\ s.skew = "single" <=> Cardinality(DOMAIN s.counts) = 1
         /\ Cardinality(DOMAIN s.counts) = 2 =>
              /\ s.skew = "severe" => 4 * Peak(s) > 3 * total
              /\ s.skew = "balanced" => 7 * Peak(s) <= 4 * total
<1> DEFINE x == s.counts
           passed == {limit \in {401, 1001, 1601} : CvExceeds(x, limit)}
           words == <<"balanced", "slight", "moderate", "severe">>
           sum == SumFunction(x)
           squares == SumFunction([i \in DOMAIN x |-> x[i] * x[i]])
<1>1. /\ s.skew = SkewOf(x) /\ DOMAIN x \subseteq Nodes
      /\ \A n \in DOMAIN x : x[n] \in Nat \ {0}
  BY StatFacts
<1>2. /\ Cardinality(passed) \in 0..3
      /\ Cardinality(passed) = 3 => CvExceeds(x, 1601)
      /\ Cardinality(passed) = 0 => ~CvExceeds(x, 401)
  BY Thresholds
<1>3. s.skew = IF Cardinality(DOMAIN x) = 1 THEN "single" ELSE words[Cardinality(passed) + 1]
  BY <1>1 DEF SkewOf
<1> HIDE DEF passed
<1>4. /\ s.skew = "single" <=> Cardinality(DOMAIN x) = 1
      /\ Cardinality(DOMAIN x) # 1 => /\ s.skew = "severe" => CvExceeds(x, 1601)
                                      /\ s.skew = "balanced" => ~CvExceeds(x, 401)
  <2>1. Cardinality(passed) + 1 \in 1..4
    BY <1>2
  <2>2. /\ words[1] = "balanced" /\ words[2] = "slight"
        /\ words[3] = "moderate" /\ words[4] = "severe"
    OBVIOUS
  <2> HIDE DEF words
  <2> QED BY <1>2, <1>3, <2>1, <2>2
<1>5. ASSUME Cardinality(DOMAIN x) = 2
      PROVE  /\ CvExceeds(x, 1601) => 4 * Peak(s) > 3 * sum
             /\ ~CvExceeds(x, 401) => 7 * Peak(s) <= 4 * sum
  <2>1. PICK a \in DOMAIN x : x[a] = Peak(s) /\ \A n \in DOMAIN x : x[n] <= x[a]
    BY PeakIsMax
  <2>2. IsFiniteSet(DOMAIN x)
    BY <1>1, FS_Subset, FleetConstants
  <2>3. PICK b : b # a /\ DOMAIN x = {a, b}
    <3>1. IsFiniteSet(DOMAIN x \ {a}) /\ Cardinality(DOMAIN x \ {a}) = 1
      BY <1>5, <2>2, FS_RemoveElement
    <3>2. PICK b : DOMAIN x \ {a} = {b}
      BY <3>1, FS_Singleton
    <3> QED BY <3>2
  <2> DEFINE M == x[a]
             m == x[b]
             square == [i \in DOMAIN x |-> x[i] * x[i]]
  <2>4. M \in Nat /\ m \in Nat /\ m <= M /\ M > 0
    BY <1>1, <2>1, <2>3
  <2>5. sum = M + m
    BY <2>3, <2>4, PairSum
  <2>6. squares = M * M + m * m
    <3>1. square[a] = M * M /\ square[b] = m * m /\ DOMAIN square = {a, b}
      BY <2>3
    <3>2. square[a] \in Int /\ square[b] \in Int
      BY <2>4, <3>1
    <3> HIDE DEF square, M, m
    <3>3. SumFunction(square) = square[a] + square[b]
      BY <2>3, <3>1, <3>2, PairSum
    <3> QED BY <3>1, <3>3 DEF square
  <2>7. \A limit \in {401, 1601} :
          CvExceeds(x, limit) <=>
            2000 * 2000 * 2 * (2 * squares - sum * sum)
              >= limit * limit * (2 - 1) * sum * sum
    BY <1>5 DEF CvExceeds
  <2> HIDE DEF M, m, x, squares, sum
  <2>8. /\ 2000 * 2000 * 2 * (2 * (M * M + m * m) - (M + m) * (M + m))
            = 8000000 * ((M - m) * (M - m))
        /\ 1601 * 1601 * (2 - 1) * (M + m) * (M + m) = 2563201 * ((M + m) * (M + m))
        /\ 401 * 401 * (2 - 1) * (M + m) * (M + m) = 160801 * ((M + m) * (M + m))
    BY <2>4
  <2>9. /\ CvExceeds(x, 1601) =>
             8000000 * ((M - m) * (M - m)) >= 2563201 * ((M + m) * (M + m))
        /\ ~CvExceeds(x, 401) =>
             ~(8000000 * ((M - m) * (M - m)) >= 160801 * ((M + m) * (M + m)))
    BY <2>5, <2>6, <2>7, <2>8
  <2>10. M = Peak(s)
    BY <2>1 DEF M, x
  <2> QED BY <2>4, <2>5, <2>9, <2>10, SpreadIsSevere, SpreadIsBalanced
<1> QED BY <1>4, <1>5

LEMMA SkewKeeps ==
  ASSUME Full, [Next]_vars PROVE SkewIsAmongTheActive'
<1>1. CASE UNCHANGED load
  BY <1>1 DEF Full, SkewIsAmongTheActive, Peak
<1>2. CASE BuildLoad
  <2>1. PICK map \in Maps : load' = [stats |-> Statistics(map),
                                     rows |-> Hottest(Statistics(map))]
    BY <1>2 DEF BuildLoad
  <2>2. load'.stats = Statistics(map) /\ queries \in [Nodes -> Nat]
    BY <2>1 DEF Full, TypeOK
  <2> QED BY <2>2, SkewFacts DEF SkewIsAmongTheActive, Peak
<1> QED BY <1>1, <1>2, WhoWrites

LEMMA NextFull == ASSUME Full, [Next]_vars PROVE Full'
BY NextIInv, TypeKeeps, CompleteKeeps, RunKeeps, AgreeKeeps, HottestKeeps, SkewKeeps DEF Full

(* The second invariant holds in every state the specification reaches.    *)
THEOREM FullCorrect == Spec => []Full
BY InitFull, NextFull, PTL DEF Spec

(* Type correctness of the fleet, the files and the four gold tables.      *)
THEOREM TypeCorrect == Spec => []TypeOK
BY FullCorrect, PTL DEF Full

(* The tables one run of 03_gold_aggregate.py has written agree: the       *)
(* dimension with the heartbeats, the load with the performance table.     *)
THEOREM TablesAgree == Spec => []TablesOfARunAgree
BY FullCorrect, PTL DEF Full

(* The joins by cluster id and hour give a label that no renaming split    *)
(* one row per busiest node.                                               *)
THEOREM HottestUnique == Spec => []HottestRowIsUnique
BY FullCorrect, PTL DEF Full

(* Skew is seen only among active nodes: "severe" and "balanced" of two    *)
(* mean what the thresholds on the sample deviation come to.               *)
THEOREM SkewAmongActive == Spec => []SkewIsAmongTheActive
BY FullCorrect, PTL DEF Full

(* A step that writes the load table builds it from the rows of one map.   *)
LEMMA LoadIsBuilt ==
  ASSUME Full, [Next]_vars, load' # load
  PROVE  \E map \in Maps : load' = [stats |-> Statistics(map),
                                    rows |-> Hottest(Statistics(map))]
<1>1. UNCHANGED load \/ BuildLoad
  BY OutsidePipeline
     DEF Next, Pipeline, StartPipeline, PipelineStops, Correlate, Leave, Ingest, BuildHealth,
         BuildPerformance, BuildDim, Wrote, pipeline, tables
<1> QED BY <1>1 DEF BuildLoad

LEMMA Conserved ==
  ASSUME Full, [Next]_vars, load' # load, NEW n \in Listed, queries[n] > 0
  PROVE  /\ RowsFor(load', n) # {}
         /\ Cardinality(RowsFor(load', n)) = 1 \/ JoinsMix(load', n)
         /\ \A s \in load'.stats : n \in DOMAIN s.counts => s.counts[n] = queries[n]
<1>1. PICK map \in Maps : load' = [stats |-> Statistics(map),
                                   rows |-> Hottest(Statistics(map))]
  BY LoadIsBuilt
<1>2. load'.stats = Statistics(map) /\ load'.rows = Hottest(Statistics(map))
  BY <1>1
<1>3. PICK s : {t \in Statistics(map) : n \in DOMAIN t.counts} = {s}
  BY CountedOnce
<1>4. s \in Statistics(map) /\ n \in DOMAIN s.counts
  BY <1>3
<1>5. queries \in [Nodes -> Nat]
  BY DEF Full, TypeOK
<1>6. UniqueIn(Statistics(map), Hottest(Statistics(map)), s)
  BY <1>4, <1>5, HottestFacts
<1>7. RowsFor(load', n) = {r \in load'.rows : r.label = s.label}
  BY <1>2, <1>3 DEF RowsFor
<1>8. RowsFor(load', n) # {}
  BY <1>2, <1>6, <1>7 DEF UniqueIn
<1>9. ASSUME ~JoinsMix(load', n) PROVE Cardinality(RowsFor(load', n)) = 1
  <2> DEFINE busiest == {m \in DOMAIN s.counts : s.counts[m] = Peak(s)}
  <2>1. \A t \in Statistics(map) : t.label[1] = s.label[1] => t = s
    BY <1>2, <1>4, <1>9 DEF JoinsMix
  <2>2. PICK m \in DOMAIN s.counts : s.counts[m] = Peak(s)
    BY <1>4, <1>5, PeakIsMax
  <2>3. \A k \in busiest : k = m
    BY <1>2, <1>4, <1>9, <2>2 DEF JoinsMix
  <2>4. busiest = {m}
    BY <2>2, <2>3
  <2>5. Cardinality(RowsFor(load', n)) = Cardinality(busiest)
    BY <1>2, <1>6, <1>7, <2>1 DEF UniqueIn
  <2> HIDE DEF busiest
  <2> QED BY <2>4, <2>5, FS_Singleton
<1>10. \A t \in load'.stats : n \in DOMAIN t.counts => t.counts[n] = queries[n]
  BY <1>2, CountedOnce
<1> QED BY <1>8, <1>9, <1>10

(* The executions of a listed node are in the total of some row of the     *)
(* load table, and of one only unless the join of the hottest node         *)
(* duplicates that row.                                                    *)
THEOREM LoadConserved == Spec => LoadIsConserved
<1> DEFINE Counts ==
      load' # load =>
        \A n \in Listed : queries[n] > 0 =>
          /\ RowsFor(load', n) # {}
          /\ Cardinality(RowsFor(load', n)) = 1 \/ JoinsMix(load', n)
          /\ \A s \in load'.stats : n \in DOMAIN s.counts => s.counts[n] = queries[n]
<1>1. Full /\ [Next]_vars => [Counts]_vars
  <2>1. ASSUME Full, [Next]_vars, load' # load PROVE Counts
    BY <2>1, Conserved
  <2> QED BY <2>1
<1>2. LoadIsConserved <=> [][Counts]_vars
  BY DEF LoadIsConserved
<1> HIDE DEF Counts
<1> QED BY <1>1, <1>2, FullCorrect, PTL DEF Spec

(* An offline alarm on a node that is up is explained by failed listings   *)
(* of its cluster, whatever was collected, lost or ingested late.          *)
THEOREM FalseAlarmExplained == Spec => FalseAlarmIsExplained
<1> DEFINE Explains ==
      health' # health =>
        \A r \in health' : up[r.node] /\ r.age > Threshold =>
          \A f \in bronze : f.at > r.heartbeat /\ f.at > since[r.node] =>
            home[r.node] \in f.failed \cup {None}
<1>1. Full /\ [Next]_vars => [Explains]_vars
  <2>1. ASSUME Full, [Next]_vars, health' # health PROVE Explains
    BY <2>1, Explained
  <2> QED BY <2>1
<1>2. FalseAlarmIsExplained <=> [][Explains]_vars
  BY DEF FalseAlarmIsExplained
<1> HIDE DEF Explains
<1> QED BY <1>1, <1>2, FullCorrect, PTL DEF Spec

================================================================================
