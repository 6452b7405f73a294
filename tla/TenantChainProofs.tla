--------------------------- MODULE TenantChainProofs ---------------------------
(***************************************************************************)
(* What a session of the tenant extract may write and leave behind, for    *)
(* any tenant, any settings and any number of sessions, retries and kills. *)
(*                                                                         *)
(* The invariant carries the doctor's verdicts past the gate, to the steps *)
(* that write, and follows each table from the extract to gold: the tables *)
(* before the one in turn are this session's where the landing is JSON,    *)
(* and all are once the last is written.                                   *)
(*                                                                         *)
(* A second invariant, Full, adds the types, what the extract has listed,  *)
(* fetched and still to do, and which sessions the rows it leaves are of.  *)
(***************************************************************************)
EXTENDS TenantChain, FiniteSetTheorems, TLAPS

(* The steps after the gate, and those before the first collector.         *)
Extracting == Requests \cup {"extract", "write"}
Extracted  == {"assert", "goldRead", "goldWrite", "bridge", "done"}
Gated      == Extracting \cup {"token", "assert", "goldRead", "goldWrite", "bridge"}
Preparing  == {"config", "gate", "token"} \cup Checks
Probed     == {"PASS", "FAIL"}

FlowOK ==
  /\ pc \in Running \cup {"idle", "done", "failed"}
  /\ env \in EnvType /\ tbl \in Tables
  /\ pc \in Preparing \cup {"assert", "goldRead"} => tbl = "scanner"

(* Verdicts are given in turn; the gate asks them all but for D1's failure.*)
DoctorOK ==
  /\ report \in [Checks -> {"none", "PASS", "FAIL", "SKIP"}]
  /\ pc = "D2" => report["D1"] = "PASS"
  /\ pc = "D3" => report["D1"] = "PASS" /\ report["D2"] \in Probed
  /\ pc \in {"D4", "D5"} => /\ report["D1"] = "PASS"
                            /\ {report["D2"], report["D3"]} \subseteq Probed
  /\ pc = "gate" /\ report["D1"] # "FAIL" =>
       /\ report["D1"] = "PASS" /\ {report["D2"], report["D3"]} \subseteq Probed
       /\ report["D5"] = "FAIL" \/ DoctorMode \in Modes
  /\ pc \in Gated => /\ \A id \in {"D1", "D2", "D3"} : report[id] = "PASS"
                     /\ report["D5"] = "FAIL" \/ DoctorMode \in Modes

(* The tables before the one in turn; a landed and a gold table of this    *)
(* session.                                                                *)
Earlier(t) == \/ t = "scanner" /\ tbl # "scanner"
              \/ t = "activity" /\ tbl = "refreshables"
Fresh(t) == /\ bronze["json"][t].from = session
            /\ bronze["json"][t].mock = ExtractMock
            /\ bronze["json"][t].whole
Turned(t) == /\ gold["json"][t].from = session
             /\ gold["json"][t].mock = ExtractMock
             /\ gold["json"][t].rows = Transform(t, bronze["json"][t].rows)

FreshOK ==
  Sink = "json" =>
    /\ pc \in Extracting => \A t \in env.enabled : Earlier(t) => Fresh(t)
    /\ pc \in Extracted  => \A t \in env.enabled : Fresh(t)
    /\ pc = "goldWrite"  => \A t \in env.enabled : Earlier(t) => Turned(t)
    /\ pc \in {"bridge", "done"} => \A t \in env.enabled : Turned(t)

IsTable(r) ==
  r = [at |-> r.at, from |-> r.from, mock |-> r.mock, rows |-> r.rows,
       whole |-> r.whole]

(* The stores hold every table.                                            *)
StoresOK ==
  /\ DOMAIN bronze = Sinks /\ \A s \in Sinks : DOMAIN bronze[s] = Tables
  /\ DOMAIN gold = Sinks /\ \A s \in Sinks : DOMAIN gold[s] = Tables \cup {"capacities"}
  /\ \A t \in Tables : IsTable(bronze["json"][t])

IInv == FlowOK /\ DoctorOK /\ FreshOK /\ StoresOK /\ TornFileIsForeign

USE DEF flow

--------------------------------------------------------------------------------
LEMMA InitIInv == Init => IInv
BY ConstantsOK
   DEF Init, IInv, FlowOK, DoctorOK, FreshOK, StoresOK, TornFileIsForeign,
       IsTable, NoTable, Sinks, Tables, Checks, Running, Requests,
       Preparing, Extracting, Extracted, Gated

(* Steps that write no table.                                              *)
LEMMA StoresFrame == ASSUME IInv, UNCHANGED <<bronze, gold>> PROVE StoresOK'
BY DEF IInv, StoresOK, IsTable

(* A failed session keeps its settings, and nothing is asked of it but     *)
(* what it failed at.                                                      *)
LEMMA RaiseKeeps ==
  ASSUME IInv, Raise, pc \in Running,
         pc = "goldRead" => \E t \in Tables : ~GoldSource(t).whole
  PROVE  IInv'
<1>1. FlowOK' /\ DoctorOK'
  BY DEF Raise, IInv, FlowOK, DoctorOK, Preparing, Checks, Gated, Extracting, Requests
<1>2. FreshOK'
  BY DEF Raise, FreshOK, Extracting, Extracted, Requests
<1>3. TornFileIsForeign'
  BY DEF Raise, IInv, FreshOK, Extracted, Fresh, GoldSource, TornFileIsForeign, Sink, Sinks
<1> QED BY <1>1, <1>2, <1>3, StoresFrame DEF IInv, Raise

LEMMA StartKeeps == ASSUME IInv, StartSession PROVE IInv'
<1>1. FlowOK' /\ DoctorOK' /\ FreshOK' /\ TornFileIsForeign'
  BY ConstantsOK
     DEF StartSession, FlowOK, DoctorOK, FreshOK, TornFileIsForeign, Tables, Checks,
         Running, Requests, Preparing, Extracting, Extracted, Gated
<1> QED BY <1>1, StoresFrame DEF IInv, StartSession

(* The doctor: each check is asked once the ones before it have answered.  *)
LEMMA CheckKeeps == ASSUME IInv, Doctor PROVE DoctorOK'
<1>1. PICK id \in Checks, next \in {"D2", "D3", "D4", "D5", "gate"} :
        /\ Check(id, next)
        /\ <<id, next>> \in {<<"D1", "D2">>, <<"D2", "D3">>, <<"D3", "D4">>,
                             <<"D4", "D5">>, <<"D5", "gate">>}
  BY DEF Doctor, Checks
<1>2. PICK status \in Probe(id) :
        /\ report' = [report EXCEPT ![id] = status]
        /\ pc' = IF id = "D1" /\ status = "FAIL" THEN "gate" ELSE next
  BY <1>1 DEF Check
<1>3. /\ status \in {"PASS", "FAIL", "SKIP"}
      /\ id \in {"D1", "D2", "D3", "D5"} => status \in Probed
      /\ id = "D5" /\ status = "PASS" => DoctorMode \in Modes
  BY DEF Probe, Checks, Probed
<1>4. pc = id /\ report \in [Checks -> {"none", "PASS", "FAIL", "SKIP"}]
  BY <1>1 DEF Check, IInv, DoctorOK
<1>5. report' \in [Checks -> {"none", "PASS", "FAIL", "SKIP"}]
  BY <1>2, <1>3, <1>4
<1>6. \A c \in Checks : report'[c] = IF c = id THEN status ELSE report[c]
  BY <1>2, <1>4
<1>7. UNCHANGED DoctorMode
  BY <1>1 DEF Check, DoctorMode, OrMock
<1> QED BY <1>1, <1>2, <1>3, <1>4, <1>5, <1>6, <1>7
        DEF IInv, DoctorOK, Checks, Probed, Gated, Extracting, Requests

LEMMA PrepareKeeps == ASSUME IInv, LoadConfig \/ Doctor PROVE IInv'
<1>1. FlowOK' /\ FreshOK' /\ TornFileIsForeign'
  BY DEF LoadConfig, Doctor, Check, IInv, FlowOK, FreshOK, TornFileIsForeign, Checks,
         Running, Requests, Preparing, Extracting, Extracted, Sink
<1>2. DoctorOK'
  BY CheckKeeps DEF LoadConfig, IInv, DoctorOK, Gated, Extracting, Requests
<1>3. UNCHANGED <<bronze, gold>>
  BY DEF LoadConfig, Doctor, Check
<1> QED BY <1>1, <1>2, <1>3, StoresFrame DEF IInv

(* Steps that go on to a later step of the chain, with no table written.   *)
LEMMA MoveKeeps ==
  ASSUME IInv, UNCHANGED <<session, env, report, tbl, bronze, gold, failedAt>>,
         \/ pc = "gate" /\ Ready /\ pc' = "token"
         \/ pc = "token" /\ pc' = "extract"
         \/ pc \in Extracting /\ pc' \in Extracting
         \/ pc = "assert" /\ pc' = "goldRead"
         \/ pc = "goldRead" /\ pc' = "goldWrite"
  PROVE  IInv'
<1>1. FlowOK' /\ TornFileIsForeign'
  BY DEF IInv, FlowOK, TornFileIsForeign, Running, Requests, Preparing, Extracting, Checks, Sink
<1>2. DoctorOK'
  BY DEF IInv, DoctorOK, Gated, Extracting, Requests, Ready, Required, Probed, DoctorMode,
         OrMock, Checks
<1>3. FreshOK'
  BY DEF IInv, FlowOK, FreshOK, Extracting, Extracted, Requests, Preparing, Earlier, Fresh,
         Turned, Sink, ExtractMock
<1> QED BY <1>1, <1>2, <1>3, StoresFrame DEF IInv

LEMMA RequestKeeps ==
  ASSUME IInv, \/ Throttled \/ Refused \/ ListModified \/ PostWorkspaceInfo
               \/ PollScanStatus \/ FetchScanResult \/ FetchActivityPage
               \/ FetchRefreshables
  PROVE  IInv'
<1>1. Requests \subseteq Extracting /\ Extracting \subseteq Running
      /\ "goldRead" \notin Extracting
  BY DEF Extracting, Requests, Running
<1>2. CASE pc \in Requests /\ Raise
  BY <1>1, <1>2, RaiseKeeps
<1>3. CASE Throttled
  BY <1>1, <1>2, <1>3, MoveKeeps DEF Throttled
<1>4. ASSUME NEW request \in Requests, NEW step \in Extracting, NEW w,
             Answered(request, step, w)
      PROVE  IInv'
  BY <1>1, <1>4, MoveKeeps DEF Answered
<1>5. CASE ListModified
  BY <1>4, <1>5 DEF ListModified, BatchOrWrite, Requests, Extracting
<1>6. CASE PostWorkspaceInfo
  BY <1>4, <1>6 DEF PostWorkspaceInfo, Requests, Extracting
<1>7. CASE PollScanStatus
  BY <1>4, <1>7 DEF PollScanStatus, Requests, Extracting
<1>8. CASE FetchScanResult
  BY <1>4, <1>8 DEF FetchScanResult, BatchOrWrite, Requests, Extracting
<1>9. CASE FetchActivityPage
  BY <1>4, <1>9 DEF FetchActivityPage, Requests, Extracting
<1>10. CASE FetchRefreshables
  BY <1>4, <1>10 DEF FetchRefreshables, Requests, Extracting
<1> QED BY <1>2, <1>3, <1>5, <1>6, <1>7, <1>8, <1>9, <1>10 DEF Refused


--------------------------------------------------------------------------------
(* Going on to the next table leaves behind the earlier ones and this one. *)
LEMMA AdvanceTable ==
  ASSUME NEW step, NEW end, tbl \in Tables, Advance(step, end)
  PROVE  /\ tbl' \in Tables
         /\ \/ pc' = end /\ tbl' = "scanner" /\ \A t \in Tables : Earlier(t) \/ t = tbl
            \/ /\ pc' = step
               /\ \A t \in Tables : Earlier(t)' => Earlier(t) \/ t = tbl
BY DEF Advance, Following, Tables, Earlier

LEMMA BeginKeeps == ASSUME IInv, BeginExtract PROVE IInv'
<1>1. CASE tbl \in env.enabled
  <2>1. pc' \in Extracting /\ UNCHANGED tbl
    BY <1>1 DEF BeginExtract, Extracting, Requests, IInv, FlowOK, Tables
  <2> QED BY <2>1, MoveKeeps DEF BeginExtract, Extracting
<1>2. CASE tbl \notin env.enabled
  <2>1. Advance("extract", "assert") /\ tbl \in Tables /\ env.enabled \subseteq Tables
    BY <1>2 DEF BeginExtract, IInv, FlowOK, EnvType
  <2>2. /\ tbl' \in Tables
        /\ \/ pc' = "assert" /\ tbl' = "scanner" /\ \A t \in Tables : Earlier(t) \/ t = tbl
           \/ pc' = "extract" /\ \A t \in Tables : Earlier(t)' => Earlier(t) \/ t = tbl
    BY <2>1, AdvanceTable
  <2>3. FlowOK' /\ TornFileIsForeign'
    BY <2>2 DEF BeginExtract, IInv, FlowOK, TornFileIsForeign, Running, Requests, Preparing,
       Checks, Sink
  <2>4. DoctorOK'
    BY <2>2 DEF BeginExtract, IInv, DoctorOK, Gated, Extracting, Requests, DoctorMode, OrMock
  <2>5. FreshOK'
    BY <1>2, <2>1, <2>2
       DEF BeginExtract, IInv, FreshOK, Extracting, Extracted, Requests, Fresh, Sink, ExtractMock
  <2> QED BY <2>3, <2>4, <2>5, StoresFrame DEF BeginExtract, IInv
<1> QED BY <1>1, <1>2

LEMMA WriteKeeps == ASSUME IInv, WriteBronze PROVE IInv'
<1>1. Advance("extract", "assert") /\ tbl \in Tables /\ env.enabled \subseteq Tables
  BY DEF WriteBronze, IInv, FlowOK, EnvType
<1>2. /\ tbl' \in Tables
      /\ \/ pc' = "assert" /\ tbl' = "scanner" /\ \A t \in Tables : Earlier(t) \/ t = tbl
         \/ pc' = "extract" /\ \A t \in Tables : Earlier(t)' => Earlier(t) \/ t = tbl
  BY <1>1, AdvanceTable
<1>3. FlowOK' /\ TornFileIsForeign'
  BY <1>2 DEF WriteBronze, IInv, FlowOK, TornFileIsForeign, Running, Requests, Preparing,
     Checks, Sink
<1>4. DoctorOK'
  BY <1>2 DEF WriteBronze, IInv, DoctorOK, Gated, Extracting, Requests, DoctorMode, OrMock
<1>5. /\ bronze' = bronze \/ bronze' = [bronze EXCEPT ![Sink][tbl] = Landed]
      /\ Sink = "json" => bronze' = [bronze EXCEPT !["json"][tbl] = Landed]
  BY DEF WriteBronze, Sink
<1>6. /\ DOMAIN bronze' = Sinks /\ \A s \in Sinks : DOMAIN bronze'[s] = Tables
      /\ \A t \in Tables : bronze'["json"][t] \in {bronze["json"][t]}
                              \cup (IF Sink = "json" THEN {Landed} ELSE {})
      /\ \A t \in Tables \ {tbl} : bronze'["json"][t] = bronze["json"][t]
      /\ Sink = "json" => bronze'["json"][tbl] = Landed
  BY <1>1, <1>5 DEF IInv, StoresOK, Sinks, Sink
<1>7. StoresOK'
  <2>1. IsTable(Landed)
    BY DEF Landed, IsTable
  <2>2. UNCHANGED gold
    BY DEF WriteBronze
  <2> QED BY <1>6, <2>1, <2>2 DEF IInv, StoresOK, IsTable
<1>8. FreshOK'
  <2>1. UNCHANGED <<env, session, ExtractMock, Sink>> /\ pc = "write"
    BY DEF WriteBronze, ExtractMock, Sink
  <2>2. SUFFICES ASSUME Sink = "json"
                 PROVE  \A t \in env.enabled : Earlier(t) \/ t = tbl => Fresh(t)'
    BY <1>1, <1>2, <2>1 DEF FreshOK, Extracting, Extracted, Requests
  <2>3. \A t \in Tables : t = tbl => Fresh(t)'
    <3>1. /\ Landed.from = session /\ Landed.mock = ExtractMock /\ Landed.whole
      BY DEF Landed
    <3> QED BY <1>1, <1>6, <2>1, <2>2, <3>1 DEF Fresh
  <2>4. \A t \in env.enabled : Earlier(t) => Fresh(t)
    BY <2>1, <2>2 DEF IInv, FreshOK, Extracting
  <2>5. \A t \in env.enabled \ {tbl} : Fresh(t) => Fresh(t)'
    BY <1>1, <1>6, <2>1 DEF Fresh
  <2> QED BY <1>1, <2>3, <2>4, <2>5
<1> QED BY <1>3, <1>4, <1>7, <1>8 DEF IInv

(* Steps that pass an assertion or raise.                                  *)
LEMMA AssertKeeps ==
  ASSUME IInv, Gate \/ AcquireToken \/ AssertExtracted \/ ReadBronze
  PROVE  IInv'
<1>1. pc \in Running
  BY DEF Gate, AcquireToken, AssertExtracted, ReadBronze, Running
<1>2. CASE Raise
  BY <1>1, <1>2, RaiseKeeps DEF Raise, Gate, AcquireToken, AssertExtracted, ReadBronze
<1>3. CASE ~Raise
  BY <1>3, MoveKeeps DEF Gate, AcquireToken, AssertExtracted, ReadBronze
<1> QED BY <1>2, <1>3

--------------------------------------------------------------------------------
(* Gold and the bridge.                                                    *)
LEMMA Stamped ==
  ASSUME NEW b, IsTable(b), NEW x, NEW y
  PROVE  LET g == [b EXCEPT !.at = x, !.rows = y]
         IN  g.from = b.from /\ g.mock = b.mock /\ g.rows = y
<1> DEFINE c == [at |-> b.at, from |-> b.from, mock |-> b.mock, rows |-> b.rows,
                 whole |-> b.whole]
           h == [c EXCEPT !.at = x, !.rows = y]
<1>1. b = c
  BY DEF IsTable
<1>2. h.from = b.from /\ h.mock = b.mock /\ h.rows = y
  OBVIOUS
<1> HIDE DEF c
<1> QED BY <1>1, <1>2

(* Replacing a gold table touches it alone, and that in the session's sink.*)
LEMMA ReplacedAlone ==
  ASSUME StoresOK, NEW t \in Tables \cup {"capacities"}, NEW table,
         gold' = Replaced(t, table)
  PROVE  /\ DOMAIN gold' = Sinks
         /\ \A s \in Sinks : DOMAIN gold'[s] = Tables \cup {"capacities"}
         /\ \A s \in Sinks : \A u \in Tables :
              gold'[s][u] = gold[s][u] \/ (u = t /\ gold'[s][u] = table)
         /\ Sink = "json" => gold'["json"][t] = table
<1>0. DOMAIN gold = Sinks /\ \A s \in Sinks : DOMAIN gold[s] = Tables \cup {"capacities"}
  BY DEF StoresOK
<1>1. CASE gold' = gold /\ Sink # "json"
  BY <1>0, <1>1
<1>2. CASE gold' = [gold EXCEPT ![Sink][t] = table]
  <2>1. Sink \in Sinks
    BY DEF Sink, Sinks
  <2>2. "json" \in Sinks
    BY DEF Sinks
  <2> QED BY <1>0, <1>2, <2>1, <2>2
<1> QED BY <1>1, <1>2 DEF Replaced, Sink

LEMMA GoldKeeps == ASSUME IInv, WriteGold PROVE IInv'
<1> DEFINE G == [GoldSource(tbl) EXCEPT !.at = session,
                   !.rows = Transform(tbl, GoldSource(tbl).rows)]
<1>1. Advance("goldWrite", "bridge") /\ tbl \in Tables /\ env.enabled \subseteq Tables
      /\ pc = "goldWrite" /\ gold' = Replaced(tbl, G)
      /\ UNCHANGED <<session, env, report, bronze, failedAt, ExtractMock, Sink>>
  BY DEF WriteGold, IInv, FlowOK, EnvType, ExtractMock, Sink
<1>2. /\ tbl' \in Tables
      /\ \/ pc' = "bridge" /\ tbl' = "scanner" /\ \A t \in Tables : Earlier(t) \/ t = tbl
         \/ pc' = "goldWrite" /\ \A t \in Tables : Earlier(t)' => Earlier(t) \/ t = tbl
  BY <1>1, AdvanceTable
<1>3. /\ G.from = bronze["json"][tbl].from /\ G.mock = bronze["json"][tbl].mock
      /\ \A t \in Tables : t = tbl => G.rows = Transform(t, bronze["json"][t].rows)
  <2>1. IsTable(bronze["json"][tbl])
    BY <1>1 DEF IInv, StoresOK
  <2> QED BY <2>1, Stamped DEF GoldSource
<1> HIDE DEF G
<1>4. /\ DOMAIN gold' = Sinks
      /\ \A s \in Sinks : DOMAIN gold'[s] = Tables \cup {"capacities"}
      /\ \A s \in Sinks : \A t \in Tables :
           gold'[s][t] = gold[s][t] \/ (t = tbl /\ gold'[s][t] = G)
      /\ Sink = "json" => /\ gold'["json"][tbl] = G
                          /\ \A t \in Tables \ {tbl} : gold'["json"][t] = gold["json"][t]
  <2>1. StoresOK /\ "json" \in Sinks /\ G \in {G}
    BY DEF IInv, Sinks
  <2>2. tbl \in Tables \cup {"capacities"}
    BY <1>1
  <2> QED BY <1>1, <2>1, <2>2, ReplacedAlone
<1>5. StoresOK'
  BY <1>1, <1>3, <1>4 DEF IInv, StoresOK, IsTable
<1>6. FlowOK' /\ TornFileIsForeign'
  BY <1>1, <1>2 DEF IInv, FlowOK, TornFileIsForeign, Running, Preparing, Checks
<1>7. DoctorOK'
  BY <1>1, <1>2 DEF IInv, DoctorOK, Gated, DoctorMode, OrMock
<1>8. FreshOK'
  <2>1. SUFFICES ASSUME Sink = "json"
                 PROVE  /\ \A t \in env.enabled : Fresh(t)'
                        /\ \A t \in env.enabled : Earlier(t) \/ t = tbl => Turned(t)'
    BY <1>1, <1>2 DEF FreshOK, Extracting, Extracted, Requests
  <2>2. /\ \A t \in env.enabled : Fresh(t)
        /\ \A t \in env.enabled : Earlier(t) => Turned(t)
    BY <1>1, <2>1 DEF IInv, FreshOK, Extracted
  <2>3. \A t \in env.enabled : Fresh(t)'
    BY <1>1, <2>2 DEF Fresh
  <2>4. ASSUME NEW t \in env.enabled, t = tbl PROVE Turned(t)'
    <3>1. gold'["json"][t] = G /\ G.rows = Transform(t, bronze["json"][t].rows)
      BY <1>1, <1>3, <1>4, <2>1, <2>4
    <3>2. G.from = session /\ G.mock = ExtractMock
      BY <1>3, <2>2, <2>4 DEF Fresh
    <3> QED BY <1>1, <3>1, <3>2 DEF Turned
  <2>5. \A t \in env.enabled \ {tbl} : Turned(t) => Turned(t)'
    BY <1>1, <1>4, <2>1 DEF Turned, Transform
  <2> QED BY <2>2, <2>3, <2>4, <2>5
<1> QED BY <1>5, <1>6, <1>7, <1>8 DEF IInv

LEMMA BridgeKeeps == ASSUME IInv, Bridge PROVE IInv'
<1>1. CASE Raise
  BY <1>1, RaiseKeeps DEF Bridge, Running
<1>2. ASSUME NEW table, gold' = Replaced("capacities", table), pc = "bridge", pc' = "done",
             UNCHANGED <<flow, tbl, tries, work, counts, bronze, failedAt>>
      PROVE  IInv'
  <2>1. /\ DOMAIN gold' = Sinks
        /\ \A s \in Sinks : DOMAIN gold'[s] = Tables \cup {"capacities"}
        /\ \A s \in Sinks : \A t \in Tables : gold'[s][t] = gold[s][t]
    <3>1. StoresOK /\ "capacities" \notin Tables
      BY DEF IInv, Tables
    <3> QED BY <1>2, <3>1, ReplacedAlone
  <2>2. StoresOK'
    BY <1>2, <2>1 DEF IInv, StoresOK, IsTable
  <2>3. FlowOK' /\ DoctorOK' /\ TornFileIsForeign'
    BY <1>2 DEF IInv, FlowOK, DoctorOK, TornFileIsForeign, Preparing, Checks, Gated, Extracting,
       Requests, Sink
  <2>4. FreshOK'
    <3>1. env.enabled \subseteq Tables /\ "json" \in Sinks
          /\ UNCHANGED <<env, session, bronze, ExtractMock, Sink>>
      BY <1>2 DEF IInv, FlowOK, EnvType, Sinks, ExtractMock, Sink
    <3>2. \A t \in env.enabled : (Fresh(t) => Fresh(t)') /\ (Turned(t) => Turned(t)')
      BY <2>1, <3>1 DEF Fresh, Turned, Transform
    <3> QED BY <1>2, <3>1, <3>2 DEF IInv, FreshOK, Extracting, Extracted, Requests
  <2> QED BY <2>2, <2>3, <2>4 DEF IInv
<1> QED BY <1>1, <1>2 DEF Bridge

--------------------------------------------------------------------------------
(* A torn file is of neither store but the landing, and made of no table.  *)
LEMMA TornKeeps == ASSUME IInv, Torn PROVE StoresOK'
<1> DEFINE rest == [at |-> session, from |-> 0, mock |-> FALSE, rows |-> {},
                    whole |-> FALSE]
<1>1. IsTable(rest)
  BY DEF IsTable
<1>2. tbl \in Tables /\ StoresOK
  BY DEF IInv, FlowOK
<1>3. \/ UNCHANGED <<bronze, gold>>
      \/ bronze' = [bronze EXCEPT !["json"][tbl] = rest] /\ UNCHANGED gold
      \/ \E t \in Tables \cup {"capacities"} :
           gold' = [gold EXCEPT !["json"][t] = rest] /\ UNCHANGED bronze
  BY <1>2 DEF Torn
<1> HIDE DEF rest
<1>4. CASE UNCHANGED <<bronze, gold>>
  BY <1>4, StoresFrame
<1>5. CASE bronze' = [bronze EXCEPT !["json"][tbl] = rest] /\ UNCHANGED gold
  BY <1>1, <1>2, <1>5 DEF StoresOK, Sinks, IsTable
<1>6. ASSUME NEW t \in Tables \cup {"capacities"},
             gold' = [gold EXCEPT !["json"][t] = rest] /\ UNCHANGED bronze
      PROVE  StoresOK'
  BY <1>1, <1>2, <1>6 DEF StoresOK, Sinks, IsTable
<1> QED BY <1>3, <1>4, <1>5, <1>6

LEMMA EndKeeps == ASSUME IInv, WriteRaises \/ Kill PROVE IInv'
<1>1. StoresOK'
  BY TornKeeps DEF WriteRaises, Kill
<1>2. FlowOK' /\ DoctorOK' /\ FreshOK'
  BY DEF WriteRaises, Kill, IInv, FlowOK, DoctorOK, FreshOK, Preparing, Checks, Gated,
     Extracting, Extracted, Requests, Tables, Running
<1>3. TornFileIsForeign'
  BY DEF WriteRaises, Kill, IInv, TornFileIsForeign, Sink
<1> QED BY <1>1, <1>2, <1>3 DEF IInv

LEMMA NextIInv == ASSUME IInv, [Next]_vars PROVE IInv'
<1>1. CASE UNCHANGED vars
  BY <1>1, StoresFrame DEF vars, IInv, FlowOK, DoctorOK, FreshOK, TornFileIsForeign, Earlier, Fresh,
     Turned, Sink, ExtractMock, DoctorMode, OrMock
<1>2. CASE Next
  BY <1>2, StartKeeps, PrepareKeeps, AssertKeeps, BeginKeeps, RequestKeeps, WriteKeeps,
     GoldKeeps, BridgeKeeps, EndKeeps DEF Next, Step, Extract
<1> QED BY <1>1, <1>2

(* The invariant holds in every state the specification reaches.           *)
THEOREM InvariantCorrect == Spec => []IInv
BY InitIInv, NextIInv, PTL DEF Spec

(* With the JSON landing a session that ends well has turned its own       *)
(* extract into gold, whatever earlier sessions left.                      *)
THEOREM LandingIsFresh == Spec => []FreshOnLanding
<1>1. IInv => FreshOnLanding
  BY DEF IInv, FreshOK, Extracted, Turned, FreshOnLanding
<1> QED BY <1>1, InvariantCorrect, PTL

(* A torn landing file stops only a session that did not rewrite it.       *)
THEOREM TornIsForeign == Spec => []TornFileIsForeign
<1>1. IInv => TornFileIsForeign
  BY DEF IInv
<1> QED BY <1>1, InvariantCorrect, PTL

(* The bridge meets an unknown mode only past the doctor's warning or      *)
(* through the environment's override.                                     *)
THEOREM UnknownIsOverride == Spec => []UnknownModeIsOverride
<1>1. IInv => UnknownModeIsOverride
  BY DEF IInv, FlowOK, EnvType, DoctorOK, Gated, UnknownModeIsOverride, BridgeMode, DoctorMode,
     OrMock, Modes
<1> QED BY <1>1, InvariantCorrect, PTL

(* No table is written unless the required checks passed in this session.  *)
LEMMA Written ==
  ASSUME IInv, [Next]_vars, bronze' # bronze \/ gold' # gold
  PROVE  \A id \in {"D1", "D2", "D3"} : report[id] = "PASS"
<1>1. pc \in {"write", "goldWrite", "bridge"}
  BY DEF Next, StartSession, Step, LoadConfig, Doctor, Check, Gate, Raise, Extract,
     AcquireToken, BeginExtract, Throttled, Refused, ListModified, PostWorkspaceInfo,
     PollScanStatus, FetchScanResult, FetchActivityPage, FetchRefreshables, Answered,
     WriteBronze, AssertExtracted, ReadBronze, WriteGold, Bridge, WriteRaises, Kill, Torn, vars
<1> QED BY <1>1 DEF IInv, DoctorOK, Gated, Extracting

THEOREM WritesAreGated == Spec => GatedWrites
BY InvariantCorrect, Written, PTL DEF Spec, GatedWrites

--------------------------------------------------------------------------------
(* The extract's progress and the records it has.                          *)
Scanning == {"getInfo", "scanStatus", "scanResult"}

(* While every scan has succeeded, what was listed is landed, in the batch *)
(* or still to do; a poll at its limit is noted.                           *)
WorkOK ==
  /\ pc \in Preparing \cup {"extract"} => work = NoWork
  /\ pc \in {"modified"} \cup Scanning => tbl = "scanner"
  /\ pc \in {"activity", "refreshables"} => tbl = pc
  /\ pc = "modified" => work.acc = {}
  /\ pc \in Extracting /\ tbl = "scanner" => work.acc \subseteq Workspaces
  /\ pc = "scanStatus" => work.polls < MaxPolls
  /\ pc = "scanResult" /\ work.settled => work.polls < MaxPolls
  /\ pc = "getInfo" /\ work.settled => work.listed = work.acc \cup work.todo
  /\ pc \in {"scanStatus", "scanResult"} /\ work.settled =>
       work.listed = work.acc \cup work.batch \cup work.todo
  /\ pc = "activity" => work.listed = work.acc
  /\ ExtractIsComplete

(* Scanner tables hold workspaces, whose items 01a can look up.            *)
RowsOK == \A s \in Sinks : bronze[s]["scanner"].rows \subseteq Workspaces

(* A table of this session, or an older one for which nothing came.        *)
WrittenOrEmpty(t) ==
  bronze[Sink][t].at = session \/ (Sink = "delta" /\ counts[t] = 0)

StaleOK ==
  /\ pc \in Extracting => \A t \in env.enabled : Earlier(t) => WrittenOrEmpty(t)
  /\ pc \in Extracted  => \A t \in env.enabled : WrittenOrEmpty(t)

Full == IInv /\ TypeOK /\ WorkOK /\ RowsOK /\ StaleOK

LEMMA NoWorkType == NoWork \in WorkType
BY ConstantsOK DEF NoWork, WorkType

LEMMA InitFull == Init => Full
<1> SUFFICES ASSUME Init PROVE Full
  OBVIOUS
<1>1. work \in WorkType
  BY NoWorkType DEF Init
<1>2. /\ pc \in Running \cup {"idle", "done", "failed"}
      /\ env \in Envs /\ secret \in BOOLEAN /\ tbl \in Tables
      /\ failedAt \in Running \cup {"none"}
  BY DEF Init, Tables
<1>6. report \in [Checks -> {"none", "PASS", "FAIL", "SKIP"}]
  BY DEF Init
<1>7. counts \in [Tables -> Nat \cup {-1}]
  BY DEF Init
<1>8. session \in 0..MaxSessions /\ tries \in 0..(MaxTries - 1)
  BY ConstantsOK DEF Init
<1>3. \A rows : NoTable \in TableType(rows)
  BY ConstantsOK DEF NoTable, TableType
<1>4. /\ bronze \in [Sinks -> [Tables -> TableType(Records)]]
      /\ gold \in [Sinks -> [Tables \cup {"capacities"} -> TableType(GoldRecords)]]
  BY <1>3 DEF Init
<1>5. WorkOK /\ RowsOK /\ StaleOK
  BY DEF Init, WorkOK, RowsOK, StaleOK, ExtractIsComplete, NoTable, Tables, Preparing,
     Checks, Extracting, Extracted, Requests, Scanning
<1> QED BY <1>1, <1>2, <1>4, <1>5, <1>6, <1>7, <1>8, InitIInv DEF Full, TypeOK

--------------------------------------------------------------------------------
(* The extract in turn.                                                    *)

(* Outside the extract nothing is asked of the work.                       *)
LEMMA WorkEnds ==
  ASSUME Full, pc' \in {"idle", "failed", "done", "assert", "goldRead", "goldWrite",
                        "bridge"}
  PROVE  WorkOK'
BY DEF WorkOK, ExtractIsComplete, Preparing, Checks, Extracting, Requests, Scanning

LEMMA WorkBegins == ASSUME Full, BeginExtract PROVE work' \in WorkType /\ WorkOK'
<1>1. pc = "extract" /\ work = NoWork /\ tbl \in Tables /\ work \in WorkType
  BY DEF BeginExtract, Full, WorkOK, TypeOK
<1>2. CASE tbl \notin env.enabled
  <2>1. UNCHANGED work /\ pc' \in {"extract", "assert"}
    BY <1>2 DEF BeginExtract, Advance
  <2>2. work'.acc = {}
    BY <1>1, <2>1 DEF NoWork
  <2> QED BY <1>1, <2>1, <2>2 DEF WorkOK, ExtractIsComplete, Scanning, Extracting, Requests
<1>3. CASE tbl \in env.enabled /\ ~ExtractMock
  <2>1. work' = NoWork /\ UNCHANGED tbl
        /\ pc' = IF tbl = "scanner" THEN "modified" ELSE tbl
    BY <1>3 DEF BeginExtract
  <2>2. work'.acc = {} /\ work'.listed = {}
    BY <2>1 DEF NoWork
  <2> QED BY <1>1, <2>1, <2>2, NoWorkType
          DEF WorkOK, ExtractIsComplete, Tables, Scanning, Preparing, Checks
<1>4. CASE tbl \in env.enabled /\ ExtractMock
  <2>1. work' = [NoWork EXCEPT !.acc = MockRecords, !.listed = MockRecords, !.n = 1]
        /\ UNCHANGED tbl /\ pc' = "write"
    BY <1>4 DEF BeginExtract
  <2>2. MockRecords \subseteq Records /\ (tbl = "scanner" => MockRecords = Workspaces)
    BY <1>1 DEF MockRecords, Records, Tables
  <2>3. work' \in WorkType
    BY <2>1, <2>2, NoWorkType DEF WorkType
  <2>4. work'.acc = MockRecords /\ work'.listed = MockRecords
    BY <2>1 DEF NoWork
  <2> QED BY <2>1, <2>2, <2>3, <2>4 DEF WorkOK, ExtractIsComplete, Scanning, Preparing, Checks
<1> QED BY <1>2, <1>3, <1>4

LEMMA WorkScans ==
  ASSUME Full, ListModified \/ PostWorkspaceInfo \/ PollScanStatus \/ FetchScanResult
  PROVE  work' \in WorkType /\ WorkOK'
<1>1. /\ work \in WorkType /\ Workspaces \subseteq Records /\ MaxPolls \in Nat \ {0}
      /\ tbl = "scanner" /\ UNCHANGED tbl /\ pc \in Extracting
  BY ConstantsOK
     DEF Full, TypeOK, WorkOK, Scanning, Records, ListModified, PostWorkspaceInfo,
         PollScanStatus, FetchScanResult, Answered, Extracting, Requests
<1>2. work.acc \subseteq Workspaces
  BY <1>1 DEF Full, WorkOK
<1> USE DEF Answered, WorkOK, ExtractIsComplete, Scanning, Preparing, Checks, BatchOrWrite
<1>3. CASE ListModified
  <2>1. PICK ws \in SUBSET Workspaces :
          Answered("modified", BatchOrWrite(ws), [work EXCEPT !.todo = ws, !.listed = ws])
    BY <1>3 DEF ListModified
  <2>2. work' \in WorkType
    BY <1>1, <2>1 DEF WorkType
  <2>3. /\ work'.todo = ws /\ work'.listed = ws /\ work'.acc = {}
        /\ pc' = IF ws = {} THEN "write" ELSE "getInfo"
    BY <1>1, <2>1 DEF WorkType, Full
  <2> QED BY <1>1, <2>2, <2>3
<1>4. CASE PostWorkspaceInfo
  <2>1. PICK b \in SUBSET work.todo :
          Answered("getInfo", "scanStatus",
                   [work EXCEPT !.batch = b, !.todo = @ \ b, !.polls = 0])
    BY <1>4 DEF PostWorkspaceInfo
  <2>2. work' \in WorkType
    <3>1. b \in SUBSET Workspaces /\ work.todo \ b \in SUBSET Workspaces /\ 0 \in 0..MaxPolls
      BY <1>1 DEF WorkType
    <3> QED BY <1>1, <2>1, <3>1 DEF WorkType
  <2>3. /\ work'.todo = work.todo \ b /\ work'.batch = b /\ work'.polls = 0
        /\ work'.acc = work.acc /\ work'.listed = work.listed
        /\ work'.settled = work.settled /\ pc' = "scanStatus" /\ pc = "getInfo"
    BY <1>1, <2>1 DEF WorkType
  <2>4. work'.settled => work'.listed = work'.acc \cup work'.batch \cup work'.todo
    BY <2>3 DEF Full
  <2> QED BY <1>1, <1>2, <2>2, <2>3, <2>4
<1>5. CASE PollScanStatus
  <2>1. pc = "scanStatus" /\ work.polls < MaxPolls
    BY <1>5 DEF PollScanStatus, Full
  <2>2. CASE Answered("scanStatus", "scanResult", work)
    BY <1>1, <1>2, <2>1, <2>2 DEF Full
  <2>3. CASE LET polls == work.polls + 1 IN
             Answered("scanStatus",
                      IF polls = MaxPolls THEN "scanResult" ELSE "scanStatus",
                      [work EXCEPT !.polls = polls, !.settled = @ /\ polls # MaxPolls])
    <3>1. work' \in WorkType
      <4>1. /\ work.polls + 1 \in 0..MaxPolls
            /\ (work.settled /\ work.polls + 1 # MaxPolls) \in BOOLEAN
        BY <1>1, <2>1 DEF WorkType
      <4>2. work' = [work EXCEPT !.polls = work.polls + 1,
                                 !.settled = work.settled /\ work.polls + 1 # MaxPolls]
        BY <2>3
      <4> QED BY <1>1, <4>1, <4>2 DEF WorkType
    <3>2. /\ work'.todo = work.todo /\ work'.batch = work.batch
          /\ work'.acc = work.acc /\ work'.listed = work.listed
          /\ work'.polls = work.polls + 1
          /\ work'.settled <=> work.settled /\ work.polls + 1 # MaxPolls
          /\ pc' = IF work.polls + 1 = MaxPolls THEN "scanResult" ELSE "scanStatus"
      BY <1>1, <2>3 DEF WorkType
    <3>3. pc' = "scanStatus" => work'.polls < MaxPolls
      BY <1>1, <2>1, <3>2 DEF WorkType
    <3>4. work'.settled => work'.listed = work'.acc \cup work'.batch \cup work'.todo
      BY <2>1, <3>2 DEF Full
    <3>5. pc' = "scanResult" => ~work'.settled
      BY <3>2
    <3> QED BY <1>1, <1>2, <3>1, <3>2, <3>3, <3>4, <3>5
  <2> QED BY <1>5, <2>2, <2>3 DEF PollScanStatus
<1>6. CASE FetchScanResult
  <2>1. PICK part \in SUBSET work.batch :
          /\ (work.polls < MaxPolls) => part = work.batch
          /\ Answered("scanResult", BatchOrWrite(work.todo),
                      [work EXCEPT !.acc = @ \cup part, !.n = @ + 1])
    BY <1>6 DEF FetchScanResult
  <2>2. work' \in WorkType /\ work'.acc \subseteq Workspaces
    <3>1. /\ work.acc \cup part \subseteq Workspaces
          /\ work.acc \cup part \in SUBSET Records /\ work.n + 1 \in Nat
      BY <1>1, <1>2 DEF WorkType
    <3>2. work' = [work EXCEPT !.acc = work.acc \cup part, !.n = work.n + 1]
      BY <2>1
    <3> QED BY <1>1, <3>1, <3>2 DEF WorkType
  <2>3. /\ work'.todo = work.todo /\ work'.acc = work.acc \cup part
        /\ work'.listed = work.listed /\ work'.settled = work.settled
        /\ pc = "scanResult" /\ pc' = IF work.todo = {} THEN "write" ELSE "getInfo"
    BY <1>1, <2>1 DEF WorkType
  <2>4. work'.settled => work'.listed = work'.acc \cup work'.todo
    BY <2>1, <2>3 DEF Full
  <2> QED BY <1>1, <2>2, <2>3, <2>4
<1> QED BY <1>3, <1>4, <1>5, <1>6

LEMMA WorkPages ==
  ASSUME Full, FetchActivityPage PROVE work' \in WorkType /\ WorkOK'
<1>1. /\ work \in WorkType /\ pc = "activity" /\ tbl = "activity"
      /\ work.listed = work.acc /\ UNCHANGED tbl /\ pc' \in {"write", "activity"}
  BY DEF Full, TypeOK, WorkOK, FetchActivityPage, Answered
<1>2. PICK page \in SUBSET (Events \ work.acc), more \in BOOLEAN :
        /\ work' = [work EXCEPT !.acc = @ \cup page, !.listed = @ \cup page,
                                !.n = @ + Cardinality(page),
                                !.pages = IF more THEN 1 - @ ELSE 0,
                                !.day = IF more \/ @ = 0 THEN @ ELSE @ - 1]
  BY DEF FetchActivityPage, Answered
<1>3. Cardinality(page) \in Nat
  BY ConstantsOK, FS_Subset, FS_CardinalityType
<1>4. work' \in WorkType
  <2>1. /\ work.acc \cup page \in SUBSET Records /\ work.listed \cup page \in SUBSET Records
        /\ work.n + Cardinality(page) \in Nat
    BY <1>1, <1>3 DEF WorkType, Records
  <2>2. /\ (IF more THEN 1 - work.pages ELSE 0) \in 0..1
        /\ (IF more \/ work.day = 0 THEN work.day ELSE work.day - 1) \in 0..Lookback
    BY ConstantsOK, <1>1, <1>2 DEF WorkType
  <2> QED BY <1>1, <1>2, <2>1, <2>2 DEF WorkType
<1>5. work'.acc = work'.listed
  BY <1>1, <1>2 DEF WorkType
<1> QED BY <1>1, <1>4, <1>5
        DEF WorkOK, ExtractIsComplete, Scanning, Preparing, Checks

LEMMA WorkRefreshables ==
  ASSUME Full, FetchRefreshables PROVE work' \in WorkType /\ WorkOK'
<1>1. /\ work \in WorkType /\ tbl = "refreshables" /\ UNCHANGED tbl /\ pc' = "write"
  BY DEF Full, TypeOK, WorkOK, FetchRefreshables, Answered
<1>2. PICK all \in SUBSET Refreshables : \E first \in SUBSET all :
        /\ Cardinality(first) <= Top /\ (first = all \/ Cardinality(first) = Top)
        /\ work' = [work EXCEPT !.acc = first, !.listed = all, !.n = Cardinality(first)]
  BY DEF FetchRefreshables, Answered
<1>3. PICK first \in SUBSET all :
        /\ first = all \/ Cardinality(first) = Top
        /\ work' = [work EXCEPT !.acc = first, !.listed = all, !.n = Cardinality(first)]
  BY <1>2
<1>4. /\ IsFiniteSet(all) /\ IsFiniteSet(first)
      /\ Cardinality(all) \in Nat /\ Cardinality(first) \in Nat
  BY ConstantsOK, FS_Subset, FS_CardinalityType
<1>5. work' \in WorkType /\ work'.acc = first /\ work'.listed = all
  BY <1>1, <1>3, <1>4 DEF WorkType, Records
<1>6. first # all => Cardinality(all) > Top
  BY ConstantsOK, <1>3, <1>4, FS_Subset
<1> QED BY <1>1, <1>5, <1>6
        DEF WorkOK, ExtractIsComplete, Scanning, Preparing, Checks

(* Every step keeps the extract's progress consistent.                     *)
LEMMA WorkKeeps == ASSUME Full, [Next]_vars PROVE work' \in WorkType /\ WorkOK'
<1>1. work \in WorkType /\ WorkOK
  BY DEF Full, TypeOK
<1>2. CASE UNCHANGED vars
  BY <1>1, <1>2 DEF vars, WorkOK, ExtractIsComplete
<1>3. CASE StartSession
  BY <1>3, NoWorkType
     DEF StartSession, WorkOK, ExtractIsComplete, Scanning, Extracting, Requests
<1>4. CASE LoadConfig \/ Doctor \/ (Gate /\ ~Raise) \/ (AcquireToken /\ ~Raise)
  <2>1. UNCHANGED <<work, tbl>> /\ work = NoWork /\ pc' \in Preparing \cup {"extract"}
    BY <1>1, <1>4
       DEF LoadConfig, Doctor, Check, Gate, AcquireToken, WorkOK, Preparing, Checks
  <2>2. work.acc = {}
    BY <2>1 DEF NoWork
  <2> QED BY <1>1, <2>1, <2>2
          DEF WorkOK, ExtractIsComplete, Scanning, Preparing, Checks
<1>5. CASE Throttled /\ ~Raise
  BY <1>1, <1>5 DEF Throttled, WorkOK, ExtractIsComplete
<1>6. CASE Raise
  BY <1>1, <1>6, WorkEnds DEF Raise
<1>7. CASE BeginExtract
  BY <1>7, WorkBegins
<1>8. CASE ListModified \/ PostWorkspaceInfo \/ PollScanStatus \/ FetchScanResult
  BY <1>8, WorkScans
<1>9. CASE FetchActivityPage \/ FetchRefreshables
  BY <1>9, WorkPages, WorkRefreshables
<1>10. CASE WriteBronze
  <2>1. work' = NoWork /\ pc' \in {"extract", "assert"}
    BY <1>10 DEF WriteBronze, Advance
  <2>2. work'.acc = {}
    BY <2>1 DEF NoWork
  <2> QED BY <2>1, <2>2, NoWorkType DEF WorkOK, ExtractIsComplete, Scanning
<1>11. CASE (AssertExtracted /\ ~Raise) \/ (ReadBronze /\ ~Raise) \/ WriteGold \/ (Bridge /\ ~Raise)
  <2>1. UNCHANGED work /\ pc' \in {"goldRead", "goldWrite", "bridge", "done"}
    BY <1>11 DEF AssertExtracted, ReadBronze, WriteGold, Bridge, Advance
  <2> QED BY <1>1, <2>1, WorkEnds
<1>12. CASE WriteRaises \/ Kill
  <2>1. work' \in {work, NoWork} /\ pc' \in {"idle", "failed"}
    BY <1>12 DEF WriteRaises, Kill
  <2> QED BY <1>1, <2>1, NoWorkType, WorkEnds
<1> QED BY <1>2, <1>3, <1>4, <1>5, <1>6, <1>7, <1>8, <1>9, <1>10, <1>11, <1>12
        DEF Next, Step, Extract, Refused

--------------------------------------------------------------------------------
(* The other types.                                                        *)
LEMMA SettingsTyped ==
  ASSUME Full, [Next]_vars
  PROVE  /\ session' \in 0..MaxSessions /\ env' \in Envs /\ secret' \in BOOLEAN
         /\ tries' \in 0..(MaxTries - 1) /\ failedAt' \in Running \cup {"none"}
         /\ counts' \in [Tables -> Nat \cup {-1}]
<1> USE DEF Full, TypeOK
<1>a. /\ 0 \in 0..(MaxTries - 1) /\ MaxSessions \in Nat /\ MaxTries \in Nat \ {0}
      /\ [t \in Tables |-> -1] \in [Tables -> Nat \cup {-1}]
  BY ConstantsOK
<1>1. CASE StartSession
  <2>1. session + 1 \in 0..MaxSessions
    BY <1>1, <1>a DEF StartSession
  <2> QED BY <1>1, <1>a, <2>1 DEF StartSession
<1>2. CASE LoadConfig
  <2>1. env.inline \in BOOLEAN
    BY ConstantsOK DEF EnvType
  <2> QED BY <1>2, <2>1 DEF LoadConfig
<1>3. CASE Throttled /\ ~Raise
  <2>1. tries + 1 \in 0..(MaxTries - 1)
    BY <1>3, <1>a DEF Throttled
  <2> QED BY <1>3, <2>1 DEF Throttled
<1>4. CASE Raise /\ pc \in Running
  BY <1>4 DEF Raise
<1>5. CASE \/ ListModified \/ PostWorkspaceInfo \/ PollScanStatus \/ FetchScanResult
           \/ FetchActivityPage \/ FetchRefreshables
  <2>1. UNCHANGED <<session, env, secret, counts, failedAt>> /\ tries' = 0
    BY <1>5 DEF ListModified, PostWorkspaceInfo, PollScanStatus, FetchScanResult,
       FetchActivityPage, FetchRefreshables, Answered
  <2> QED BY <2>1, ConstantsOK
<1>6. CASE WriteBronze
  <2>1. work.n \in Nat /\ counts' = [counts EXCEPT ![tbl] = work.n]
    BY <1>6 DEF WriteBronze, WorkType
  <2> QED BY <1>6, <2>1 DEF WriteBronze
<1>7. CASE WriteRaises
  BY <1>7 DEF WriteRaises, Running
<1>8. CASE Kill
  BY <1>8, <1>a DEF Kill
<1>9. CASE \/ Doctor \/ BeginExtract \/ WriteGold \/ UNCHANGED vars
           \/ ~Raise /\ (Gate \/ AcquireToken \/ AssertExtracted \/ ReadBronze \/ Bridge)
  BY <1>9 DEF Doctor, Check, BeginExtract, WriteGold, vars, Gate, AcquireToken,
     AssertExtracted, ReadBronze, Bridge
<1>10. Gate \/ AcquireToken \/ Throttled \/ Refused \/ AssertExtracted \/ ReadBronze \/ Bridge
         => pc \in Running
  BY DEF Gate, AcquireToken, Throttled, Refused, AssertExtracted, ReadBronze, Bridge, Running
<1> QED BY <1>1, <1>2, <1>3, <1>4, <1>5, <1>6, <1>7, <1>8, <1>9, <1>10
        DEF Next, Step, Extract, Refused

LEMMA GoldRecordsHold == Records \subseteq GoldRecords /\ Capacities \subseteq GoldRecords
BY DEF GoldRecords

(* The items of workspaces, and the rows of the other tables.              *)
LEMMA TransformTyped ==
  ASSUME NEW t \in Tables, NEW rows \in SUBSET Records,
         t = "scanner" => rows \subseteq Workspaces
  PROVE  Transform(t, rows) \in SUBSET GoldRecords
<1>1. CASE t = "scanner"
  <2>1. UNION {ItemsIn[w] : w \in rows} \subseteq UNION {ItemsIn[w] : w \in Workspaces}
    BY <1>1
  <2> QED BY <1>1, <2>1 DEF Transform, GoldRecords
<1>2. CASE t # "scanner"
  BY <1>2, GoldRecordsHold DEF Transform
<1> QED BY <1>1, <1>2

LEMMA BronzeTyped ==
  ASSUME Full, [Next]_vars
  PROVE  bronze' \in [Sinks -> [Tables -> TableType(Records)]] /\ RowsOK'
<1>1. /\ bronze \in [Sinks -> [Tables -> TableType(Records)]] /\ RowsOK
      /\ tbl \in Tables /\ session \in 0..MaxSessions /\ MaxSessions \in Nat
  BY ConstantsOK DEF Full, TypeOK
<1>2. ASSUME NEW s \in Sinks, NEW table \in TableType(Records),
             tbl = "scanner" => table.rows \subseteq Workspaces,
             bronze' = [bronze EXCEPT ![s][tbl] = table]
      PROVE  bronze' \in [Sinks -> [Tables -> TableType(Records)]] /\ RowsOK'
  <2>1. bronze' \in [Sinks -> [Tables -> TableType(Records)]]
    BY <1>1, <1>2
  <2>2. ASSUME NEW u \in Sinks
        PROVE  bronze'[u]["scanner"].rows \subseteq Workspaces
    <3>1. bronze'[u]["scanner"] =
            IF u = s /\ tbl = "scanner" THEN table ELSE bronze[u]["scanner"]
      BY <1>1, <1>2 DEF Tables
    <3> QED BY <1>1, <1>2, <3>1 DEF RowsOK
  <2> QED BY <2>1, <2>2 DEF RowsOK
<1>3. CASE UNCHANGED bronze
  BY <1>1, <1>3 DEF RowsOK
<1>4. CASE WriteBronze /\ ~UNCHANGED bronze
  <2>1. /\ bronze' = [bronze EXCEPT ![Sink][tbl] = Landed]
        /\ pc = "write" /\ Sink \in Sinks
    BY <1>4 DEF WriteBronze, Sink, Sinks
  <2>2. Landed \in TableType(Records)
    BY <1>1, <2>1 DEF Full, TypeOK, WorkType, Landed, TableType, ExtractMock
  <2>3. tbl = "scanner" => Landed.rows \subseteq Workspaces
    BY <2>1 DEF Full, WorkOK, Extracting, Landed
  <2> QED BY <1>2, <2>1, <2>2, <2>3
<1>5. CASE Torn /\ ~UNCHANGED bronze
  <2> DEFINE rest == [at |-> session, from |-> 0, mock |-> FALSE, rows |-> {},
                      whole |-> FALSE]
  <2>1. bronze' = [bronze EXCEPT !["json"][tbl] = rest] /\ "json" \in Sinks
    BY <1>5 DEF Torn, Sinks
  <2>2. rest \in TableType(Records) /\ rest.rows = {}
    BY <1>1 DEF TableType
  <2> HIDE DEF rest
  <2> QED BY <1>2, <2>1, <2>2
<1>6. WriteBronze \/ Torn \/ UNCHANGED bronze
  BY DEF Next, StartSession, Step, LoadConfig, Doctor, Check, Gate, Raise, Extract,
     AcquireToken, BeginExtract, Throttled, Refused, ListModified, PostWorkspaceInfo,
     PollScanStatus, FetchScanResult, FetchActivityPage, FetchRefreshables, Answered,
     AssertExtracted, ReadBronze, WriteGold, Bridge, WriteRaises, Kill, vars
<1> QED BY <1>3, <1>4, <1>5, <1>6

LEMMA GoldTyped ==
  ASSUME Full, [Next]_vars
  PROVE  gold' \in [Sinks -> [Tables \cup {"capacities"} -> TableType(GoldRecords)]]
<1> DEFINE Golds == [Sinks -> [Tables \cup {"capacities"} -> TableType(GoldRecords)]]
<1>1. /\ gold \in Golds /\ tbl \in Tables /\ session \in 0..MaxSessions
      /\ MaxSessions \in Nat /\ Sink \in Sinks /\ "json" \in Sinks
  BY ConstantsOK DEF Full, TypeOK, Sink, Sinks
<1>2. ASSUME NEW s \in Sinks, NEW t \in Tables \cup {"capacities"},
             NEW table \in TableType(GoldRecords),
             gold' = [gold EXCEPT ![s][t] = table]
      PROVE  gold' \in Golds
  BY <1>1, <1>2
<1>3. CASE WriteGold
  <2> DEFINE b == GoldSource(tbl)
             G == [b EXCEPT !.at = session, !.rows = Transform(tbl, b.rows)]
  <2>1. b \in TableType(Records) /\ (tbl = "scanner" => b.rows \subseteq Workspaces)
    BY <1>1 DEF Full, TypeOK, RowsOK, GoldSource
  <2>2. b.rows \in SUBSET Records
    BY <2>1 DEF TableType
  <2>3. Transform(tbl, b.rows) \in SUBSET GoldRecords
    BY <1>1, <2>1, <2>2, TransformTyped
  <2>4. G \in TableType(GoldRecords)
    <3>1. b \in [at: 0..MaxSessions, from: 0..MaxSessions, mock: BOOLEAN,
                 rows: SUBSET Records, whole: BOOLEAN]
      BY <2>1 DEF TableType
    <3> HIDE DEF b
    <3> QED BY <1>1, <2>3, <3>1 DEF TableType
  <2>5. gold' = Replaced(tbl, G)
    BY <1>3 DEF WriteGold
  <2> HIDE DEF G
  <2> QED BY <1>1, <1>2, <2>4, <2>5 DEF Replaced
<1>4. CASE Bridge /\ ~UNCHANGED gold
  <2>1. PICK rows \in SUBSET Capacities :
          gold' = Replaced("capacities",
                    [at |-> session, from |-> session, mock |-> BridgeMode = "mock",
                     rows |-> rows, whole |-> TRUE])
    BY <1>4 DEF Bridge, Raise
  <2> DEFINE G == [at |-> session, from |-> session, mock |-> BridgeMode = "mock",
                   rows |-> rows, whole |-> TRUE]
  <2>2. G \in TableType(GoldRecords)
    <3>1. rows \in SUBSET GoldRecords /\ (BridgeMode = "mock") \in BOOLEAN
      BY GoldRecordsHold
    <3> QED BY <1>1, <3>1 DEF TableType
  <2> HIDE DEF G
  <2>3. gold' = [gold EXCEPT ![Sink]["capacities"] = G]
    BY <1>4, <2>1 DEF Replaced, G
  <2> QED BY <1>1, <1>2, <2>2, <2>3
<1>5. CASE Torn /\ ~UNCHANGED gold
  <2> DEFINE rest == [at |-> session, from |-> 0, mock |-> FALSE, rows |-> {},
                      whole |-> FALSE]
  <2>1. \E t \in Tables \cup {"capacities"} : gold' = [gold EXCEPT !["json"][t] = rest]
    BY <1>1, <1>5 DEF Torn
  <2>2. rest \in TableType(GoldRecords)
    BY <1>1 DEF TableType
  <2> HIDE DEF rest
  <2> QED BY <1>1, <1>2, <2>1, <2>2
<1>6. WriteGold \/ Bridge \/ Torn \/ UNCHANGED gold
  BY DEF Next, StartSession, Step, LoadConfig, Doctor, Check, Gate, Raise, Extract,
     AcquireToken, BeginExtract, Throttled, Refused, ListModified, PostWorkspaceInfo,
     PollScanStatus, FetchScanResult, FetchActivityPage, FetchRefreshables, Answered,
     AssertExtracted, ReadBronze, WriteBronze, WriteRaises, Kill, vars
<1> QED BY <1>1, <1>3, <1>4, <1>5, <1>6

--------------------------------------------------------------------------------
(* What an older table says.                                               *)

(* Steps that leave the counts and bronze as they are.                     *)
LEMMA StaleFrame ==
  ASSUME Full, UNCHANGED <<session, env, counts, bronze>>,
         \/ pc' \notin Extracting \cup Extracted
         \/ UNCHANGED tbl /\ (pc \in Extracting <=> pc' \in Extracting)
                          /\ (pc \in Extracted <=> pc' \in Extracted)
         \/ pc' \in Extracted /\ pc \in Extracted
  PROVE  StaleOK'
<1>1. Extracting \cap Extracted = {}
  BY DEF Extracting, Extracted, Requests
<1> QED BY <1>1 DEF Full, StaleOK, WrittenOrEmpty, Earlier, Sink

LEMMA StaleKeeps == ASSUME Full, [Next]_vars PROVE StaleOK'
<1>0. tbl \in Tables /\ env.enabled \subseteq Tables /\ counts \in [Tables -> Nat \cup {-1}]
      /\ Sink \in Sinks /\ bronze \in [Sinks -> [Tables -> TableType(Records)]]
  BY ConstantsOK DEF Full, TypeOK, EnvType, Sink, Sinks
<1>1. CASE UNCHANGED vars
  BY <1>1, StaleFrame DEF vars
<1>2. CASE StartSession \/ Kill \/ WriteRaises
  BY <1>2 DEF StartSession, Kill, WriteRaises, StaleOK, Extracting, Extracted, Requests
<1>3. CASE Raise
  BY <1>3, StaleFrame DEF Raise, Extracting, Extracted, Requests
<1>4. CASE LoadConfig \/ Doctor \/ (Gate /\ ~Raise)
  BY <1>4, StaleFrame DEF LoadConfig, Doctor, Check, Gate, Extracting, Extracted, Requests
<1>5. CASE AcquireToken /\ ~Raise
  <2>1. tbl = "scanner" /\ UNCHANGED tbl /\ pc' = "extract"
    BY <1>5 DEF AcquireToken, Full, IInv, FlowOK, Preparing
  <2> QED BY <2>1 DEF StaleOK, Earlier, Extracted
<1>6. CASE \/ Throttled /\ ~Raise
           \/ ListModified \/ PostWorkspaceInfo \/ PollScanStatus \/ FetchScanResult
           \/ FetchActivityPage \/ FetchRefreshables
  <2>1. /\ pc \in Extracting /\ pc' \in Extracting
        /\ UNCHANGED <<session, env, counts, bronze, tbl>>
    BY <1>6 DEF Throttled, ListModified, PostWorkspaceInfo, PollScanStatus, FetchScanResult,
       FetchActivityPage, FetchRefreshables, Answered, BatchOrWrite, Extracting, Requests
  <2>2. pc \notin Extracted /\ pc' \notin Extracted
    BY <2>1 DEF Extracting, Extracted, Requests
  <2> QED BY <2>1, <2>2, StaleFrame
<1>7. CASE BeginExtract /\ tbl \in env.enabled
  <2>1. /\ pc \in Extracting /\ pc' \in Extracting
        /\ UNCHANGED <<session, env, counts, bronze, tbl>>
    BY <1>0, <1>7 DEF BeginExtract, Extracting, Requests, Tables
  <2>2. pc \notin Extracted /\ pc' \notin Extracted
    BY <2>1 DEF Extracting, Extracted, Requests
  <2> QED BY <2>1, <2>2, StaleFrame
<1>8. CASE BeginExtract /\ tbl \notin env.enabled
  <2>1. \/ pc' = "assert" /\ tbl' = "scanner" /\ \A t \in Tables : Earlier(t) \/ t = tbl
        \/ pc' = "extract" /\ \A t \in Tables : Earlier(t)' => Earlier(t) \/ t = tbl
    BY <1>0, <1>8, AdvanceTable DEF BeginExtract
  <2>2. /\ UNCHANGED <<session, env, counts, bronze, Sink>> /\ pc \in Extracting
    BY <1>8 DEF BeginExtract, Sink, Extracting
  <2>3. \A t \in env.enabled : Earlier(t) => WrittenOrEmpty(t)'
    BY <2>2 DEF Full, StaleOK, WrittenOrEmpty
  <2> QED BY <1>0, <1>8, <2>1, <2>2, <2>3 DEF StaleOK, Extracting, Extracted, Requests
<1>9. CASE WriteBronze
  <2>1. \/ pc' = "assert" /\ tbl' = "scanner" /\ \A t \in Tables : Earlier(t) \/ t = tbl
        \/ pc' = "extract" /\ \A t \in Tables : Earlier(t)' => Earlier(t) \/ t = tbl
    BY <1>0, <1>9, AdvanceTable DEF WriteBronze
  <2>2. /\ UNCHANGED <<session, env, Sink>> /\ pc \in Extracting
        /\ counts' = [counts EXCEPT ![tbl] = work.n]
    BY <1>9 DEF WriteBronze, Sink, Extracting
  <2>3. \A t \in Tables : t = tbl => WrittenOrEmpty(t)'
    <3>1. CASE Sink = "delta" /\ work.n = 0
      BY <1>0, <2>2, <3>1 DEF WrittenOrEmpty
    <3>2. CASE ~(Sink = "delta" /\ work.n = 0)
      <4>1. bronze'[Sink][tbl] = Landed
        BY <1>0, <1>9, <3>2 DEF WriteBronze
      <4>2. Landed.at = session
        BY DEF Landed
      <4> QED BY <2>2, <4>1, <4>2 DEF WrittenOrEmpty
    <3> QED BY <3>1, <3>2
  <2>4. \A t \in Tables \ {tbl} : WrittenOrEmpty(t) => WrittenOrEmpty(t)'
    <3>1. \A t \in Tables \ {tbl} : /\ bronze'[Sink][t] = bronze[Sink][t]
                                    /\ counts'[t] = counts[t]
      BY <1>0, <1>9, <2>2 DEF WriteBronze
    <3> QED BY <2>2, <3>1 DEF WrittenOrEmpty
  <2>5. \A t \in env.enabled : Earlier(t) => WrittenOrEmpty(t)
    BY <2>2 DEF Full, StaleOK
  <2> QED BY <1>0, <2>1, <2>2, <2>3, <2>4, <2>5 DEF StaleOK, Extracting, Extracted, Requests
<1>10. CASE \/ ~Raise /\ (AssertExtracted \/ ReadBronze \/ Bridge)
            \/ WriteGold
  <2>1. /\ pc \in Extracted /\ pc' \in Extracted
        /\ UNCHANGED <<session, env, counts, bronze>>
    BY <1>10 DEF AssertExtracted, ReadBronze, WriteGold, Bridge, Advance, Extracted
  <2> QED BY <2>1, StaleFrame
<1> QED BY <1>1, <1>2, <1>3, <1>4, <1>5, <1>6, <1>7, <1>8, <1>9, <1>10
        DEF Next, Step, Extract, Refused

LEMMA NextFull == ASSUME Full, [Next]_vars PROVE Full'
<1>1. IInv'
  BY NextIInv DEF Full
<1>2. TypeOK'
  <2>1. /\ pc' \in Running \cup {"idle", "done", "failed"} /\ tbl' \in Tables
        /\ report' \in [Checks -> {"none", "PASS", "FAIL", "SKIP"}]
    BY <1>1 DEF IInv, FlowOK, DoctorOK
  <2> QED BY <2>1, SettingsTyped, WorkKeeps, BronzeTyped, GoldTyped DEF TypeOK
<1> QED BY <1>1, <1>2, WorkKeeps, BronzeTyped, StaleKeeps DEF Full

(* The invariant with the extract's progress and all types.                *)
THEOREM FullCorrect == Spec => []Full
BY InitFull, NextFull, PTL DEF Spec

(* Steps, settings, progress and tables keep their types: the scanner's    *)
(* table holds workspaces only, or 01a could not look their items up.      *)
THEOREM TypeCorrect == Spec => []TypeOK
<1>1. Full => TypeOK
  BY DEF Full
<1> QED BY <1>1, FullCorrect, PTL

(* An extract that reaches the write has everything the service listed but *)
(* what a scan given up at its limit or the one page of refreshables drop: *)
(* whatever was throttled, in batches of any size.                         *)
THEOREM ExtractComplete == Spec => []ExtractIsComplete
<1>1. Full => ExtractIsComplete
  BY DEF Full, WorkOK
<1> QED BY <1>1, FullCorrect, PTL

(* After a session that ended well an older bronze table of a collector it *)
(* ran means that zero records came, and that the store is Delta.          *)
THEOREM StaleEmpty == Spec => []StaleIsEmpty
<1>1. Full => StaleIsEmpty
  BY DEF Full, StaleOK, WrittenOrEmpty, StaleIsEmpty, Extracted
<1> QED BY <1>1, FullCorrect, PTL

================================================================================
