---------------------- MODULE EventLogCollectorProofs ----------------------
(***************************************************************************)
(* Proofs about the event-log collector, for every set of events, lookback *)
(* and bound.  NoSilentLoss needs a host that is not west of UTC: there    *)
(* the code's window starts at or before the saved watermark.  On any host *)
(* what is lost lies in the gap between the two.                           *)
(***************************************************************************)
EXTENDS EventLogCollector, TLAPS

LEMMA SecondOfBelow ==
  ASSUME NEW t \in Int
  PROVE  SecondOf(t) \in Int /\ SecondOf(t) <= t
<1>1. TicksPerSecond \in Nat \ {0}
  BY ClockAssumption
<1>2. t % TicksPerSecond \in 0..(TicksPerSecond - 1)
  BY <1>1
<1>3. QED
  BY <1>2 DEF SecondOf

LEMMA InitType == Init => TypeOK
BY ClockAssumption DEF Init, TypeOK, Phases

LEMMA NextType == TypeOK /\ [Next]_vars => TypeOK'
<1> SUFFICES ASSUME TypeOK, [Next]_vars PROVE TypeOK'
  OBVIOUS
<1> USE DEF TypeOK, Phases, windowsVars, outputVars, runVars, historyVars
<1>1. CASE Tick
  BY <1>1 DEF Tick
<1>2. ASSUME NEW e \in Events, WindowsLogs(e) PROVE TypeOK'
  BY <1>2 DEF WindowsLogs
<1>3. CASE StartRun
  BY <1>3, SecondOfBelow, ClockAssumption DEF StartRun, StartTime
<1>4. CASE QueryApplication \/ QuerySystem
  BY <1>4 DEF QueryApplication, QuerySystem, Query, InWindow
<1>5. CASE Stage
  BY <1>5 DEF Stage
<1>6. CASE TruncateWatermark
  BY <1>6 DEF TruncateWatermark
<1>7. CASE SaveWatermark
  BY <1>7 DEF SaveWatermark, ForgetRun
<1>8. CASE Crash
  BY <1>8 DEF Crash, ForgetRun
<1>9. CASE UNCHANGED vars
  BY <1>9 DEF vars
<1>10. QED
  BY <1>1, <1>2, <1>3, <1>4, <1>5, <1>6, <1>7, <1>8, <1>9 DEF Next, Run

\* The state of the collector and of the two logs is well-formed.
THEOREM TypeCorrect == Spec => []TypeOK
BY InitType, NextType, PTL DEF Spec

----------------------------------------------------------------------------

LEMMA InitInv == Init => IInv
<1> SUFFICES ASSUME Init PROVE IInv
  OBVIOUS
<1>1. TicksPerSecond \in Nat \ {0}
  BY ClockAssumption
<1>2. QED
  BY <1>1, InitType DEF Init, IInv, RunInv, NoSilentLoss, QueriedLogs

LEMMA NextInv ==
  ASSUME UtcOffset >= 0
  PROVE  IInv /\ [Next]_vars => IInv'
<1> SUFFICES ASSUME IInv, [Next]_vars PROVE IInv'
  OBVIOUS
<1> USE DEF windowsVars, outputVars, runVars, historyVars
<1>1. TypeOK /\ TypeOK'
  BY NextType DEF IInv
<1>2. CASE Tick
  <2>1. RunInv'
    BY <1>1, <1>2 DEF Tick, IInv, RunInv, QueriedLogs, TypeOK
  <2>2. NoSilentLoss'
    BY <1>2 DEF Tick, IInv, NoSilentLoss
  <2>3. QED
    BY <1>1, <2>1, <2>2 DEF IInv
<1>3. ASSUME NEW e \in Events, WindowsLogs(e) PROVE IInv'
  <2>1. \A x \in logged : x # e /\ time'[x] = time[x]
    BY <1>1, <1>3 DEF WindowsLogs, TypeOK
  <2>2. logged' = logged \union {e} /\ time'[e] = now
    BY <1>1, <1>3 DEF WindowsLogs, TypeOK
  <2>3. UNCHANGED <<now, outputVars, runVars, historyVars>>
    BY <1>3 DEF WindowsLogs
  <2>4. ASSUME phase = "write" PROVE now >= start
    BY <1>1, <2>4 DEF IInv, RunInv, TypeOK
  <2>5. RunInv'
    BY <1>1, <2>1, <2>2, <2>3, <2>4 DEF IInv, RunInv, QueriedLogs, TypeOK
  <2>6. wmFile = "saved" => now >= SecondOf(watermark) - UtcOffset
    BY <1>1, SecondOfBelow, ClockAssumption DEF IInv, RunInv, TypeOK
  <2>7. NoSilentLoss'
    BY <2>1, <2>2, <2>3, <2>6 DEF IInv, NoSilentLoss
  <2>8. QED
    BY <1>1, <2>5, <2>7 DEF IInv
<1>4. CASE StartRun
  <2>1. StartTime <= now
    BY <1>1, <1>4, SecondOfBelow, ClockAssumption
       DEF StartRun, StartTime, IInv, RunInv, TypeOK
  <2>2. phase' = "application" /\ start' = StartTime /\ collectedAt' = now
        /\ (wmFile = "saved" => StartTime = SecondOf(watermark) - UtcOffset)
        /\ UNCHANGED <<now, windowsVars, outputVars, batch, missed, historyVars>>
    BY <1>4 DEF StartRun, StartTime
  <2>3. RunInv'
    BY <1>1, <1>4, <2>1, <2>2 DEF StartRun, IInv, RunInv, QueriedLogs, TypeOK
  <2>4. NoSilentLoss'
    BY <2>2 DEF IInv, NoSilentLoss
  <2>5. QED
    BY <1>1, <2>3, <2>4 DEF IInv
<1>5. CASE QueryApplication \/ QuerySystem
  <2>1. /\ UNCHANGED <<now, windowsVars, outputVars, collectedAt, start, historyVars>>
        /\ batch \union missed \subseteq batch' \union missed'
        /\ phase' \in {"system", "stage"} /\ phase \in {"application", "system"}
    BY <1>5 DEF QueryApplication, QuerySystem, Query
  <2>2. \A e \in logged : LogOf[e] \in QueriedLogs' =>
          \/ time[e] < start
          \/ e \in batch' \union missed'
          \/ time[e] >= collectedAt
    <3>1. CASE QueryApplication
      BY <1>1, <2>1, <3>1 DEF QueryApplication, Query, InWindow, QueriedLogs, TypeOK
    <3>2. CASE QuerySystem
      <4>1. \A e \in logged : LogOf[e] = "System" =>
              time[e] < start \/ e \in batch' \union missed'
        BY <1>1, <3>2 DEF QuerySystem, Query, InWindow, TypeOK
      <4>2. \A e \in logged : LogOf[e] = "Application" =>
              \/ time[e] < start
              \/ e \in batch \union missed
              \/ time[e] >= collectedAt
        BY <3>2 DEF QuerySystem, IInv, RunInv, QueriedLogs
      <4>3. QED
        BY <1>1, <2>1, <4>1, <4>2, LogAssumption DEF Logs, TypeOK
    <3>3. QED
      BY <1>5, <3>1, <3>2
  <2>3. RunInv'
    BY <1>1, <2>1, <2>2 DEF IInv, RunInv
  <2>4. NoSilentLoss'
    BY <2>1 DEF IInv, NoSilentLoss
  <2>5. QED
    BY <1>1, <2>3, <2>4 DEF IInv
<1>6. CASE Stage
  <2>1. RunInv'
    BY <1>1, <1>6 DEF Stage, IInv, RunInv, QueriedLogs
  <2>2. NoSilentLoss'
    BY <1>6 DEF Stage, IInv, NoSilentLoss
  <2>3. QED
    BY <1>1, <2>1, <2>2 DEF IInv
<1>7. CASE TruncateWatermark
  <2>1. \A e \in logged : time[e] < scopeFrom' \/ e \in landed \union noticed \/ time[e] >= start
    BY <1>1, <1>7 DEF TruncateWatermark, IInv, RunInv, NoSilentLoss, TypeOK
  <2>2. RunInv'
    BY <1>1, <1>7, <2>1 DEF TruncateWatermark, IInv, RunInv, QueriedLogs
  <2>3. NoSilentLoss'
    BY <1>7 DEF TruncateWatermark, NoSilentLoss
  <2>4. QED
    BY <1>1, <2>2, <2>3 DEF IInv
<1>8. CASE SaveWatermark
  <2>1. RunInv'
    BY <1>1, <1>8 DEF SaveWatermark, ForgetRun, IInv, RunInv, QueriedLogs
  <2>2. SecondOf(collectedAt) - UtcOffset \in Int
        /\ SecondOf(collectedAt) - UtcOffset <= collectedAt
    BY <1>1, SecondOfBelow, ClockAssumption DEF TypeOK
  <2>3. \A e \in logged : \/ time[e] < scopeFrom
                          \/ e \in landed \union noticed
                          \/ time[e] >= collectedAt
    BY <1>1, <1>8, LogAssumption DEF SaveWatermark, IInv, RunInv, QueriedLogs, TypeOK
  <2>4. NoSilentLoss'
    BY <1>1, <1>8, <2>2, <2>3 DEF SaveWatermark, NoSilentLoss, TypeOK
  <2>5. QED
    BY <1>1, <2>1, <2>4 DEF IInv
<1>9. CASE Crash
  <2>1. RunInv'
    BY <1>1, <1>9 DEF Crash, ForgetRun, IInv, RunInv, QueriedLogs
  <2>2. NoSilentLoss'
    BY <1>9 DEF Crash, IInv, NoSilentLoss
  <2>3. QED
    BY <1>1, <2>1, <2>2 DEF IInv
<1>10. CASE UNCHANGED vars
  BY <1>10 DEF vars, IInv, TypeOK, RunInv, QueriedLogs, NoSilentLoss
<1>11. QED
  BY <1>2, <1>3, <1>4, <1>5, <1>6, <1>7, <1>8, <1>9, <1>10 DEF Next, Run

\* East of UTC and on it, no event since the first saved window is lost without
\* an entry in CollectionErrors, whatever fails or is killed.
THEOREM EastOfUtcNoSilentLoss ==
  ASSUME UtcOffset >= 0
  PROVE  Spec => []NoSilentLoss
<1>1. IInv => NoSilentLoss
  BY DEF IInv
<1>2. QED
  BY <1>1, InitInv, NextInv, PTL DEF Spec

----------------------------------------------------------------------------
(* Any host                                                                *)

(* An event that the collector has, tells of, never had in scope or will   *)
(* still ask for.                                                          *)
Accounted(e) == \/ time[e] < scopeFrom
                \/ e \in landed \cup noticed
                \/ time[e] >= SecondOf(watermark) - UtcOffset

(* Lost already: a run whose window is the first has no loss to pass on.   *)
LostBefore(e) == /\ e \in logged /\ ~Accounted(e)
                 /\ wmFile = "saved" \/ start # scopeFrom

(* Collect-EventLog.ps1:69-75: an event is lost only when it is logged in  *)
(* the gap the host's offset opens between the run that was saved last and *)
(* the next run's window, whose bounds are SecondOf(watermark) and         *)
(* SecondOf(watermark) - UtcOffset; no failed query, no kill and no write  *)
(* in between loses another, and the first window to be saved loses none.  *)
LossOnlyInGap ==
  [][wmFile' = "saved" =>
       \A e \in logged' : \/ Accounted(e)'
                          \/ LostBefore(e)
                          \/ time'[e] >= SecondOf(watermark')]_vars

(* The clauses of RunInv that no host's offset can break, and where the    *)
(* window of a run that is about to be saved begins.                       *)
AnyHostInv ==
  /\ collectedAt <= now
  /\ wmFile = "saved" => watermark <= now
  /\ phase = "write" <=> wmFile = "empty" /\ phase # "idle"
  /\ phase # "idle" /\ wmFile = "saved" => start = SecondOf(watermark) - UtcOffset
  /\ \A e \in logged : LogOf[e] \in QueriedLogs =>
       \/ time[e] < start
       \/ e \in batch \cup missed
       \/ time[e] >= collectedAt
  /\ phase \in {"save", "write"} => batch \subseteq landed /\ missed \subseteq noticed
  /\ phase = "write" => start \in {scopeFrom, SecondOf(watermark) - UtcOffset}

LEMMA InitAnyHost == Init => AnyHostInv
<1>1. TicksPerSecond \in Nat \ {0}
  BY ClockAssumption
<1>2. QED
  BY <1>1 DEF Init, AnyHostInv, QueriedLogs

LEMMA NextAnyHost == TypeOK /\ AnyHostInv /\ [Next]_vars => AnyHostInv'
<1> SUFFICES ASSUME TypeOK, AnyHostInv, [Next]_vars PROVE AnyHostInv'
  OBVIOUS
<1> USE DEF windowsVars, outputVars, runVars, historyVars
<1>1. TypeOK'
  BY NextType
<1>2. CASE Tick
  BY <1>1, <1>2 DEF Tick, AnyHostInv, QueriedLogs, TypeOK
<1>3. ASSUME NEW e \in Events, WindowsLogs(e) PROVE AnyHostInv'
  <2>1. \A x \in logged : x # e /\ time'[x] = time[x]
    BY <1>1, <1>3 DEF WindowsLogs, TypeOK
  <2>2. logged' = logged \cup {e} /\ time'[e] = now
    BY <1>1, <1>3 DEF WindowsLogs, TypeOK
  <2>3. UNCHANGED <<now, outputVars, runVars, historyVars>>
    BY <1>3 DEF WindowsLogs
  <2>4. QED
    BY <1>1, <2>1, <2>2, <2>3 DEF AnyHostInv, QueriedLogs, TypeOK
<1>4. CASE StartRun
  BY <1>1, <1>4 DEF StartRun, StartTime, AnyHostInv, QueriedLogs, TypeOK
<1>5. CASE QueryApplication \/ QuerySystem
  <2>1. /\ UNCHANGED <<now, windowsVars, outputVars, collectedAt, start, historyVars>>
        /\ batch \cup missed \subseteq batch' \cup missed'
        /\ phase' \in {"system", "stage"} /\ phase \in {"application", "system"}
    BY <1>5 DEF QueryApplication, QuerySystem, Query
  <2>2. \A e \in logged : LogOf[e] \in QueriedLogs' =>
          time[e] < start \/ e \in batch' \cup missed' \/ time[e] >= collectedAt
    <3>1. CASE QueryApplication
      BY <1>1, <2>1, <3>1 DEF QueryApplication, Query, InWindow, QueriedLogs, TypeOK
    <3>2. CASE QuerySystem
      <4>1. \A e \in logged : LogOf[e] = "System" =>
              time[e] < start \/ e \in batch' \cup missed'
        BY <1>1, <3>2 DEF QuerySystem, Query, InWindow, TypeOK
      <4>2. \A e \in logged : LogOf[e] = "Application" =>
              time[e] < start \/ e \in batch \cup missed \/ time[e] >= collectedAt
        BY <3>2 DEF QuerySystem, AnyHostInv, QueriedLogs
      <4>3. QED
        BY <1>1, <2>1, <4>1, <4>2, LogAssumption DEF Logs, TypeOK
    <3>3. QED
      BY <1>5, <3>1, <3>2
  <2>3. QED
    BY <1>1, <2>1, <2>2 DEF AnyHostInv
<1>6. CASE Stage
  BY <1>6 DEF Stage, AnyHostInv, QueriedLogs
<1>7. CASE TruncateWatermark
  <2>1. start \in {scopeFrom', SecondOf(watermark) - UtcOffset}
    BY <1>7 DEF TruncateWatermark, AnyHostInv, TypeOK
  <2>2. QED
    BY <1>7, <2>1 DEF TruncateWatermark, AnyHostInv, QueriedLogs
<1>8. CASE SaveWatermark
  BY <1>1, <1>8 DEF SaveWatermark, ForgetRun, AnyHostInv, QueriedLogs, TypeOK
<1>9. CASE Crash
  BY <1>9 DEF Crash, ForgetRun, AnyHostInv, QueriedLogs
<1>10. CASE UNCHANGED vars
  BY <1>10 DEF vars, AnyHostInv, QueriedLogs
<1>11. QED
  BY <1>2, <1>3, <1>4, <1>5, <1>6, <1>7, <1>8, <1>9, <1>10 DEF Next, Run

(* Only two steps can put an event outside what is accounted for: the one  *)
(* that logs it, and the one that saves a watermark.                       *)
LEMMA GapStep ==
  ASSUME TypeOK, TypeOK', AnyHostInv, [Next]_vars, wmFile' = "saved",
         NEW e \in logged', ~Accounted(e)', ~LostBefore(e)
  PROVE  time'[e] >= SecondOf(watermark')
<1> USE DEF windowsVars, outputVars, runVars, historyVars
<1>1. watermark' \in Int /\ SecondOf(watermark') \in Int /\ SecondOf(watermark') <= watermark'
  BY SecondOfBelow DEF TypeOK
<1>2. CASE e \notin logged
  <2>1. ASSUME NEW x \in Events, WindowsLogs(x) PROVE time'[e] = now /\ watermark' = watermark
                                                     /\ wmFile = "saved"
    BY <1>2, <2>1 DEF WindowsLogs, TypeOK
  <2>2. \E x \in Events : WindowsLogs(x)
    BY <1>2 DEF Next, Run, Tick, StartRun, QueryApplication, QuerySystem, Query, Stage,
                TruncateWatermark, SaveWatermark, ForgetRun, Crash, vars
  <2>3. QED
    BY <1>1, <2>1, <2>2 DEF AnyHostInv, TypeOK
<1>3. CASE e \in logged /\ SaveWatermark
  <2>1. time'[e] = time[e] /\ watermark' = collectedAt /\ UNCHANGED <<landed, historyVars>>
    BY <1>3 DEF SaveWatermark
  <2>2. time[e] >= scopeFrom /\ e \notin landed \cup noticed
    BY <2>1, <1>3, <1>1 DEF Accounted, TypeOK
  <2>3. start # scopeFrom => time[e] >= SecondOf(watermark) - UtcOffset
    BY <1>3, <2>2, SecondOfBelow, ClockAssumption DEF LostBefore, Accounted, TypeOK
  <2>4. time[e] >= start
    BY <1>3, <2>2, <2>3 DEF SaveWatermark, AnyHostInv
  <2>5. time[e] >= collectedAt
    <3>1. LogOf[e] \in QueriedLogs
      BY <1>3, LogAssumption DEF SaveWatermark, QueriedLogs, TypeOK
    <3>2. e \notin batch \cup missed
      BY <1>3, <2>2 DEF SaveWatermark, AnyHostInv
    <3>3. QED
      BY <1>3, <2>4, <3>1, <3>2 DEF AnyHostInv, TypeOK
  <2>6. QED
    BY <1>1, <2>1, <2>5 DEF TypeOK
<1>4. CASE e \in logged /\ ~SaveWatermark
  <2>1. time'[e] = time[e] /\ watermark' = watermark
    BY <1>4 DEF Next, Run, Tick, WindowsLogs, StartRun, QueryApplication, QuerySystem, Query,
                Stage, TruncateWatermark, Crash, ForgetRun, vars, TypeOK
  <2>2. landed \subseteq landed' /\ noticed \subseteq noticed' /\ scopeFrom' = scopeFrom
    BY <1>4 DEF Next, Run, Tick, WindowsLogs, StartRun, QueryApplication, QuerySystem, Query,
                Stage, TruncateWatermark, Crash, ForgetRun, vars
  <2>3. wmFile = "saved"
    BY <1>4 DEF Next, Run, Tick, WindowsLogs, StartRun, QueryApplication, QuerySystem, Query,
                Stage, TruncateWatermark, Crash, ForgetRun, vars
  <2>4. QED
    BY <1>4, <2>1, <2>2, <2>3 DEF LostBefore, Accounted
<1>5. QED
  BY <1>2, <1>3, <1>4

(* On every host, whatever fails or is killed, an event is lost only in    *)
(* the gap between a saved watermark and the window read from it.          *)
THEOREM LossIsInGap == Spec => LossOnlyInGap
<1> DEFINE Inv    == TypeOK /\ AnyHostInv
           InStep == wmFile' = "saved" =>
                       \A e \in logged' : \/ Accounted(e)'
                                          \/ LostBefore(e)
                                          \/ time'[e] >= SecondOf(watermark')
<1>1. Init => Inv
  BY InitType, InitAnyHost
<1>2. Inv /\ [Next]_vars => Inv'
  BY NextType, NextAnyHost
<1>3. Inv /\ Inv' /\ [Next]_vars => [InStep]_vars
  BY GapStep
<1>4. LossOnlyInGap <=> [][InStep]_vars
  BY DEF LossOnlyInGap
<1> HIDE DEF Inv, InStep
<1>5. QED
  BY <1>1, <1>2, <1>3, <1>4, PTL DEF Spec
=============================================================================
