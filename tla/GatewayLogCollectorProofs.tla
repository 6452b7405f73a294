--------------------- MODULE GatewayLogCollectorProofs ---------------------
(***************************************************************************)
(* Proofs about the gateway-log collector, for every set of files, every   *)
(* list of patterns, every UTC offset below the lookback and every bound.  *)
(***************************************************************************)
EXTENDS GatewayLogCollector, TLAPS

\* Parsing drops the fraction of a second: it never moves a time forward
\* (Collect-GatewayLogs.ps1:120).
LEMMA SecondOfBelow ==
  ASSUME NEW t \in Int
  PROVE  SecondOf(t) \in Int /\ SecondOf(t) <= t
<1>1. TicksPerSecond \in Nat \ {0}
  BY ClockAssumption
<1>2. t % TicksPerSecond \in 0..(TicksPerSecond - 1)
  BY <1>1
<1>3. QED
  BY <1>2 DEF SecondOf

LEMMA ParsedWatermarkType ==
  ASSUME TypeOK
  PROVE  ParsedWatermark \in Int
BY ClockAssumption, SecondOfBelow DEF ParsedWatermark, TypeOK

\* Stage writes, for each file it has a record of, that record's version.
LEMMA RecordOfRecord ==
  ASSUME NEW f \in Files, \E r \in records : r.file = f
  PROVE  RecordOf(f) \in records /\ RecordOf(f).file = f
BY DEF RecordOf

----------------------------------------------------------------------------

LEMMA InitType == Init => TypeOK
BY ClockAssumption, PatternAssumption DEF Init, TypeOK, WmFileStates, Phases, Causes

LEMMA NextType == TypeOK /\ [Next]_vars => TypeOK'
<1> SUFFICES ASSUME TypeOK, [Next]_vars PROVE TypeOK'
  OBVIOUS
<1> USE DEF TypeOK, WmFileStates, Phases, Causes, gatewayVars, outputVars, runVars
<1>1. CASE Tick
  BY <1>1 DEF Tick
<1>2. ASSUME NEW f \in Files, GatewayWrites(f) PROVE TypeOK'
  <2>1. gap' \in [Files -> Causes \union {"none"}]
    BY <1>2 DEF GatewayWrites
  <2>2. QED
    BY <1>2, <2>1 DEF GatewayWrites
<1>3. CASE StartRun
  BY <1>3, ParsedWatermarkType, PatternAssumption DEF StartRun
<1>4. CASE ListPattern
  <2>1. gap' \in [Files -> Causes \union {"none"}]
    BY <1>4 DEF ListPattern, Overlook
  <2>2. pending' \in SUBSET [file : Files, mtime : Nat]
    BY <1>4 DEF ListPattern, Newer
  <2>3. nextPattern' \in 1..(NumPatterns + 1)
    BY <1>4, PatternAssumption DEF ListPattern
  <2>4. QED
    BY <1>4, <2>1, <2>2, <2>3 DEF ListPattern
<1>5. CASE NothingNew
  BY <1>5, PatternAssumption DEF NothingNew, ForgetRun, GapAtEnd
<1>6. CASE BeginReading
  BY <1>6 DEF BeginReading
<1>7. ASSUME NEW p \in pending, ReadFile(p) PROVE TypeOK'
  BY <1>7 DEF ReadFile, Later
<1>8. ASSUME NEW p \in pending, ReadFails(p) PROVE TypeOK'
  BY <1>8 DEF ReadFails, Overlook
<1>9. CASE Stage
  <2>1. staged' \in [Files -> Nat]
    BY <1>9, RecordOfRecord DEF Stage
  <2>2. gap' \in [Files -> Causes \union {"none"}]
    BY <1>9 DEF Stage
  <2>3. QED
    BY <1>9, <2>1, <2>2 DEF Stage
<1>10. CASE TruncateWatermark
  BY <1>10 DEF TruncateWatermark
<1>11. CASE SaveWatermark
  BY <1>11, PatternAssumption DEF SaveWatermark, ForgetRun, GapAtEnd
<1>12. CASE Crash
  BY <1>12, PatternAssumption DEF Crash, ForgetRun, GapAtEnd
<1>13. CASE UNCHANGED vars
  BY <1>13 DEF vars
<1>14. QED
  BY <1>1, <1>2, <1>3, <1>4, <1>5, <1>6, <1>7, <1>8, <1>9, <1>10, <1>11, <1>12, <1>13
     DEF Next, Run, Read, ReadFailure

\* The state of the collector and of the gateway's directory is well-formed.
THEOREM TypeCorrect == Spec => []TypeOK
BY InitType, NextType, PTL DEF Spec

----------------------------------------------------------------------------
(* The inductive invariant, action by action *)

LEMMA InitInv == Init => IInv
<1> SUFFICES ASSUME Init PROVE IInv
  OBVIOUS
<1>1. TypeOK
  BY InitType
<1>2. TicksPerSecond \in Nat \ {0}
  BY ClockAssumption
<1>3. ClockInv /\ MemoryInv /\ SnapshotInv /\ CoverageInv /\ LossIsExplained
  BY <1>2 DEF Init, ClockInv, MemoryInv, SnapshotInv, CoverageInv, LossIsExplained
<1>4. QED
  BY <1>1, <1>3 DEF IInv

LEMMA TickInv ==
  ASSUME IInv, TypeOK', Tick
  PROVE  IInv'
<1> USE DEF Tick, gatewayVars, outputVars, runVars
<1>1. ClockInv'
  BY DEF IInv, ClockInv, TypeOK
<1>2. MemoryInv'
  BY DEF IInv, MemoryInv, TypeOK
<1>3. SnapshotInv' /\ CoverageInv' /\ LossIsExplained'
  BY DEF IInv, SnapshotInv, CoverageInv, LossIsExplained, PendingFiles, ListedUnder
<1>4. QED
  BY <1>1, <1>2, <1>3 DEF IInv

\* The window: a write is marked as a race, or some later listing sees it.
LEMMA WriteInv ==
  ASSUME IInv, TypeOK', NEW f \in Files, GatewayWrites(f)
  PROVE  IInv'
<1> USE DEF gatewayVars, outputVars, runVars
<1>1. ClockInv'
  BY DEF GatewayWrites, IInv, ClockInv, TypeOK
<1>2. MemoryInv'
  BY DEF GatewayWrites, IInv, MemoryInv, TypeOK
<1>3. SnapshotInv'
  BY DEF GatewayWrites, IInv, SnapshotInv, PendingFiles, TypeOK
<1>4. ASSUME NEW g \in Files, g # f
      PROVE  version'[g] = version[g] /\ mtime'[g] = mtime[g] /\ gap'[g] = gap[g]
  BY <1>4 DEF GatewayWrites, IInv, TypeOK
<1>5. mtime'[f] = now /\ gap'[f] = IF TooLate(f) THEN "race" ELSE "none"
  BY DEF GatewayWrites, IInv, TypeOK
<1>6. CoverageInv'
  <2> SUFFICES ASSUME phase # "idle", NEW g \in Files, PatternOf[g] < nextPattern
               PROVE  \/ g \in PendingFiles
                      \/ staged[g] = version'[g]
                      \/ /\ phase \in {"list", "read"}
                         /\ [file |-> g, version |-> version'[g]] \in records
                      \/ gap'[g] # "none"
                      \/ phase # "list" /\ mtime'[g] > listedAt
    BY DEF CoverageInv, GatewayWrites, PendingFiles
  <2>1. CASE g # f
    BY <1>4, <2>1 DEF IInv, CoverageInv
  <2>2. CASE g = f
    BY <1>5, <2>2 DEF TooLate, IInv, ClockInv, TypeOK
  <2>3. QED
    BY <2>1, <2>2
<1>7. LossIsExplained'
  <2> SUFFICES ASSUME wmFile = "saved", NEW g \in Files
               PROVE  \/ staged[g] = version'[g]
                      \/ mtime'[g] > SecondOf(watermark)
                      \/ gap'[g] # "none"
    BY DEF LossIsExplained, ListedUnder, GatewayWrites
  <2>1. CASE g # f
    BY <1>4, <2>1 DEF IInv, LossIsExplained, ListedUnder
  <2>2. CASE g = f /\ ~ TooLate(f)
    <3>1. watermark < now
      BY <2>2 DEF TooLate, IInv, ClockInv, MemoryInv, PendingFiles, TypeOK
    <3>2. QED
      BY <1>5, <2>2, <3>1, SecondOfBelow DEF IInv, TypeOK
  <2>3. CASE g = f /\ TooLate(f)
    BY <1>5, <2>3
  <2>4. QED
    BY <2>1, <2>2, <2>3
<1>8. QED
  BY <1>1, <1>2, <1>3, <1>6, <1>7 DEF IInv

LEMMA StartRunInv ==
  ASSUME IInv, TypeOK', StartRun
  PROVE  IInv'
<1> USE DEF StartRun, gatewayVars, outputVars
<1>1. TicksPerSecond \in Nat \ {0}
  BY ClockAssumption
<1>2. ClockInv'
  BY <1>1 DEF IInv, ClockInv, TypeOK
<1>3. ParsedWatermark \in Int /\ ParsedWatermark <= now
  BY SecondOfBelow, ClockAssumption DEF ParsedWatermark, IInv, TypeOK, ClockInv, WmFileStates
<1>4. MemoryInv'
  BY <1>3 DEF IInv, MemoryInv, TypeOK, ParsedWatermark
<1>5. SnapshotInv' /\ LossIsExplained'
  BY DEF IInv, SnapshotInv, MemoryInv, LossIsExplained, PendingFiles, ListedUnder
<1>6. CoverageInv'
  BY PatternAssumption DEF CoverageInv
<1>7. QED
  BY <1>2, <1>4, <1>5, <1>6 DEF IInv

\* After a pattern is listed, each of its files is pending, staged, or marked.
LEMMA ListPatternInv ==
  ASSUME IInv, TypeOK', ListPattern
  PROVE  IInv'
<1> USE DEF gatewayVars, outputVars
<1> PICK hidden \in SUBSET Newer(nextPattern) :
      /\ pending' = pending \union
           {[file |-> f, mtime |-> mtime[f]] : f \in Newer(nextPattern) \ hidden}
      /\ gap' = [f \in Files |-> IF f \in hidden
                                   THEN Overlook(hidden, "hidden")[f]
                                   ELSE Overlook(TooOld(nextPattern), "lookback")[f]]
  BY DEF ListPattern
<1>1. /\ phase = "list" /\ nextPattern \in 1..NumPatterns
      /\ nextPattern' = nextPattern + 1 /\ listedAt' = now
      /\ UNCHANGED <<now, version, mtime, staged, wmFile, watermark, phase, since,
                     records, maxProcessed>>
  BY DEF ListPattern, IInv, TypeOK
<1>2. \A f \in Files : gap[f] # "none" => gap'[f] # "none"
  BY DEF Overlook, IInv, TypeOK
<1>3. ClockInv'
  BY <1>1 DEF IInv, ClockInv, TypeOK
<1>4. MemoryInv'
  <2>1. \A p \in pending' : p.mtime <= listedAt'
    BY <1>1 DEF IInv, MemoryInv, ClockInv, TypeOK, Newer
  <2>2. since <= listedAt' /\ (maxProcessed <= since \/ maxProcessed <= listedAt')
    BY <1>1 DEF IInv, MemoryInv, ClockInv, TypeOK
  <2>3. QED
    BY <1>1, <2>1, <2>2 DEF IInv, MemoryInv
<1>5. SnapshotInv'
  <2>1. \A p \in pending' \ pending : p.file \in Files /\ PatternOf[p.file] = nextPattern
    BY DEF Newer
  <2>2. \A p \in pending : PatternOf[p.file] < nextPattern
    BY DEF IInv, SnapshotInv
  <2>3. \A p, q \in pending' \ pending : p.file = q.file => p = q
    OBVIOUS
  <2>4. \A p, q \in pending : p.file = q.file => p = q
    BY DEF IInv, SnapshotInv
  <2>5. \A p, q \in pending' : p.file = q.file => p = q
    BY <1>1, <2>1, <2>2, <2>3, <2>4
  <2>6. \A p \in pending' : PatternOf[p.file] < nextPattern'
    BY <1>1, <2>1, <2>2, PatternAssumption DEF IInv, TypeOK
  <2>7. \A r \in records : PatternOf[r.file] < nextPattern /\ r.file \notin PendingFiles
    BY DEF IInv, SnapshotInv
  <2>8. \A r \in records : PatternOf[r.file] < nextPattern' /\ r.file \notin PendingFiles'
    BY <1>1, <2>1, <2>7, PatternAssumption DEF PendingFiles, IInv, TypeOK
  <2>9. QED
    BY <1>1, <2>5, <2>6, <2>8 DEF IInv, SnapshotInv
<1>6. CoverageInv'
  <2> SUFFICES ASSUME NEW f \in Files, PatternOf[f] < nextPattern + 1
               PROVE  \/ f \in PendingFiles'
                      \/ staged[f] = version[f]
                      \/ [file |-> f, version |-> version[f]] \in records
                      \/ gap'[f] # "none"
    BY <1>1 DEF CoverageInv
  <2>1. CASE PatternOf[f] < nextPattern
    <3>1. f \in PendingFiles => f \in PendingFiles'
      BY DEF PendingFiles
    <3>2. QED
      BY <1>1, <1>2, <2>1, <3>1 DEF IInv, CoverageInv
  <2>2. CASE PatternOf[f] = nextPattern
    <3>1. CASE f \in Newer(nextPattern) \ hidden
      <4>1. [file |-> f, mtime |-> mtime[f]] \in pending'
        BY <3>1
      <4>2. f \in {p.file : p \in pending'}
        BY <4>1, [file |-> f, mtime |-> mtime[f]].file = f
      <4>3. QED
        BY <4>2 DEF PendingFiles
    <3>2. CASE f \in hidden
      BY <3>2 DEF Overlook
    <3>3. CASE f \notin Newer(nextPattern) /\ version[f] = 0
      BY <3>3 DEF IInv, SnapshotInv, TypeOK
    <3>4. CASE f \notin Newer(nextPattern) /\ ~ mtime[f] > since
      <4>1. CASE wmFile = "absent"
        <5>1. f \in TooOld(nextPattern) /\ f \notin hidden
          BY <2>2, <3>4, <4>1 DEF TooOld
        <5>2. QED
          BY <5>1 DEF Overlook
      <4>2. CASE wmFile = "saved"
        BY <1>1, <1>2, <3>4, <4>2
           DEF IInv, MemoryInv, LossIsExplained, ListedUnder
      <4>3. QED
        BY <1>1, <4>1, <4>2 DEF IInv, MemoryInv, TypeOK, WmFileStates
    <3>5. QED
      BY <2>2, <3>1, <3>2, <3>3, <3>4 DEF Newer, IInv, TypeOK
  <2>3. QED
    BY <1>1, <2>1, <2>2, PatternAssumption DEF IInv, TypeOK
<1>7. LossIsExplained'
  BY <1>1, <1>2 DEF IInv, LossIsExplained, ListedUnder
<1>8. QED
  BY <1>3, <1>4, <1>5, <1>6, <1>7 DEF IInv

LEMMA BeginReadingInv ==
  ASSUME IInv, TypeOK', BeginReading
  PROVE  IInv'
<1> USE DEF BeginReading, gatewayVars, outputVars
<1>1. ClockInv' /\ MemoryInv'
  BY DEF IInv, ClockInv, MemoryInv
<1>2. SnapshotInv' /\ CoverageInv' /\ LossIsExplained'
  BY DEF IInv, SnapshotInv, CoverageInv, LossIsExplained, PendingFiles, ListedUnder
<1>3. QED
  BY <1>1, <1>2 DEF IInv

\* A file that was read leaves the pending ones with its newest version.
LEMMA ReadFileInv ==
  ASSUME IInv, TypeOK', NEW p \in pending, ReadFile(p)
  PROVE  IInv'
<1> USE DEF gatewayVars, outputVars
<1>1. /\ phase = "read" /\ p.file \in Files /\ p.mtime \in Nat
      /\ pending' = pending \ {p}
      /\ records' = records \union {[file |-> p.file, version |-> version[p.file]]}
      /\ UNCHANGED <<now, version, mtime, staged, wmFile, watermark, phase, nextPattern,
                     since, listedAt, gap>>
  BY DEF ReadFile, IInv, TypeOK
<1>2. ClockInv' /\ LossIsExplained'
  BY <1>1 DEF IInv, ClockInv, LossIsExplained, ListedUnder
<1>3. MemoryInv'
  BY <1>1, PatternAssumption DEF ReadFile, Later, IInv, MemoryInv, TypeOK
<1>4. PendingFiles' = PendingFiles \ {p.file}
  BY <1>1 DEF PendingFiles, IInv, SnapshotInv
<1>5. SnapshotInv'
  <2>1. \A r \in records : r.file # p.file
    BY DEF IInv, SnapshotInv, PendingFiles
  <2>2. \A r, s \in records' : r.file = s.file => r = s
    BY <1>1, <2>1 DEF IInv, SnapshotInv
  <2>3. \A r \in records' :
          /\ PatternOf[r.file] < nextPattern
          /\ r.file \notin PendingFiles'
          /\ staged[r.file] <= r.version
          /\ r.version <= version[r.file]
    BY <1>1, <1>4 DEF IInv, SnapshotInv, TypeOK
  <2>4. QED
    BY <1>1, <2>2, <2>3 DEF IInv, SnapshotInv
<1>6. CoverageInv'
  BY <1>1, <1>4 DEF IInv, CoverageInv
<1>7. QED
  BY <1>2, <1>3, <1>5, <1>6 DEF IInv

\* A file that could not be read leaves them staged already or marked.
LEMMA ReadFailsInv ==
  ASSUME IInv, TypeOK', NEW p \in pending, ReadFails(p)
  PROVE  IInv'
<1> USE DEF gatewayVars, outputVars
<1>1. /\ phase = "read" /\ p.file \in Files
      /\ pending' = pending \ {p}
      /\ UNCHANGED <<now, version, mtime, staged, wmFile, watermark, phase, nextPattern,
                     since, records, maxProcessed, listedAt>>
  BY DEF ReadFails, IInv, TypeOK
<1>2. /\ \A f \in Files : gap[f] # "none" => gap'[f] # "none"
      /\ staged[p.file] = version[p.file] \/ gap'[p.file] # "none"
  BY <1>1 DEF ReadFails, Overlook, IInv, TypeOK
<1>3. PendingFiles' = PendingFiles \ {p.file}
  BY <1>1 DEF PendingFiles, IInv, SnapshotInv
<1>4. ClockInv' /\ MemoryInv'
  BY <1>1 DEF IInv, ClockInv, MemoryInv
<1>5. SnapshotInv'
  BY <1>1, <1>3 DEF IInv, SnapshotInv
<1>6. CoverageInv' /\ LossIsExplained'
  BY <1>1, <1>2, <1>3 DEF IInv, CoverageInv, LossIsExplained, ListedUnder
<1>7. QED
  BY <1>4, <1>5, <1>6 DEF IInv

LEMMA StageInv ==
  ASSUME IInv, TypeOK', Stage
  PROVE  IInv'
<1> USE DEF gatewayVars
<1>1. /\ phase = "read" /\ phase' = "save" /\ pending = {}
      /\ UNCHANGED <<now, version, mtime, wmFile, watermark, nextPattern, since,
                     pending, records, maxProcessed, listedAt>>
      /\ \A f \in Files :
           gap'[f] = IF staged'[f] = version[f] THEN "none" ELSE gap[f]
  BY DEF Stage, IInv, TypeOK
<1>2. ASSUME NEW f \in Files, NEW r \in records, r.file = f
      PROVE  staged'[f] = r.version
  BY <1>2, RecordOfRecord DEF Stage, IInv, SnapshotInv
<1>3. ASSUME NEW f \in Files, ~ \E r \in records : r.file = f
      PROVE  staged'[f] = staged[f]
  BY <1>3 DEF Stage
<1>4. \A f \in Files : staged[f] <= staged'[f] /\ staged'[f] <= version[f]
  <2> SUFFICES ASSUME NEW f \in Files
               PROVE  staged[f] <= staged'[f] /\ staged'[f] <= version[f]
    OBVIOUS
  <2>1. CASE \E r \in records : r.file = f
    BY <1>2, <2>1 DEF IInv, SnapshotInv
  <2>2. CASE ~ \E r \in records : r.file = f
    BY <1>3, <2>2 DEF IInv, SnapshotInv, TypeOK
  <2>3. QED
    BY <2>1, <2>2
<1>5. \A f \in Files : staged[f] = version[f] => staged'[f] = version[f]
  BY <1>4 DEF IInv, TypeOK
<1>6. ClockInv' /\ MemoryInv'
  BY <1>1 DEF IInv, ClockInv, MemoryInv
<1>7. SnapshotInv'
  <2>1. \A r \in records : staged'[r.file] <= r.version
    BY <1>2 DEF IInv, TypeOK
  <2>2. QED
    BY <1>1, <1>4, <2>1 DEF IInv, SnapshotInv, PendingFiles
<1>8. CoverageInv'
  <2>1. \A f \in Files : [file |-> f, version |-> version[f]] \in records
                           => staged'[f] = version[f]
    BY <1>2
  <2>2. QED
    BY <1>1, <1>5, <2>1 DEF IInv, CoverageInv, PendingFiles
<1>9. LossIsExplained'
  BY <1>1, <1>5 DEF IInv, LossIsExplained, ListedUnder
<1>10. QED
  BY <1>6, <1>7, <1>8, <1>9 DEF IInv

LEMMA TruncateWatermarkInv ==
  ASSUME IInv, TypeOK', TruncateWatermark
  PROVE  IInv'
<1> USE DEF TruncateWatermark, gatewayVars
<1>1. ClockInv' /\ MemoryInv' /\ SnapshotInv'
  BY DEF IInv, ClockInv, MemoryInv, SnapshotInv, PendingFiles
<1>2. CoverageInv' /\ LossIsExplained'
  BY DEF IInv, MemoryInv, CoverageInv, LossIsExplained, PendingFiles
<1>3. QED
  BY <1>1, <1>2 DEF IInv

\* The next watermark is at most the tick of the last listing, so it passes only
\* what the run has accounted for.
LEMMA SaveWatermarkInv ==
  ASSUME IInv, TypeOK', SaveWatermark
  PROVE  IInv'
<1> USE DEF gatewayVars
<1>1. /\ phase = "write" /\ phase' = "idle" /\ pending = {} /\ nextPattern = NumPatterns + 1
      /\ pending' = {} /\ records' = {} /\ wmFile' = "saved" /\ watermark' = maxProcessed
      /\ gap' = GapAtEnd(TRUE, maxProcessed)
      /\ UNCHANGED <<now, version, mtime, staged, listedAt>>
  BY DEF SaveWatermark, ForgetRun, IInv, MemoryInv
<1>2. maxProcessed <= listedAt
  BY <1>1, PatternAssumption DEF IInv, MemoryInv, TypeOK
<1>3. ClockInv' /\ MemoryInv' /\ SnapshotInv' /\ CoverageInv'
  BY <1>1, <1>2 DEF IInv, ClockInv, MemoryInv, SnapshotInv, CoverageInv, PendingFiles
<1>4. LossIsExplained'
  <2> SUFFICES ASSUME NEW f \in Files, staged[f] # version[f],
                      ~ mtime[f] > SecondOf(maxProcessed)
               PROVE  gap'[f] # "none"
    BY <1>1 DEF LossIsExplained, ListedUnder
  <2>1. ~ mtime[f] > listedAt
    BY <1>2, SecondOfBelow DEF IInv, TypeOK
  <2>2. f \notin PendingFiles /\ PatternOf[f] < nextPattern
    BY <1>1, PatternAssumption DEF PendingFiles
  <2>3. gap[f] # "none"
    BY <1>1, <2>1, <2>2 DEF IInv, CoverageInv
  <2>4. QED
    BY <1>1, <2>3 DEF GapAtEnd, ListedUnder
<1>5. QED
  BY <1>3, <1>4 DEF IInv

\* A run that ends early leaves the watermark and the landing zone alone.
LEMMA EarlyEndInv ==
  ASSUME IInv, TypeOK', NothingNew \/ Crash
  PROVE  IInv'
<1> USE DEF gatewayVars, outputVars
<1>1. /\ phase' = "idle" /\ pending' = {} /\ records' = {}
      /\ gap' = GapAtEnd(wmFile = "saved", watermark)
      /\ UNCHANGED <<now, version, mtime, staged, wmFile, watermark, listedAt>>
  BY DEF NothingNew, Crash, ForgetRun
<1>2. ClockInv' /\ MemoryInv' /\ SnapshotInv' /\ CoverageInv'
  BY <1>1 DEF IInv, ClockInv, MemoryInv, SnapshotInv, CoverageInv, PendingFiles
<1>3. LossIsExplained'
  BY <1>1 DEF IInv, LossIsExplained, GapAtEnd, ListedUnder
<1>4. QED
  BY <1>2, <1>3 DEF IInv

LEMMA NextInv == IInv /\ [Next]_vars => IInv'
<1> SUFFICES ASSUME IInv, [Next]_vars PROVE IInv'
  OBVIOUS
<1>1. TypeOK'
  BY NextType DEF IInv
<1>2. CASE UNCHANGED vars
  BY <1>2 DEF vars, gatewayVars, outputVars, runVars, IInv, TypeOK, ClockInv, MemoryInv,
              SnapshotInv, CoverageInv, LossIsExplained, PendingFiles, ListedUnder
<1>3. CASE Run
  BY <1>1, <1>3, StartRunInv, ListPatternInv, EarlyEndInv, BeginReadingInv, ReadFileInv,
     ReadFailsInv, StageInv, TruncateWatermarkInv, SaveWatermarkInv
     DEF Run, Read, ReadFailure
<1>4. QED
  BY <1>1, <1>2, <1>3, TickInv, WriteInv, EarlyEndInv DEF Next

\* Whatever the number of files and patterns and however the gateway, failures
\* and kills interleave with the runs, the invariant holds.
THEOREM InvariantCorrect == Spec => []IInv
BY InitInv, NextInv, PTL DEF Spec

\* The saved watermark passes an unstaged version only for a named cause.
THEOREM NoUnexplainedLoss == Spec => []LossIsExplained
<1>1. IInv => LossIsExplained
  BY DEF IInv
<1>2. QED
  BY <1>1, InvariantCorrect, PTL

----------------------------------------------------------------------------
(* The collector implements the delivery it owes *)

LEMMA InitDelivery == Init => Delivery!Init
BY DEF Init, Delivery!Init

\* Every step of the collector is a write, a delivery, a change of what counts as
\* abandoned, or invisible to whoever reads the landing zone.
LEMMA NextDelivery == IInv /\ [Next]_vars => [Delivery!Next]_(Delivery!vars)
<1> SUFFICES ASSUME IInv, [Next]_vars PROVE [Delivery!Next]_(Delivery!vars)
  OBVIOUS
<1> DEFINE Abandoned == {f \in Files : gap[f] # "none"}
<1> USE DEF gatewayVars, outputVars, Delivery!vars
<1>1. ASSUME NEW f \in Files, GatewayWrites(f) PROVE Delivery!Write(f)
  <2>1. Abandoned' \in {Abandoned \ {f}, Abandoned \union {f}}
    <3>1. \A g \in Files \ {f} : gap'[g] = gap[g]
      BY <1>1 DEF GatewayWrites, IInv, TypeOK
    <3>2. QED
      BY <3>1
  <2>2. QED
    BY <1>1, <2>1 DEF GatewayWrites, Delivery!Write
<1>2. CASE Stage
  <2>1. staged' \in [Files -> Nat]
    BY <1>2, NextType DEF IInv, Next, Run, TypeOK
  <2>2. \A f \in Files : staged[f] <= staged'[f] /\ staged'[f] <= version[f]
    <3>1. ASSUME NEW f \in Files, NEW r \in records, r.file = f
          PROVE  staged'[f] = r.version
      BY <1>2, <3>1, RecordOfRecord DEF Stage, IInv, SnapshotInv
    <3>2. ASSUME NEW f \in Files, ~ \E r \in records : r.file = f
          PROVE  staged'[f] = staged[f]
      BY <1>2, <3>2 DEF Stage
    <3>3. QED
      BY <3>1, <3>2 DEF IInv, SnapshotInv, TypeOK
  <2>3. Abandoned' = {f \in Abandoned : staged'[f] # version[f]}
    BY <1>2 DEF Stage
  <2>4. UNCHANGED version
    BY <1>2 DEF Stage
  <2>5. QED
    BY <2>1, <2>2, <2>3, <2>4 DEF Delivery!Deliver, Delivery!Next
<1>3. CASE ListPattern
  <2>1. \A f \in Abandoned' \ Abandoned : staged[f] # version[f]
    BY <1>3 DEF ListPattern, Overlook
  <2>2. QED
    BY <1>3, <2>1 DEF ListPattern, Delivery!Next, Delivery!Reconsider
<1>4. ASSUME NEW p \in pending, ReadFails(p) PROVE Delivery!Reconsider
  <2>1. \A f \in Abandoned' \ Abandoned : staged[f] # version[f]
    BY <1>4 DEF ReadFails, Overlook
  <2>2. QED
    BY <1>4, <2>1 DEF ReadFails, Delivery!Reconsider
<1>5. CASE NothingNew \/ SaveWatermark \/ Crash
  <2>1. Abandoned' \subseteq Abandoned
    BY <1>5 DEF NothingNew, SaveWatermark, Crash, GapAtEnd
  <2>2. QED
    BY <1>5, <2>1
       DEF NothingNew, SaveWatermark, Crash, Delivery!Next, Delivery!Reconsider
<1>6. CASE Tick \/ StartRun \/ BeginReading \/ TruncateWatermark \/ UNCHANGED vars
  BY <1>6 DEF Tick, StartRun, BeginReading, TruncateWatermark, vars
<1>7. ASSUME NEW p \in pending, ReadFile(p) PROVE UNCHANGED Delivery!vars
  BY <1>7 DEF ReadFile
<1>8. QED
  BY <1>1, <1>2, <1>3, <1>4, <1>5, <1>6, <1>7
     DEF Next, Run, Read, ReadFailure, Delivery!Next

\* The landing zone only ever receives, in batches, snapshots the gateway's files
\* had, never goes back to an older one, and keeps what it was given.
THEOREM DeliveryRefinement == Spec => ImplementsDelivery
BY InitDelivery, NextDelivery, InvariantCorrect, PTL
   DEF Spec, ImplementsDelivery, Delivery!Spec
=============================================================================
