------------------------ MODULE GatewayLogCollector ------------------------
(***************************************************************************)
(* collectors/Collect-GatewayLogs.ps1: the scheduled task that stages the  *)
(* gateway's report files, incrementally by a watermark on their           *)
(* modification times, while the gateway keeps writing them.               *)
(*                                                                         *)
(* A run parses the watermark, lists the files of one report pattern after *)
(* another, reads each listed file, writes one staging file and then       *)
(* overwrites the watermark.  It may be killed before any of its steps.    *)
(*                                                                         *)
(* Times are ticks of DateTime.  On PowerShell 7, which README.md:92 asks  *)
(* for, ConvertFrom-Json turns the watermark into a DateTime and           *)
(* [datetime]::Parse takes its string form, which has whole seconds only:  *)
(* SecondOf is that loss.  A file's content is its version number.         *)
(***************************************************************************)
EXTENDS Integers

CONSTANTS
  Files,            \* report files the gateway may create
  NumPatterns,      \* length of $logPatterns
  PatternOf,        \* the one pattern each file name matches
  TicksPerSecond,
  Lookback,         \* first-run window (one day)
  UtcOffset,        \* local time minus UTC on the host
  \* bounds of a checked instance
  MaxVersion,       \* a file is written at most this often
  QuietFrom,        \* after this tick nothing is written, fails or is killed,
                    \* and a run takes no time
  MaxTime           \* the clock stops here

ASSUME ClockAssumption ==
  /\ TicksPerSecond \in Nat \ {0}
  /\ Lookback \in Nat
  /\ UtcOffset \in Int
  /\ UtcOffset <= Lookback       \* a UTC offset is under a day

ASSUME PatternAssumption ==
  /\ NumPatterns \in Nat \ {0}
  /\ PatternOf \in [Files -> 1..NumPatterns]

ASSUME BoundAssumption ==
  /\ MaxVersion \in Nat
  /\ QuietFrom \in Nat
  /\ MaxTime \in Nat

VARIABLES
  now,
  version, mtime,                  \* the gateway's Report directory
  staged, wmFile, watermark,       \* the collector's OutputPath
  phase, nextPattern, since,       \* one run's memory ...
  pending, records, maxProcessed,
  listedAt,                        \* tick of the latest directory listing
  gap                              \* why a file's newest version was overlooked

gatewayVars   == <<version, mtime>>
outputVars    == <<staged, wmFile, watermark>>
runVars       == <<phase, nextPattern, since, pending, records, maxProcessed>>
vars == <<now, gatewayVars, outputVars, runVars, listedAt, gap>>

\* The watermark file: not there yet, emptied by Out-File, or readable.
WmFileStates == {"absent", "empty", "saved"}

Phases == {"idle", "list", "read", "save", "write"}

(***************************************************************************)
(* Why a run may not stage a version although it advances the watermark:   *)
(*   lookback  the file is older than the first run's window;              *)
(*   hidden    Get-ChildItem failed on it (-ErrorAction SilentlyContinue); *)
(*   race      the gateway wrote it after its own pattern was listed and   *)
(*             before the listing ended, or within that same tick;         *)
(*   failed    Get-Content failed on it and the catch block went on.       *)
(***************************************************************************)
Causes == {"lookback", "hidden", "race", "failed"}

SecondOf(t) == t - (t % TicksPerSecond)

PendingFiles == {p.file : p \in pending}

\* A later run whose watermark is w lists f.
ListedUnder(f, w) == mtime[f] > SecondOf(w)

Overlook(S, cause) ==
  [f \in Files |-> IF f \in S /\ staged[f] # version[f] THEN cause ELSE gap[f]]

\* At the end of a run a file stays overlooked if the saved watermark w has
\* passed it or, with none saved yet, the first run's window, which moves on.
GapAtEnd(saved, w) ==
  [f \in Files |-> IF \/ saved /\ ~ ListedUnder(f, w)
                      \/ ~ saved /\ gap[f] = "lookback"
                     THEN gap[f] ELSE "none"]

TypeOK ==
  /\ now \in Nat
  /\ version \in [Files -> Nat]
  /\ mtime \in [Files -> Nat]
  /\ staged \in [Files -> Nat]
  /\ wmFile \in WmFileStates
  /\ watermark \in Int
  /\ phase \in Phases
  /\ nextPattern \in 1..(NumPatterns + 1)
  /\ since \in Int
  /\ pending \in SUBSET [file : Files, mtime : Nat]
  /\ records \in SUBSET [file : Files, version : Nat]
  /\ maxProcessed \in Int
  /\ listedAt \in Int
  /\ gap \in [Files -> Causes \union {"none"}]

\* The gateway may have written reports before the collector was installed.
Init ==
  /\ now = 0
  /\ version \in [Files -> {0, 1}]
  /\ mtime = [f \in Files |-> 0]
  /\ staged = [f \in Files |-> 0]
  /\ wmFile = "absent"
  /\ watermark = 0
  /\ phase = "idle"
  /\ nextPattern = 1
  /\ since = 0
  /\ pending = {}
  /\ records = {}
  /\ maxProcessed = 0
  /\ listedAt = -TicksPerSecond
  /\ gap = [f \in Files |-> "none"]

----------------------------------------------------------------------------
(* The environment: the clock and the gateway *)

Tick ==
  /\ now < MaxTime
  /\ now < QuietFrom \/ phase = "idle"
  /\ now' = now + 1
  /\ UNCHANGED <<gatewayVars, outputVars, runVars, listedAt, gap>>

\* f is written too late for the listing of the run in progress, or of the
\* last one, in a tick that this listing's watermark can cover.
TooLate(f) ==
  /\ f \notin PendingFiles
  /\ IF phase = "list" THEN PatternOf[f] < nextPattern ELSE now = listedAt

GatewayWrites(f) ==
  /\ now <= QuietFrom
  /\ version[f] < MaxVersion
  /\ version' = [version EXCEPT ![f] = @ + 1]
  /\ mtime' = [mtime EXCEPT ![f] = now]
  /\ gap' = [gap EXCEPT ![f] = IF TooLate(f) THEN "race" ELSE "none"]
  /\ UNCHANGED <<now, outputVars, runVars, listedAt>>

----------------------------------------------------------------------------
(* One run of the script *)

ForgetRun ==
  /\ phase' = "idle"
  /\ nextPattern' = 1
  /\ since' = 0
  /\ pending' = {}
  /\ records' = {}
  /\ maxProcessed' = 0

\* [datetime]::Parse($watermark.LastProcessedUtc).  The default is a string in
\* UTC, which Parse converts to local time; the comparison ignores the kind.
ParsedWatermark ==
  IF wmFile = "absent" THEN now - Lookback + UtcOffset
                       ELSE SecondOf(watermark)

\* Runs are minutes apart.  An empty watermark file makes the run throw here,
\* under StrictMode, before it changes anything.
StartRun ==
  /\ phase = "idle"
  /\ wmFile # "empty"
  /\ now >= listedAt + TicksPerSecond
  /\ phase' = "list"
  /\ nextPattern' = 1
  /\ since' = ParsedWatermark
  /\ maxProcessed' = ParsedWatermark
  /\ UNCHANGED <<now, gatewayVars, outputVars, pending, records, listedAt, gap>>

\* Mistaken variant of Newer: a file staged once is known by its name and skipped.
NewerByName(p) ==
  {f \in Files : /\ PatternOf[f] = p /\ version[f] > 0 /\ mtime[f] > since
                 /\ staged[f] = 0}

Newer(p) == {f \in Files : PatternOf[f] = p /\ version[f] > 0 /\ mtime[f] > since}

\* Files of the pattern that the first run's window leaves out.
TooOld(p) ==
  {f \in Files : wmFile = "absent" /\ PatternOf[f] = p /\ ~ mtime[f] > since}

\* Mistaken variant of ListPattern: the loop runs once more than there are patterns.
ListPatternPastTheEnd ==
  /\ phase = "list"
  /\ nextPattern <= NumPatterns + 1
  /\ nextPattern' = nextPattern + 1
  /\ listedAt' = now
  /\ UNCHANGED <<now, gatewayVars, outputVars, phase, since, pending, records,
                 maxProcessed, gap>>

\* Get-ChildItem | Where-Object of one pattern; entries it cannot open are
\* silently absent.
ListPattern ==
  /\ phase = "list"
  /\ nextPattern <= NumPatterns
  /\ \E hidden \in SUBSET Newer(nextPattern) :
       /\ hidden # {} => now <= QuietFrom
       /\ pending' = pending \union
            {[file |-> f, mtime |-> mtime[f]] : f \in Newer(nextPattern) \ hidden}
       /\ gap' = [f \in Files |->
                    IF f \in hidden THEN Overlook(hidden, "hidden")[f]
                                    ELSE Overlook(TooOld(nextPattern), "lookback")[f]]
  /\ nextPattern' = nextPattern + 1
  /\ listedAt' = now
  /\ UNCHANGED <<now, gatewayVars, outputVars, phase, since, records, maxProcessed>>

\* exit 0: no new file, and the watermark file is left as it is.
NothingNew ==
  /\ phase = "list"
  /\ nextPattern = NumPatterns + 1
  /\ pending = {}
  /\ ForgetRun
  /\ gap' = GapAtEnd(wmFile = "saved", watermark)
  /\ UNCHANGED <<now, gatewayVars, outputVars, listedAt>>

BeginReading ==
  /\ phase = "list"
  /\ nextPattern = NumPatterns + 1
  /\ pending # {}
  /\ phase' = "read"
  /\ UNCHANGED <<now, gatewayVars, outputVars, nextPattern, since, pending, records,
                 maxProcessed, listedAt, gap>>

Later(a, b) == IF a > b THEN a ELSE b

\* The content is what the file holds now, the time what the listing saw.
ReadFile(p) ==
  /\ phase = "read"
  /\ pending' = pending \ {p}
  /\ records' = records \union {[file |-> p.file, version |-> version[p.file]]}
  /\ maxProcessed' = Later(p.mtime, maxProcessed)
  /\ UNCHANGED <<now, gatewayVars, outputVars, phase, nextPattern, since, listedAt, gap>>

\* The catch block warns and goes on with the next file.
ReadFails(p) ==
  /\ phase = "read"
  /\ now <= QuietFrom
  /\ pending' = pending \ {p}
  /\ gap' = Overlook({p.file}, "failed")
  /\ UNCHANGED <<now, gatewayVars, outputVars, phase, nextPattern, since, records,
                 maxProcessed, listedAt>>

RecordOf(f) == CHOOSE r \in records : r.file = f

\* Mistaken variant of Stage: the staging file replaces what was staged before.
StageOverwriting ==
  /\ phase = "read"
  /\ pending = {}
  /\ phase' = "save"
  /\ staged' = [f \in Files |-> IF \E r \in records : r.file = f
                                  THEN RecordOf(f).version ELSE 0]
  /\ gap' = [f \in Files |-> IF staged'[f] = version[f] THEN "none" ELSE gap[f]]
  /\ UNCHANGED <<now, gatewayVars, wmFile, watermark, nextPattern, since, pending, records,
                 maxProcessed, listedAt>>

\* Out-File of the staging file: all records of the run at once.
Stage ==
  /\ phase = "read"
  /\ pending = {}
  /\ phase' = "save"
  /\ staged' = [f \in Files |-> IF \E r \in records : r.file = f
                                  THEN RecordOf(f).version ELSE staged[f]]
  /\ gap' = [f \in Files |-> IF staged'[f] = version[f] THEN "none" ELSE gap[f]]
  /\ UNCHANGED <<now, gatewayVars, wmFile, watermark, nextPattern, since, pending, records,
                 maxProcessed, listedAt>>

\* Out-File of the watermark empties the file first ...
TruncateWatermark ==
  /\ phase = "save"
  /\ phase' = "write"
  /\ wmFile' = "empty"
  /\ UNCHANGED <<now, gatewayVars, staged, watermark, nextPattern, since, pending, records,
                 maxProcessed, listedAt, gap>>

\* Mistaken variant of SaveWatermark: the time of saving, not the newest file's.
SaveWatermarkNow ==
  /\ phase = "write"
  /\ wmFile' = "saved"
  /\ watermark' = now
  /\ gap' = GapAtEnd(TRUE, now)
  /\ ForgetRun
  /\ UNCHANGED <<now, gatewayVars, staged, listedAt>>

\* ... and then writes it; the script ends.
SaveWatermark ==
  /\ phase = "write"
  /\ wmFile' = "saved"
  /\ watermark' = maxProcessed
  /\ gap' = GapAtEnd(TRUE, maxProcessed)
  /\ ForgetRun
  /\ UNCHANGED <<now, gatewayVars, staged, listedAt>>

\* The run is killed: its memory is gone, its files stay.
Crash ==
  /\ phase # "idle"
  /\ now <= QuietFrom
  /\ ForgetRun
  /\ gap' = GapAtEnd(wmFile = "saved", watermark)
  /\ UNCHANGED <<now, gatewayVars, outputVars, listedAt>>

----------------------------------------------------------------------------

Read == \E p \in pending : ReadFile(p)
ReadFailure == \E p \in pending : ReadFails(p)

Run ==
  \/ StartRun
  \/ ListPattern
  \/ NothingNew
  \/ BeginReading
  \/ Read
  \/ ReadFailure
  \/ Stage
  \/ TruncateWatermark
  \/ SaveWatermark

Next ==
  \/ Tick
  \/ \E f \in Files : GatewayWrites(f)
  \/ Run
  \/ Crash

Spec == Init /\ [][Next]_vars

\* Time passes however often runs are started and killed, the task scheduler
\* starts the script, and a started script goes on.  Nothing obliges the gateway
\* to write, or a run to fail or to be killed.
FairSpec == Spec /\ SF_vars(Tick) /\ WF_vars(Run)

----------------------------------------------------------------------------
(* Safety *)

\* The saved watermark (Collect-GatewayLogs.ps1:219-222) never passes a version
\* that is not staged, unless one of the four causes hit that very version:
\* whatever the interleaving with the gateway, the failures and the kills, the
\* file is either staged, or the next run lists it, or its loss has a name.
LossIsExplained ==
  wmFile = "saved" =>
    \A f \in Files : \/ staged[f] = version[f]
                     \/ ListedUnder(f, watermark)
                     \/ gap[f] # "none"

\* Collect-GatewayLogs.ps1:196 "Do not update watermark for failed files -- they
\* will retry next run": between runs the next one still lists a file whose last
\* read failed, also when it is older than the newest file that was read.
FailedFilesRetryNextRun ==
  phase = "idle" /\ wmFile = "saved" =>
    \A f \in Files : gap[f] = "failed" /\ mtime[f] < watermark => ListedUnder(f, watermark)

\* Collect-GatewayLogs.ps1:109-110 "Incremental delta pattern avoids re-uploading
\* files already processed": no run picks a file the saved watermark covers.
NoReUpload ==
  wmFile = "saved" => \A p \in pending : p.mtime > watermark

----------------------------------------------------------------------------
(* The inductive invariant behind LossIsExplained *)

\* The clock is past everything recorded; a run sees a later tick than the
\* saved watermark.
ClockInv ==
  /\ listedAt <= now
  /\ \A f \in Files : mtime[f] <= now
  /\ wmFile = "saved" => watermark <= listedAt
  /\ wmFile = "saved" /\ phase # "idle" => watermark < now

\* What a run's memory holds at each phase.
MemoryInv ==
  /\ phase \in {"idle", "save", "write"} => pending = {}
  /\ phase = "idle" => records = {}
  /\ phase \in {"list", "read", "save"} => wmFile # "empty"
  /\ phase = "write" => wmFile = "empty"
  /\ phase \in {"read", "save", "write"} => nextPattern = NumPatterns + 1
  /\ phase # "idle" =>
       /\ wmFile = "saved" => since = SecondOf(watermark)
       /\ since <= now
       /\ nextPattern > 1 => since <= listedAt
       /\ maxProcessed <= since \/ maxProcessed <= listedAt
  /\ \A p \in pending : p.mtime <= listedAt

\* Each file is listed at most once and read at most once in a run; what was
\* read lies between what is staged and what the file holds.
SnapshotInv ==
  /\ \A f \in Files : staged[f] <= version[f]
  /\ \A p \in pending : PatternOf[p.file] < nextPattern
  /\ \A p, q \in pending : p.file = q.file => p = q
  /\ \A r \in records :
       /\ PatternOf[r.file] < nextPattern
       /\ r.file \notin PendingFiles
       /\ staged[r.file] <= r.version
       /\ r.version <= version[r.file]
  /\ \A r, s \in records : r.file = s.file => r = s

\* In a run, every file of a pattern already listed is accounted for.
CoverageInv ==
  phase # "idle" =>
    \A f \in Files : PatternOf[f] < nextPattern =>
      \/ f \in PendingFiles
      \/ staged[f] = version[f]
      \/ phase \in {"list", "read"} /\ [file |-> f, version |-> version[f]] \in records
      \/ gap[f] # "none"
      \/ phase # "list" /\ mtime[f] > listedAt

IInv == TypeOK /\ ClockInv /\ MemoryInv /\ SnapshotInv /\ CoverageInv /\ LossIsExplained

----------------------------------------------------------------------------
(* Liveness *)

\* A run was killed inside the watermark's Out-File: later runs throw.
Wedged == phase = "idle" /\ wmFile = "empty"

Owed(f, v) == version[f] = v /\ staged[f] < v /\ gap[f] = "none"

\* Every version the gateway writes is staged in the end, unless the gateway
\* replaces it first, its loss has a cause, or a kill wedged the collector.
EventuallyStaged ==
  \A f \in Files : \A v \in 1..MaxVersion :
    Owed(f, v) ~> (~ Owed(f, v) \/ Wedged)

\* The collector implements the delivery it owes.
Delivery == INSTANCE LogDelivery WITH
  written <- version, delivered <- staged, abandoned <- {f \in Files : gap[f] # "none"}

ImplementsDelivery == Delivery!Spec
=============================================================================
