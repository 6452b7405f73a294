------------------------- MODULE EventLogCollector -------------------------
(***************************************************************************)
(* collectors/Collect-EventLog.ps1: the scheduled task that copies the     *)
(* gateway's entries of two Windows event logs to the landing zone.        *)
(*                                                                         *)
(* Unlike the log collector, a run moves its watermark to its own start    *)
(* time, whatever the two queries returned; a query that failed is         *)
(* recorded in the staged file's CollectionErrors and not repeated.        *)
(*                                                                         *)
(* Get-WinEvent takes StartTime by its text: whole seconds, read as local  *)
(* time.  On PowerShell 7 the parsed watermark has UTC digits and no kind. *)
(* An event is an entry that passes the query's filters.                   *)
(***************************************************************************)
EXTENDS Integers

CONSTANTS
  Events,           \* entries that may be logged
  LogOf,            \* the log each belongs to
  TicksPerSecond,
  Lookback,         \* LookbackMinutes
  UtcOffset,        \* local time minus UTC on the host
  \* bounds of a checked instance
  QuietFrom,        \* after this tick nothing is logged, fails or is killed,
                    \* and a run takes no time
  MaxTime           \* the clock stops here

Logs == {"Application", "System"}

ASSUME ClockAssumption ==
  /\ TicksPerSecond \in Nat \ {0}
  /\ Lookback \in Nat
  /\ UtcOffset \in Int

ASSUME LogAssumption == LogOf \in [Events -> Logs]

ASSUME BoundAssumption == QuietFrom \in Nat /\ MaxTime \in Nat

VARIABLES
  now,
  logged, time,                     \* Windows: which events exist, and since when
  landed, wmFile, watermark,        \* OutputPath: staged events, watermark file
  phase, collectedAt, start,        \* one run's memory ...
  batch, missed,
  noticed,                          \* events whose failed query is recorded in the
                                    \* CollectionErrors of a staged file
  scopeFrom                         \* start of the first window that was saved

windowsVars == <<logged, time>>
outputVars  == <<landed, wmFile, watermark>>
runVars     == <<phase, collectedAt, start, batch, missed>>
historyVars == <<noticed, scopeFrom>>
vars == <<now, windowsVars, outputVars, runVars, historyVars>>

Phases == {"idle", "application", "system", "stage", "save", "write"}

SecondOf(t) == t - (t % TicksPerSecond)

TypeOK ==
  /\ now \in Nat
  /\ logged \in SUBSET Events
  /\ time \in [Events -> Nat]
  /\ landed \in SUBSET Events
  /\ wmFile \in {"absent", "empty", "saved"}
  /\ watermark \in Int
  /\ phase \in Phases
  /\ collectedAt \in Int
  /\ start \in Int
  /\ batch \in SUBSET Events
  /\ missed \in SUBSET Events
  /\ noticed \in SUBSET Events
  /\ scopeFrom \in Int

Init ==
  /\ now = 0
  /\ logged \in SUBSET Events       \* before the collector was installed
  /\ time = [e \in Events |-> 0]
  /\ landed = {}
  /\ wmFile = "absent"
  /\ watermark = 0
  /\ phase = "idle"
  /\ collectedAt = -TicksPerSecond
  /\ start = 0
  /\ batch = {}
  /\ missed = {}
  /\ noticed = {}
  /\ scopeFrom = 0

----------------------------------------------------------------------------

Tick ==
  /\ now < MaxTime
  /\ now < QuietFrom \/ phase = "idle"
  /\ now' = now + 1
  /\ UNCHANGED <<windowsVars, outputVars, runVars, historyVars>>

WindowsLogs(e) ==
  /\ now <= QuietFrom
  /\ e \notin logged
  /\ logged' = logged \union {e}
  /\ time' = [time EXCEPT ![e] = now]
  /\ UNCHANGED <<now, outputVars, runVars, historyVars>>

ForgetRun ==
  /\ phase' = "idle"
  /\ start' = 0
  /\ batch' = {}
  /\ missed' = {}
  /\ UNCHANGED collectedAt          \* only to keep the runs apart

\* StartTime of a query, in UTC: the default is a UTC string, parsed to local
\* time; the saved watermark's digits are taken for local time.
StartTime ==
  IF wmFile = "absent" THEN SecondOf(now - Lookback)
                       ELSE SecondOf(watermark) - UtcOffset

\* Runs are minutes apart.  An empty watermark file makes the run throw.
StartRun ==
  /\ phase = "idle"
  /\ wmFile # "empty"
  /\ now >= collectedAt + TicksPerSecond
  /\ phase' = "application"
  /\ collectedAt' = now
  /\ start' = StartTime
  /\ UNCHANGED <<now, windowsVars, outputVars, batch, missed, historyVars>>

InWindow(log) == {e \in logged : LogOf[e] = log /\ time[e] >= start}

\* Mistaken variant of Query: a failed query leaves no trace.
QueryFailingSilently(log) ==
  /\ \/ batch' = batch \union InWindow(log)
     \/ now <= QuietFrom /\ UNCHANGED batch
  /\ UNCHANGED <<missed, now, windowsVars, outputVars, collectedAt, start, historyVars>>

\* Mistaken variant of Query: the result is added as one element, an array.
QueryNested(log) ==
  /\ \/ batch' = batch \union {InWindow(log)} /\ UNCHANGED missed
     \/ now <= QuietFrom /\ missed' = missed \union {InWindow(log)} /\ UNCHANGED batch
  /\ UNCHANGED <<now, windowsVars, outputVars, collectedAt, start, historyVars>>

\* One Get-WinEvent with its try/catch: all of the window, or nothing and an
\* entry of $collectionErrors, which stands for what the query would have found.
Query(log) ==
  /\ \/ batch' = batch \union InWindow(log) /\ UNCHANGED missed
     \/ now <= QuietFrom /\ missed' = missed \union InWindow(log) /\ UNCHANGED batch
  /\ UNCHANGED <<now, windowsVars, outputVars, collectedAt, start, historyVars>>

QueryApplication ==
  /\ phase = "application"
  /\ phase' = "system"
  /\ Query("Application")

QuerySystem ==
  /\ phase = "system"
  /\ phase' = "stage"
  /\ Query("System")

\* Out-File of the staged file, written even when there is no event.
Stage ==
  /\ phase = "stage"
  /\ phase' = "save"
  /\ landed' = landed \union batch
  /\ noticed' = noticed \union missed
  /\ UNCHANGED <<now, windowsVars, wmFile, watermark, collectedAt, start, batch, missed,
                 scopeFrom>>

\* Out-File of the watermark empties the file first ...
TruncateWatermark ==
  /\ phase = "save"
  /\ phase' = "write"
  /\ wmFile' = "empty"
  /\ scopeFrom' = IF wmFile = "absent" THEN start ELSE scopeFrom
  /\ UNCHANGED <<now, windowsVars, landed, watermark, collectedAt, start, batch, missed,
                 noticed>>

\* Mistaken variant of SaveWatermark: the time the run ends, not the time it began.
SaveWatermarkAtEnd ==
  /\ phase = "write"
  /\ wmFile' = "saved"
  /\ watermark' = now
  /\ ForgetRun
  /\ UNCHANGED <<now, windowsVars, landed, historyVars>>

\* ... and then writes the run's start time.
SaveWatermark ==
  /\ phase = "write"
  /\ wmFile' = "saved"
  /\ watermark' = collectedAt
  /\ ForgetRun
  /\ UNCHANGED <<now, windowsVars, landed, historyVars>>

\* The run is killed: what it has not written is gone.
Crash ==
  /\ phase # "idle"
  /\ now <= QuietFrom
  /\ ForgetRun
  /\ UNCHANGED <<now, windowsVars, outputVars, historyVars>>

Run ==
  \/ StartRun
  \/ QueryApplication
  \/ QuerySystem
  \/ Stage
  \/ TruncateWatermark
  \/ SaveWatermark

Next ==
  \/ Tick
  \/ \E e \in Events : WindowsLogs(e)
  \/ Run
  \/ Crash

Spec == Init /\ [][Next]_vars

\* Time passes, the task scheduler starts the script, a started script goes on.
FairSpec == Spec /\ SF_vars(Tick) /\ WF_vars(Run)

----------------------------------------------------------------------------
(* Properties *)

\* Collect-EventLog.ps1:69-75 and 207-208: though the watermark moves on after a
\* failed query and a kill may fall anywhere, every event since the first saved
\* window is landed, inside a window whose failure a landed file records, or
\* still ahead of the next run's window.
NoSilentLoss ==
  wmFile = "saved" =>
    \A e \in logged : \/ time[e] < scopeFrom
                      \/ e \in landed
                      \/ e \in noticed
                      \/ time[e] >= SecondOf(watermark) - UtcOffset

\* The logs a run has queried by the phase it is in.
QueriedLogs ==
  CASE phase = "system"                     -> {"Application"}
    [] phase \in {"stage", "save", "write"} -> Logs
    [] OTHER                                -> {}

\* The inductive invariant behind NoSilentLoss.
RunInv ==
  /\ collectedAt <= now
  /\ \A e \in logged : time[e] <= now
  /\ wmFile = "saved" => watermark <= now
  /\ phase = "write" <=> wmFile = "empty" /\ phase # "idle"
  /\ phase # "idle" => start <= now
  /\ phase # "idle" /\ wmFile = "saved" => start = SecondOf(watermark) - UtcOffset
  /\ \A e \in logged : LogOf[e] \in QueriedLogs =>
       \/ time[e] < start
       \/ e \in batch \union missed
       \/ time[e] >= collectedAt
  /\ phase \in {"save", "write"} => batch \subseteq landed /\ missed \subseteq noticed
  /\ phase = "write" =>
       \A e \in logged : \/ time[e] < scopeFrom
                         \/ e \in landed \union noticed
                         \/ time[e] >= start

IInv == TypeOK /\ RunInv /\ NoSilentLoss

\* A run was killed inside the watermark's Out-File: later runs throw.
Wedged == phase = "idle" /\ wmFile = "empty"

\* Every event logged once a watermark is saved lands, or a landed file tells of
\* the failed query, unless a kill wedged the collector.
EventuallyAccounted ==
  \A e \in Events :
    (wmFile = "saved" /\ e \in logged /\ time[e] >= scopeFrom)
      ~> (e \in landed \/ e \in noticed \/ Wedged)
=============================================================================
