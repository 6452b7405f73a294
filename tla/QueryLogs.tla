------------------------------ MODULE QueryLogs --------------------------------
(***************************************************************************)
(* The gateway's query logs from the landing zone to the silver tables     *)
(* that attribute queries and put them beside network samples:             *)
(* ingest_gateway_logs of 01_bronze_ingest.py with its two readers, the    *)
(* CSV reader of gateway_bronze_lib.py and the parser of the reports that  *)
(* Collect-GatewayLogs.ps1 stages, and 02_silver_correlate.py without the  *)
(* triage, which Medallion models.                                         *)
(*                                                                         *)
(* A file is a header and rows of cells.  Bronze reads every landed file   *)
(* again on every run and appends; the copies of a row are not told apart. *)
(* What Spark does with a table is modelled from how the code calls it: a  *)
(* read of several CSV files applies the header of one of them to all,     *)
(* a DataFrame made from Python rows needs a value in every column, and an *)
(* append cannot change the type of a column.                              *)
(***************************************************************************)
EXTENDS Integers, FiniteSets, SequencesExt

CONSTANTS
  Files,      \* [name, form: csv or report, type, host, header, rows] to land
  Samples,    \* network samples [host, nic, at, rate]
  Safe,       \* column name -> the name without illegal characters
  Number,     \* cells that are numbers, possibly with a fraction -> integer part
  TimeOf,     \* cells that are timestamps -> time
  Artifact,   \* contexts, JSON or its base64 -> the artifact they name
  NetWindow   \* NET_WINDOW_SECS

None == "none"    \* null: no cell, no host, no artifact
Nothing == -1     \* null among numbers and times
Null(c) == c \in {None, "", "null"}    \* _cast_value's legitimate nulls

(* The columns each type of log is known to have, and the numeric ones.    *)
Known == [execution |-> {"request", "tracking", "end", "duration"},
          start     |-> {"request", "time", "context"},
          counter   |-> {"time", "cpu"}]
Numeric == [execution |-> {"duration"}, start |-> {}, counter |-> {"cpu"}]

ASSUME FilesAssumption ==
  /\ \A f, g \in Files : f.name = g.name => f = g
  /\ \A f \in Files :
    /\ f.form \in {"csv", "report"} /\ f.type \in DOMAIN Known
    /\ f.form = "csv" => f.type # "counter"
    /\ f.header \in Seq(DOMAIN Safe) /\ IsInjective(f.header)
    /\ f.type = "execution" => "end" \in Range(f.header)
    /\ f.type # "execution" => "time" \in Range(f.header)
    \* No log has a column of the name the code gives to what it derives.
    /\ f.type = "start" => \A c \in Range(f.header) : Safe[c] # "artifact_type"

ASSUME ValuesAssumption ==
  /\ \A c \in DOMAIN TimeOf : TimeOf[c] \in Nat
  /\ \A s \in Samples : s.host # None /\ s.at \in Nat
  /\ NetWindow \in Nat

VARIABLES
  landing,    \* files landed
  metrics,    \* bronze_network_metrics
  execution,  \* bronze_query_execution: columns, type of _cast_errors, rows
  start,      \* bronze_query_start: columns, rows
  counter,    \* bronze_system_counter: rows
  bronzeAt,   \* step of ingest_gateway_logs, or "idle"
  handled,    \* handled_any of the library path
  batch,      \* reports the fallback has collected
  silver,     \* silver_query_execution: columns, rows
  identity, network,  \* silver_identity_attribution, silver_network_correlated
  silverAt    \* step of 02_silver_correlate, "idle" or "failed"

bronze == <<execution, start, counter, bronzeAt, handled, batch>>
silverVars == <<silver, identity, network, silverAt>>
vars == <<landing, metrics, bronze, silverVars>>

Init ==
  /\ landing = {} /\ metrics = {}
  /\ execution = [columns |-> {}, errors |-> "none", rows |-> {}]
  /\ start = [columns |-> {}, rows |-> {}] /\ counter = {}
  /\ bronzeAt = "idle" /\ handled = FALSE /\ batch = {}
  /\ silver = [columns |-> {}, rows |-> {}]
  /\ identity = {} /\ network = {} /\ silverAt = "idle"

FileLands(f) ==
  /\ f \notin landing /\ landing' = landing \cup {f}
  /\ UNCHANGED <<metrics, bronze, silverVars>>

SampleArrives(s) ==
  /\ s \notin metrics /\ metrics' = metrics \cup {s}
  /\ UNCHANGED <<landing, bronze, silverVars>>

--------------------------------------------------------------------------------
(* Reading a row of cells under a header.  Names with an underscore are    *)
(* mistaken variants of the definition after them.                         *)

(* The cell of a column; a row may be shorter than the header.             *)
Field(header, row, column) ==
  IF \E i \in DOMAIN header \cap DOMAIN row : header[i] = column
    THEN row[CHOOSE i \in DOMAIN header : header[i] = column] ELSE None

(* Casts.  What does not parse becomes null.                               *)
AsNumber(c) == IF c \in DOMAIN Number THEN Number[c] ELSE Nothing
AsTime(c) == IF c \in DOMAIN TimeOf THEN TimeOf[c] ELSE Nothing
AsArtifact(c) == IF c \in DOMAIN Artifact THEN Artifact[c] ELSE None

(* A present cell that was lost by the cast: cast_query_execution looks at *)
(* the text before it casts, _cast_value also takes the word null for one. *)
LostByLib_Silent(c) == FALSE
LostByLib(c) == c \notin {None, ""} /\ AsNumber(c) = Nothing
LostByParser(c) == ~Null(c) /\ AsNumber(c) = Nothing

(* A row of a file of executions, under the header given for it.           *)
ExecutionRow(f, header, row, lost, host) ==
  [request |-> Field(header, row, "request"), tracking |-> Field(header, row, "tracking"),
   end |-> AsTime(Field(header, row, "end")),
   duration |-> AsNumber(Field(header, row, "duration")),
   lost |-> lost, host |-> host, file |-> f.name, row |-> row]

(* _sanitize_columns: column by column, an illegal name gets its safe one, *)
(* with the first suffix that no column of the table has at that moment.   *)
(* A name is its base and suffix; 1 stands for none.                       *)
Sanitized_NoSuffix(header) == [i \in DOMAIN header |-> <<Safe[header[i]], 1>>]
SuffixAt(header, i, suffix) ==
  LET safe == Safe[header[i]]
      used == {<<Safe[header[j]], suffix[j]>> : j \in 1..(i - 1)}
                \cup {<<header[j], 1>> : j \in i..Len(header)}
  IN IF safe = header[i] THEN 1
     ELSE CHOOSE n \in 1..(Len(header) + 1) :
            <<safe, n>> \notin used /\ \A m \in 1..(n - 1) : <<safe, m>> \in used
SuffixesOf(header) ==
  LET suffix[i \in DOMAIN header] == SuffixAt(header, i, suffix) IN suffix
Sanitized(header) == [i \in DOMAIN header |-> <<Safe[header[i]], SuffixesOf(header)[i]>>]
Columns(names) == {<<c, 1>> : c \in names}

--------------------------------------------------------------------------------
(* The primary path: read_gateway_csv over all CSV files of a type, under  *)
(* the header of one of them.  An exception - no file, two columns of one  *)
(* name, a _cast_errors of another type than the table's - is caught and   *)
(* counts as nothing to read.                                              *)

Csvs(type) == {f \in landing : f.form = "csv" /\ f.type = type}
Readable(type) == \E f \in Csvs(type) : f.rows # {}
Writable_AnyType(first, errors) == IsInjective(Sanitized(first.header))
Writable(first, errors) ==
  IsInjective(Sanitized(first.header)) /\ execution.errors \in {"none", errors}
HeaderUsed_ByPosition(first, f) == <<"request", "tracking", "end", "duration">>
HeaderUsed(first, f) == first.header

IngestExecutionCsvs ==
  /\ bronzeAt = "idle" /\ bronzeAt' = "startCsvs"
  /\ \/ /\ ~Readable("execution") \/ \E f \in Csvs("execution") : ~Writable(f, "names")
        /\ handled' = FALSE /\ UNCHANGED execution
     \/ \E first \in Csvs("execution") :
          /\ Readable("execution") /\ Writable(first, "names") /\ handled' = TRUE
          /\ execution' =
               [columns |-> execution.columns \cup Range(Sanitized(first.header)),
                errors |-> "names",
                rows |-> execution.rows \cup
                  UNION {{LET header == HeaderUsed(first, f) IN
                          ExecutionRow(f, header, r,
                                       LostByLib(Field(header, r, "duration")), None) :
                          r \in f.rows} : f \in Csvs("execution")}]
  /\ UNCHANGED <<landing, metrics, start, counter, batch, silverVars>>

(* add_artifact_identity takes the context apart into artifact_id and      *)
(* artifact_kind.                                                          *)
ContextColumns(header) ==
  IF "context" \in Range(header) THEN {"artifact_id", "artifact_kind"} ELSE {}
StartRows(first) ==
  UNION {{[request |-> Field(HeaderUsed(first, f), r, "request"),
           artifact |-> AsArtifact(Field(HeaderUsed(first, f), r, "context"))] :
          r \in f.rows} : f \in Csvs("start")}

IngestStartCsvs ==
  /\ bronzeAt = "startCsvs"
  /\ \/ /\ ~Readable("start") /\ UNCHANGED <<handled, start>>
     \/ \E first \in Csvs("start") :
          /\ Readable("start") /\ handled' = TRUE
          /\ start' = [columns |-> start.columns \cup Range(Sanitized(first.header))
                                     \cup Columns(ContextColumns(first.header)),
                       rows |-> start.rows \cup StartRows(first)]
  /\ bronzeAt' = IF handled' THEN "idle" ELSE "reports"
  /\ UNCHANGED <<landing, metrics, execution, counter, batch, silverVars>>

--------------------------------------------------------------------------------
(* The fallback, if no CSV was handled: the staged reports, parsed row by  *)
(* row under their own header.                                             *)

CollectReports ==
  /\ bronzeAt = "reports"
  /\ batch' = {f \in landing : f.form = "report"}
  /\ bronzeAt' = IF batch' = {} THEN "idle" ELSE "executions"
  /\ UNCHANGED <<landing, metrics, execution, start, counter, handled, silverVars>>

(* parse_csv_schema_adaptive gives every row all the known columns, a map  *)
(* of unknown ones and a list of lost cells; createDataFrame infers the    *)
(* types from the values and raises where a column, the map or the list    *)
(* has none in any row.                                                    *)
Parsed(type) == {f \in batch : f.type = type /\ f.rows # {}}
Inferable_KnownOnly(type) ==
  \A column \in Known[type] : \E f \in Parsed(type) : \E r \in f.rows :
    ~Null(Field(f.header, r, column))
Inferable(type) ==
  LET value(f, r, column) ==
        LET c == Field(f.header, r, column)
        IN IF column \in Numeric[type] THEN AsNumber(c) # Nothing ELSE ~Null(c)
      some(P(_, _)) == \E f \in Parsed(type) : \E r \in f.rows : P(f, r)
  IN /\ \A column \in Known[type] : some(LAMBDA f, r : value(f, r, column))
     /\ some(LAMBDA f, r : Range(f.header) \ Known[type] # {})
     /\ some(LAMBDA f, r : \E c \in Numeric[type] : LostByParser(Field(f.header, r, c)))

EndFallback_KeepsBatch(step) ==
  /\ bronzeAt' = step /\ UNCHANGED <<landing, metrics, handled, batch, silverVars>>
EndFallback(step) ==
  /\ bronzeAt' = step /\ batch' = IF step = "idle" THEN {} ELSE batch
  /\ UNCHANGED <<landing, metrics, handled, silverVars>>

(* The exception of an uninferable batch, and of an append whose           *)
(* _cast_errors has another type than the table's, ends the notebook.      *)
WriteReportExecutions ==
  /\ bronzeAt = "executions" /\ UNCHANGED <<start, counter>>
  /\ \/ Parsed("execution") = {} /\ EndFallback("starts") /\ UNCHANGED execution
     \/ /\ Parsed("execution") # {}
        /\ ~Inferable("execution") \/ execution.errors = "names"
        /\ EndFallback("idle") /\ UNCHANGED execution
     \/ /\ Parsed("execution") # {} /\ Inferable("execution")
        /\ execution.errors # "names" /\ EndFallback("starts")
        /\ execution' =
             [columns |-> execution.columns \cup Columns(Known["execution"])
                            \cup Columns({"_gateway_host"}),
              errors |-> "records",
              rows |-> execution.rows \cup
                UNION {{ExecutionRow(f, f.header, r,
                                     LostByParser(Field(f.header, r, "duration")), f.host) :
                        r \in f.rows} : f \in Parsed("execution")}]

(* No column of a start is numeric, so the list of lost cells is always    *)
(* empty, and parse_evaluation_context, which has the other name for the   *)
(* artifact's kind, is never reached.                                      *)
ParsedContext == {"artifact_id", "artifact_type"}

WriteReportStarts ==
  /\ bronzeAt = "starts"
  /\ EndFallback(IF Parsed("start") = {} \/ Inferable("start") THEN "counters" ELSE "idle")
  /\ start' = IF Parsed("start") = {} \/ ~Inferable("start") THEN start ELSE
       [columns |-> start.columns \cup Columns(Known["start"])
                      \cup Columns(ParsedContext),
        rows |-> start.rows \cup
          UNION {{[request |-> Field(f.header, r, "request"),
                   artifact |-> AsArtifact(Field(f.header, r, "context"))] : r \in f.rows} :
                 f \in Parsed("start")}]
  /\ UNCHANGED <<execution, counter>>

WriteReportCounters ==
  /\ bronzeAt = "counters" /\ EndFallback("idle")
  /\ counter' = IF Parsed("counter") # {} /\ Inferable("counter")
                  THEN counter \cup UNION {f.rows : f \in Parsed("counter")} ELSE counter
  /\ UNCHANGED <<execution, start>>

(* A kill of the notebook; the next run starts over.                       *)
BronzeStops == /\ bronzeAt # "idle" /\ EndFallback("idle")
               /\ UNCHANGED <<execution, start, counter>>

--------------------------------------------------------------------------------
(* 02_silver_correlate.py.  Selecting a column a table does not have       *)
(* raises and ends the notebook.                                           *)

Fail == /\ silverAt' = "failed"
        /\ UNCHANGED <<landing, metrics, bronze, silver, identity, network>>

(* build_silver_query_execution: the latest row of each query, joined with *)
(* some start of its request.                                              *)
KeyOf(x) == <<x.request, x.tracking>>
Latest == {x \in execution.rows :
             \A y \in execution.rows : KeyOf(y) = KeyOf(x) => y.end <= x.end}
StartNeeds_Kind == {"request", "time", "context", "artifact_id", "artifact_kind"}
StartNeeds == {"request", "time", "context", "artifact_id", "artifact_type"}

BuildQueries ==
  /\ silverAt \in {"idle", "failed"}
  /\ \/ /\ execution.rows = {} /\ silverAt' = "identity"
        /\ UNCHANGED <<landing, metrics, bronze, silver, identity, network>>
     \/ /\ execution.rows # {}
        /\ \/ ~(Columns({"request", "tracking", "end"}) \subseteq execution.columns)
           \/ start.rows # {} /\ ~(Columns(StartNeeds) \subseteq start.columns)
        /\ Fail
     \/ /\ execution.rows # {} /\ silverAt' = "identity"
        /\ Columns({"request", "tracking", "end"}) \subseteq execution.columns
        /\ start.rows = {} \/ Columns(StartNeeds) \subseteq start.columns
        /\ LET keys == {KeyOf(x) : x \in execution.rows}
               requests == {k[1] : k \in keys}
               found(q) == {s.artifact : s \in {t \in start.rows : t.request = q}}
               artifacts(q) == IF found(q) = {} THEN {None} ELSE found(q)
           IN \E kept \in kSubset(Cardinality(keys), Latest),
                 artifact \in [requests -> UNION {artifacts(q) : q \in requests}] :
                /\ {KeyOf(x) : x \in kept} = keys
                /\ \A q \in requests : artifact[q] \in artifacts(q)
                /\ silver' = [columns |-> execution.columns,
                     rows |-> {[request |-> x.request, tracking |-> x.tracking, end |-> x.end,
                                host |-> x.host, artifact |-> artifact[x.request]] : x \in kept}]
        /\ UNCHANGED <<landing, metrics, bronze, identity, network>>

(* build_silver_identity_attribution: the queries with an artifact and the *)
(* ones without, all kept.                                                 *)
BuildIdentity ==
  /\ silverAt = "identity"
  /\ \/ /\ silver.rows # {} /\ ~(Columns({"duration"}) \subseteq silver.columns)
        /\ Fail
     \/ /\ silver.rows = {} \/ Columns({"duration"}) \subseteq silver.columns
        /\ silverAt' = "network"
        /\ identity' = IF silver.rows = {} THEN identity ELSE
             {[request |-> x.request, tracking |-> x.tracking,
               confidence |-> IF x.artifact # None THEN "EVALUATION_CONTEXT"
                                                   ELSE "UNATTRIBUTED"] : x \in silver.rows}
        /\ UNCHANGED <<landing, metrics, bronze, silver, network>>

(* build_silver_network_correlated: per host and time the busiest of the   *)
(* NICs; of the pairs of a query and a sample near its end the closest per *)
(* RequestId, or one query of it without a sample.                         *)
Aggregated == {[host |-> s.host, at |-> s.at,
                rate |-> Max({t.rate : t \in {u \in metrics : u.host = s.host /\ u.at = s.at}})] :
               s \in metrics}
Gap(x, s) == IF x.end >= s.at THEN x.end - s.at ELSE s.at - x.end
IsNear(x, s) == x.end # Nothing /\ s.host = x.host /\ Gap(x, s) <= NetWindow
NoSample == [host |-> None, at |-> 0, rate |-> 0]
Of(q) == {x \in silver.rows : x.request = q}
Paired(q) == {p \in Of(q) \X Aggregated : IsNear(p[1], p[2])}
Best_InWindow(q) == IF Paired(q) = {} THEN Of(q) \X {NoSample} ELSE Paired(q)
Best(q) ==
  LET pairs == Paired(q)
  IN IF pairs = {} THEN Of(q) \X {NoSample}
     ELSE {p \in pairs : \A o \in pairs : Gap(p[1], p[2]) <= Gap(o[1], o[2])}

BuildNetwork ==
  /\ silverAt = "network"
  /\ LET missing == silver.rows = {} \/ metrics = {}
         requests == {x.request : x \in silver.rows}
     IN \/ /\ missing /\ silverAt' = "idle"
           /\ UNCHANGED <<landing, metrics, bronze, silver, identity, network>>
        \/ /\ ~missing /\ ~(Columns({"_gateway_host"}) \subseteq silver.columns)
           /\ Fail
        \/ /\ ~missing /\ Columns({"_gateway_host"}) \subseteq silver.columns
           /\ silverAt' = "idle"
           /\ LET best == UNION {Best(q) : q \in requests}
                  rows == {[query |-> p[1], sample |-> p[2]] : p \in best}
              IN \E chosen \in kSubset(Cardinality(requests), rows) :
                   /\ {n.query.request : n \in chosen} = requests
                   /\ network' = chosen
           /\ UNCHANGED <<landing, metrics, bronze, silver, identity>>

(* The triage between the first two builds may end the notebook, and so    *)
(* may a kill.                                                             *)
SilverStops == silverAt \in {"identity", "network"} /\ Fail

--------------------------------------------------------------------------------
Bronze == \/ IngestExecutionCsvs \/ IngestStartCsvs \/ CollectReports
          \/ WriteReportExecutions \/ WriteReportStarts \/ WriteReportCounters
          \/ BronzeStops
Silver == BuildQueries \/ BuildIdentity \/ BuildNetwork \/ SilverStops

Next == \/ \E f \in Files : FileLands(f)
        \/ \E s \in Samples : SampleArrives(s)
        \/ Bronze \/ Silver

Spec == Init /\ [][Next]_vars

--------------------------------------------------------------------------------
(* Types: the tables hold rows of landed files and the steps are the       *)
(* code's.                                                                 *)
TypeOK ==
  /\ landing \subseteq Files /\ metrics \subseteq Samples
  /\ execution.errors \in {"none", "names", "records"}
  /\ \A x \in execution.rows : x.lost \in BOOLEAN /\ \E f \in landing : f.name = x.file
  /\ counter \subseteq UNION {f.rows : f \in Files}
  /\ bronzeAt \in {"idle", "startCsvs", "reports", "executions", "starts", "counters"}
  /\ batch \subseteq landing
  /\ batch # {} <=> bronzeAt \in {"executions", "starts", "counters"}
  /\ handled \in BOOLEAN
  /\ silverAt \in {"idle", "identity", "network", "failed"}
  /\ \A x \in silver.rows : x.end \in Int

(* What a row says when it is read under its own header.                   *)
FileOf(x) == CHOOSE f \in Files : f.name = x.file
Own(x, column) == Field(FileOf(x).header, x.row, column)
Misread(x) == \/ x.request # Own(x, "request") \/ x.tracking # Own(x, "tracking")
              \/ x.end # AsTime(Own(x, "end"))
              \/ x.duration # AsNumber(Own(x, "duration"))

(* No CSV with another header lies beside the file of the row.             *)
OwnHeader(x) == \/ FileOf(x).form = "report"
                \/ \A f \in Csvs("execution") : f.header = FileOf(x).header

(* A row is read by column name and not by position: it is misread only if *)
(* it came from a CSV and a CSV with another header was landed beside it.  *)
MisreadNeedsAnotherHeader ==
  \A x \in execution.rows : Misread(x) => ~OwnHeader(x)

(* A number that does not parse is never lost in silence, on either path:  *)
(* a row that was read by its own header either has it or names it in      *)
(* _cast_errors.                                                           *)
NoSilentCast ==
  \A x \in execution.rows :
    OwnHeader(x) /\ ~Null(Own(x, "duration")) /\ x.duration = Nothing => x.lost

(* Executions from CSVs and from reports never share the table: their      *)
(* _cast_errors have different types, and whichever path writes first      *)
(* shuts the other out for good.                                           *)
OneFormPerTable ==
  \A x, y \in execution.rows : FileOf(x).form = FileOf(y).form

(* Any row in a CSV keeps the fallback, and with it every staged report,   *)
(* from being looked at, whatever the type and age of either.  The one way *)
(* past an execution CSV is a table that the reports' form already owns,   *)
(* for the names of its columns never make its write fail.                 *)
CsvKeepsReportsOut ==
  [][/\ bronzeAt = "idle" /\ bronzeAt' = "startCsvs"
        => (Readable("execution") /\ execution.errors # "records" => handled')
     /\ bronzeAt # "reports" /\ bronzeAt' = "reports"
        => ~handled /\ ~Readable("start")]_vars

(* Executions from reports reach bronze only once a report of executions   *)
(* with an unknown column has landed and one with a number that does not   *)
(* parse: however many clean ones land, and whatever CSVs lie beside them, *)
(* none is ever written.                                                   *)
CleanReportsNeverLand ==
  (\E x \in execution.rows : FileOf(x).form = "report") =>
    LET reports == {f \in landing : f.form = "report" /\ f.type = "execution"}
    IN /\ \E f \in reports : Range(f.header) \ Known["execution"] # {}
       /\ \E f \in reports : \E r \in f.rows : LostByParser(Field(f.header, r, "duration"))

(* No query is ever attributed to an artifact.  A start is in bronze only  *)
(* with artifact_kind, silver asks for artifact_type and raises, and it is *)
(* built only while there is no start at all.                              *)
NothingIsAttributed ==
  \A a \in identity : a.confidence = "UNATTRIBUTED"

(* At the end of a run of silver every request of silver is in the network *)
(* table, and no sample of the gateway is closer to any query of a request *)
(* than the one its row shows.                                             *)
NetworkIsNearest ==
  [][network' # network =>
       /\ {n.query.request : n \in network'} = {x.request : x \in silver.rows}
       /\ \A n \in network' : \A x \in Of(n.query.request) : \A s \in metrics :
            s.host = x.host /\ x.end # Nothing /\ Gap(x, s) <= NetWindow =>
              n.sample # NoSample /\ Gap(n.query, n.sample) <= Gap(x, s)]_vars

(* "One query maps to <=1 network row; a query with no sample keeps its    *)
(* single all-null row", 02_silver_correlate.py:545-549: a network table   *)
(* that is written has exactly one row for every query of silver.          *)
NetworkKeepsEveryQuery ==
  [][network' # network =>
       \A x \in silver.rows : Cardinality({n \in network' : n.query = x}) = 1]_vars

(* Silver can read what bronze wrote: test_medallion_spark.py:218 says the *)
(* bronze table of starts has an artifact_type.                            *)
SilverReadsStarts ==
  [][(BuildQueries /\ silverAt' = "failed") => start.rows = {}]_vars

================================================================================
