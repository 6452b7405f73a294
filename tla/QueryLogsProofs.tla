---------------------------- MODULE QueryLogsProofs ----------------------------
(***************************************************************************)
(* What bronze_query_execution may hold, for any files, in any order.      *)
(*                                                                         *)
(* The invariant says of every row which file and which cells it came      *)
(* from, by which reader and under which header, and ties the reader to    *)
(* the type that _cast_errors has in the table.  The properties of bronze  *)
(* are read off it.                                                        *)
(*                                                                         *)
(* A second invariant, Full, adds the types and what keeps every query of  *)
(* silver without an artifact.                                             *)
(***************************************************************************)
EXTENDS QueryLogs, FiniteSetTheorems, WellFoundedInduction, TLAPS

(* A row as the parser of the reports makes it, and as the CSV reader does *)
(* under the header of some landed CSV.                                    *)
IsParsedFrom(x, f) ==
  /\ f.form = "report" /\ x.row \in f.rows
  /\ x = ExecutionRow(f, f.header, x.row,
                      LostByParser(Field(f.header, x.row, "duration")), f.host)
IsReadFrom(x, f, header) ==
  /\ f.form = "csv" /\ x.row \in f.rows
  /\ x = ExecutionRow(f, header, x.row,
                      LostByLib(Field(header, x.row, "duration")), None)

FilesLanded == landing \subseteq Files /\ batch \subseteq {f \in landing : f.form = "report"}

RowComesFrom(x, errors, files) ==
  \/ errors = "records" /\ \E f \in files : IsParsedFrom(x, f)
  \/ errors = "names" /\ \E f, g \in files :
       /\ g.form = "csv" /\ g.type = "execution"
       /\ IsReadFrom(x, f, g.header)
RowsComeFrom == \A x \in execution.rows : RowComesFrom(x, execution.errors, landing)

IInv == FilesLanded /\ RowsComeFrom

--------------------------------------------------------------------------------
(* More landed files take nothing from where a row came from.              *)
LEMMA MoreFiles ==
  ASSUME NEW x, NEW errors, NEW files, NEW more, files \subseteq more,
         RowComesFrom(x, errors, files)
  PROVE  RowComesFrom(x, errors, more)
BY DEF RowComesFrom

(* The row a reader makes of cells is a row that comes from them.          *)
LEMMA MadeRow ==
  ASSUME NEW f, NEW header, NEW row, NEW lost, NEW host
  PROVE  LET x == ExecutionRow(f, header, row, lost, host)
         IN x.row = row /\ x.file = f.name
BY DEF ExecutionRow

LEMMA InitIInv == Init => IInv
BY DEF Init, IInv, FilesLanded, RowsComeFrom

LEMMA CsvsKeepIInv == ASSUME IInv, IngestExecutionCsvs PROVE IInv'
<1>1. FilesLanded'
  BY DEF IInv, FilesLanded, IngestExecutionCsvs
<1>2. CASE UNCHANGED execution
  BY <1>1, <1>2 DEF IInv, RowsComeFrom, IngestExecutionCsvs
<1>3. ASSUME ~UNCHANGED execution PROVE RowsComeFrom'
  <2>1. PICK first \in Csvs("execution") :
          /\ Writable(first, "names")
          /\ execution' =
               [columns |-> execution.columns \cup Range(Sanitized(first.header)),
                errors |-> "names",
                rows |-> execution.rows \cup
                  UNION {{LET header == HeaderUsed(first, f) IN
                          ExecutionRow(f, header, r,
                                       LostByLib(Field(header, r, "duration")), None) :
                          r \in f.rows} : f \in Csvs("execution")}]
    BY <1>3 DEF IngestExecutionCsvs
  <2>2. first \in landing /\ first.form = "csv" /\ first.type = "execution"
    BY <2>1 DEF Csvs
  <2>3. execution'.errors = "names" /\ landing' = landing
    BY <2>1 DEF IngestExecutionCsvs
  <2> SUFFICES ASSUME NEW x \in execution'.rows
               PROVE  RowComesFrom(x, "names", landing)
    BY <2>3 DEF RowsComeFrom
  <2>4. CASE x \in execution.rows
    <3>1. RowComesFrom(x, execution.errors, landing)
      BY <2>4 DEF IInv, RowsComeFrom
    <3>2. execution.errors \in {"none", "names"}
      BY <2>1 DEF Writable
    <3> QED BY <3>1, <3>2 DEF RowComesFrom
  <2>5. CASE x \notin execution.rows
    <3>1. PICK f \in Csvs("execution") : \E r \in f.rows :
            x = ExecutionRow(f, first.header, r,
                             LostByLib(Field(first.header, r, "duration")), None)
      BY <2>1, <2>5 DEF HeaderUsed
    <3>2. x.row \in f.rows /\ x = ExecutionRow(f, first.header, x.row,
            LostByLib(Field(first.header, x.row, "duration")), None)
      BY <3>1, MadeRow
    <3>3. f \in landing /\ f.form = "csv"
      BY DEF Csvs
    <3>4. IsReadFrom(x, f, first.header)
      BY <3>2, <3>3 DEF IsReadFrom
    <3> QED BY <3>3, <3>4, <2>2 DEF RowComesFrom
  <2> QED BY <2>4, <2>5
<1> QED BY <1>1, <1>2, <1>3 DEF IInv

LEMMA ReportsKeepIInv == ASSUME IInv, WriteReportExecutions PROVE IInv'
<1>1. landing' = landing /\ batch' \subseteq batch
  BY DEF WriteReportExecutions, EndFallback
<1>2. FilesLanded'
  BY <1>1 DEF IInv, FilesLanded
<1>3. CASE UNCHANGED execution
  BY <1>1, <1>2, <1>3 DEF IInv, RowsComeFrom
<1>4. ASSUME ~UNCHANGED execution PROVE RowsComeFrom'
  <2>1. /\ execution.errors # "names"
        /\ execution' =
             [columns |-> execution.columns \cup Columns(Known["execution"])
                            \cup Columns({"_gateway_host"}),
              errors |-> "records",
              rows |-> execution.rows \cup
                UNION {{ExecutionRow(f, f.header, r,
                                     LostByParser(Field(f.header, r, "duration")), f.host) :
                        r \in f.rows} : f \in Parsed("execution")}]
    BY <1>4 DEF WriteReportExecutions
  <2>2. execution'.errors = "records"
    BY <2>1
  <2> SUFFICES ASSUME NEW x \in execution'.rows
               PROVE  RowComesFrom(x, "records", landing)
    BY <2>2, <1>1 DEF RowsComeFrom
  <2>3. CASE x \in execution.rows
    <3>1. RowComesFrom(x, execution.errors, landing)
      BY <2>3 DEF IInv, RowsComeFrom
    <3> QED BY <3>1, <2>1 DEF RowComesFrom
  <2>4. CASE x \notin execution.rows
    <3>1. PICK f \in Parsed("execution") : \E r \in f.rows :
            x = ExecutionRow(f, f.header, r,
                             LostByParser(Field(f.header, r, "duration")), f.host)
      BY <2>1, <2>4
    <3>2. x.row \in f.rows /\ x = ExecutionRow(f, f.header, x.row,
            LostByParser(Field(f.header, x.row, "duration")), f.host)
      BY <3>1, MadeRow
    <3>3. f \in landing /\ f.form = "report"
      BY DEF Parsed, IInv, FilesLanded
    <3>4. IsParsedFrom(x, f)
      BY <3>2, <3>3 DEF IsParsedFrom
    <3> QED BY <3>3, <3>4 DEF RowComesFrom
  <2> QED BY <2>3, <2>4
<1> QED BY <1>2, <1>3, <1>4 DEF IInv

(* The other actions leave the table alone; files only land.               *)
LEMMA OthersKeepIInv ==
  ASSUME IInv, UNCHANGED execution, landing \subseteq landing', FilesLanded'
  PROVE  IInv'
<1> SUFFICES ASSUME NEW x \in execution.rows
             PROVE  RowComesFrom(x, execution.errors, landing')
  BY DEF IInv, RowsComeFrom
<1>1. RowComesFrom(x, execution.errors, landing)
  BY DEF IInv, RowsComeFrom
<1> QED BY <1>1, MoreFiles

LEMMA NextIInv == IInv /\ [Next]_vars => IInv'
<1> SUFFICES ASSUME IInv, [Next]_vars PROVE IInv'
  OBVIOUS
<1>1. CASE IngestExecutionCsvs
  BY <1>1, CsvsKeepIInv
<1>2. CASE WriteReportExecutions
  BY <1>2, ReportsKeepIInv
<1>3. ASSUME NEW f \in Files, FileLands(f) PROVE IInv'
  <2>1. UNCHANGED execution /\ landing \subseteq landing' /\ FilesLanded'
    BY <1>3 DEF FileLands, bronze, IInv, FilesLanded
  <2> QED BY <2>1, OthersKeepIInv
<1>4. ASSUME UNCHANGED execution, UNCHANGED landing,
             batch' \subseteq batch \/ batch' = {g \in landing : g.form = "report"}
      PROVE  IInv'
  <2>1. FilesLanded'
    BY <1>4 DEF IInv, FilesLanded
  <2> QED BY <1>4, <2>1, OthersKeepIInv
<1>5. CASE \E s \in Samples : SampleArrives(s)
  BY <1>4, <1>5 DEF SampleArrives, bronze
<1>6. CASE IngestStartCsvs
  BY <1>4, <1>6 DEF IngestStartCsvs
<1>7. CASE CollectReports
  BY <1>4, <1>7 DEF CollectReports
<1>8. CASE WriteReportStarts
  BY <1>4, <1>8 DEF WriteReportStarts, EndFallback
<1>9. CASE WriteReportCounters
  BY <1>4, <1>9 DEF WriteReportCounters, EndFallback
<1>10. CASE BronzeStops
  BY <1>4, <1>10 DEF BronzeStops, EndFallback
<1>11. CASE BuildQueries
  BY <1>4, <1>11 DEF BuildQueries, Fail, bronze
<1>12. CASE BuildIdentity
  BY <1>4, <1>12 DEF BuildIdentity, Fail, bronze
<1>13. CASE BuildNetwork
  BY <1>4, <1>13 DEF BuildNetwork, Fail, bronze
<1>14. CASE SilverStops
  BY <1>4, <1>14 DEF SilverStops, Fail, bronze
<1>15. CASE UNCHANGED vars
  BY <1>4, <1>15 DEF vars, bronze
<1> QED
  BY <1>1, <1>2, <1>3, <1>5, <1>6, <1>7, <1>8, <1>9, <1>10, <1>11, <1>12, <1>13,
     <1>14, <1>15 DEF Next, Bronze, Silver

(* The origin of every row of the table, for any files in any order.       *)
THEOREM InvariantCorrect == Spec => []IInv
BY InitIInv, NextIInv, PTL DEF Spec

--------------------------------------------------------------------------------
(* A row's file is the one it came from, for a name is given once.         *)
LEMMA FileIsFound ==
  ASSUME NEW x, NEW f \in Files, x.file = f.name
  PROVE  FileOf(x) = f
BY FilesAssumption DEF FileOf

LEMMA ReadAsMade ==
  ASSUME NEW x, NEW f \in Files, NEW lost, NEW host,
         x = ExecutionRow(f, f.header, x.row, lost, host)
  PROVE  FileOf(x) = f /\ ~Misread(x)
<1>1. x.file = f.name
  BY DEF ExecutionRow
<1>2. FileOf(x) = f
  BY <1>1, FileIsFound
<1>3. /\ x.request = Field(f.header, x.row, "request")
      /\ x.tracking = Field(f.header, x.row, "tracking")
      /\ x.end = AsTime(Field(f.header, x.row, "end"))
      /\ x.duration = AsNumber(Field(f.header, x.row, "duration"))
  BY DEF ExecutionRow
<1> QED BY <1>2, <1>3 DEF Misread, Own

(* Under its own header a row was made by one of the readers as it stands. *)
LEMMA OwnHeaderRow ==
  ASSUME IInv, NEW x \in execution.rows, OwnHeader(x)
  PROVE  \E f \in Files :
           \/ x = ExecutionRow(f, f.header, x.row,
                               LostByParser(Field(f.header, x.row, "duration")), f.host)
           \/ x = ExecutionRow(f, f.header, x.row,
                               LostByLib(Field(f.header, x.row, "duration")), None)
<1>1. RowComesFrom(x, execution.errors, landing) /\ landing \subseteq Files
  BY DEF IInv, RowsComeFrom, FilesLanded
<1>2. CASE \E f \in landing : IsParsedFrom(x, f)
  BY <1>1, <1>2 DEF IsParsedFrom
<1>3. ASSUME NEW f \in landing, NEW g \in landing, g.form = "csv", g.type = "execution",
             IsReadFrom(x, f, g.header)
      PROVE  x = ExecutionRow(f, f.header, x.row,
                              LostByLib(Field(f.header, x.row, "duration")), None)
  <2>1. x.file = f.name /\ f.form = "csv"
    BY <1>3 DEF IsReadFrom, ExecutionRow
  <2>2. FileOf(x) = f
    BY <2>1, <1>1, FileIsFound
  <2>3. g.header = f.header
    BY <1>3, <2>1, <2>2 DEF OwnHeader, Csvs
  <2> QED BY <1>3, <2>3 DEF IsReadFrom
<1> QED BY <1>1, <1>2, <1>3 DEF RowComesFrom

(* The rows of the table all came by the same path.                        *)
LEMMA FormFollowsErrors ==
  ASSUME IInv, NEW x \in execution.rows
  PROVE  FileOf(x).form = IF execution.errors = "records" THEN "report" ELSE "csv"
<1>1. RowComesFrom(x, execution.errors, landing) /\ landing \subseteq Files
  BY DEF IInv, RowsComeFrom, FilesLanded
<1>2. PICK f \in landing :
        /\ x.file = f.name
        /\ f.form = IF execution.errors = "records" THEN "report" ELSE "csv"
  BY <1>1 DEF RowComesFrom, IsParsedFrom, IsReadFrom, ExecutionRow
<1> QED BY <1>1, <1>2, FileIsFound

(* Executions from CSVs and from reports never share bronze_query_execution,*)
(* whatever lands when and however often bronze is run or killed.          *)
THEOREM FormsNeverMix == Spec => []OneFormPerTable
<1>1. IInv => OneFormPerTable
  BY FormFollowsErrors DEF OneFormPerTable
<1> QED BY <1>1, InvariantCorrect, PTL

(* A row is misread only if a CSV with another header lies beside its own. *)
THEOREM HeadersDecide == Spec => []MisreadNeedsAnotherHeader
<1>1. ASSUME IInv, NEW x \in execution.rows, OwnHeader(x) PROVE ~Misread(x)
  BY <1>1, OwnHeaderRow, ReadAsMade
<1>2. IInv => MisreadNeedsAnotherHeader
  BY <1>1 DEF MisreadNeedsAnotherHeader
<1> QED BY <1>2, InvariantCorrect, PTL

(* A number lost by a cast is named in _cast_errors on either path.        *)
THEOREM LossIsNoted == Spec => []NoSilentCast
<1>1. ASSUME IInv, NEW x \in execution.rows, OwnHeader(x),
             ~Null(Own(x, "duration")), x.duration = Nothing
      PROVE  x.lost
  <2>0. PICK f \in Files :
          \E lost, host :
            /\ x = ExecutionRow(f, f.header, x.row, lost, host)
            /\ \/ lost = LostByParser(Field(f.header, x.row, "duration"))
               \/ lost = LostByLib(Field(f.header, x.row, "duration"))
    BY <1>1, OwnHeaderRow
  <2>1. PICK lost, host :
          /\ x = ExecutionRow(f, f.header, x.row, lost, host)
          /\ \/ lost = LostByParser(Field(f.header, x.row, "duration"))
             \/ lost = LostByLib(Field(f.header, x.row, "duration"))
    BY <2>0
  <2>2. FileOf(x) = f
    BY <2>1, ReadAsMade
  <2>3. x.lost = lost /\ x.duration = AsNumber(Field(f.header, x.row, "duration"))
    BY <2>1 DEF ExecutionRow
  <2> QED BY <1>1, <2>1, <2>2, <2>3 DEF Own, LostByParser, LostByLib, Null
<1>2. IInv => NoSilentCast
  BY <1>1 DEF NoSilentCast
<1> QED BY <1>2, InvariantCorrect, PTL

--------------------------------------------------------------------------------
(* What createDataFrame needs of a batch of executions: a report with an   *)
(* unknown column and one with a number that does not parse.               *)
Dirty(files) ==
  LET reports == {f \in files : f.form = "report" /\ f.type = "execution"}
  IN /\ \E f \in reports : Range(f.header) \ Known["execution"] # {}
     /\ \E f \in reports : \E r \in f.rows : LostByParser(Field(f.header, r, "duration"))

LEMMA InferableIsDirty ==
  ASSUME Inferable("execution"), FilesLanded
  PROVE  Dirty(landing)
<1>1. \E f \in Parsed("execution") : \E r \in f.rows :
        Range(f.header) \ Known["execution"] # {}
  BY DEF Inferable
<1>2. \E f \in Parsed("execution") : \E r \in f.rows :
        \E c \in Numeric["execution"] : LostByParser(Field(f.header, r, c))
  BY DEF Inferable
<1>3. Numeric["execution"] = {"duration"}
  BY DEF Numeric
<1>4. \A f \in Parsed("execution") :
        f \in landing /\ f.form = "report" /\ f.type = "execution"
  BY DEF Parsed, FilesLanded
<1> QED BY <1>1, <1>2, <1>3, <1>4 DEF Dirty

LEMMA CleanStep ==
  ASSUME IInv, [Next]_vars, execution.errors = "records" => Dirty(landing)
  PROVE  execution'.errors = "records" => Dirty(landing')
<1>1. landing \subseteq landing'
  BY DEF Next, FileLands, SampleArrives, Bronze, Silver, vars, bronze, IngestExecutionCsvs,
         IngestStartCsvs, CollectReports, WriteReportExecutions, WriteReportStarts,
         WriteReportCounters, BronzeStops, EndFallback, BuildQueries, BuildIdentity,
         BuildNetwork, SilverStops, Fail
<1>2. Dirty(landing) => Dirty(landing')
  BY <1>1 DEF Dirty
<1>3. CASE WriteReportExecutions
  <2>1. CASE Inferable("execution")
    BY <2>1, <1>2, InferableIsDirty DEF IInv
  <2>2. CASE ~Inferable("execution")
    <3>2. UNCHANGED execution
      BY <1>3, <2>2 DEF WriteReportExecutions
    <3> QED BY <3>2, <1>2
  <2> QED BY <2>1, <2>2
<1>4. CASE IngestExecutionCsvs
  BY <1>4, <1>2 DEF IngestExecutionCsvs
<1>5. CASE ~WriteReportExecutions /\ ~IngestExecutionCsvs
  <2>1. UNCHANGED execution
    BY <1>5 DEF Next, FileLands, SampleArrives, Bronze, Silver, vars, bronze,
         IngestStartCsvs, CollectReports, WriteReportStarts,
         WriteReportCounters, BronzeStops, EndFallback, BuildQueries, BuildIdentity,
         BuildNetwork, SilverStops, Fail
  <2> QED BY <2>1, <1>2
<1> QED BY <1>3, <1>4, <1>5

(* Executions from reports are only ever written when a report with an     *)
(* unknown column and one with a number that does not parse have landed.   *)
THEOREM OnlyDirtyReportsLand == Spec => []CleanReportsNeverLand
<1> DEFINE Clean == execution.errors = "records" => Dirty(landing)
<1>1. Init => Clean
  BY DEF Init
<1>2. IInv /\ Clean => CleanReportsNeverLand
  BY FormFollowsErrors DEF CleanReportsNeverLand, Dirty
<1>3. IInv /\ Clean /\ [Next]_vars => Clean'
  BY CleanStep
<1> HIDE DEF Clean
<1> QED BY <1>1, <1>2, <1>3, InvariantCorrect, PTL DEF Spec

--------------------------------------------------------------------------------
(* The names _sanitize_columns gives.  A set of numbers has a least one.   *)
Less == {p \in Nat \X Nat : p[1] < p[2]}

LEMMA LeastExists ==
  ASSUME NEW T, T \subseteq Nat, T # {}
  PROVE  \E x \in T : \A y \in T : x <= y
<1>1. IsWellFoundedOn(Less, Nat)
  BY NatLessThanWellFounded DEF OpToRel, Less
<1>2. PICK x \in T : \A y \in T : ~(<<y, x>> \in Less)
  BY <1>1, WFMin
<1>3. \A y, z \in Nat : y < z => <<y, z>> \in Less
  BY DEF Less
<1>4. \A y \in T : x \in Nat /\ y \in Nat /\ ~(y < x)
  BY <1>2, <1>3
<1> QED BY <1>4

(* The suffix of a column depends on the suffixes before it.               *)
LEMMA SuffixDepends ==
  ASSUME NEW header, NEW i, NEW f, NEW g, \A j \in 1..(i - 1) : f[j] = g[j]
  PROVE  SuffixAt(header, i, f) = SuffixAt(header, i, g)
<1> DEFINE used(s) == {<<Safe[header[j]], s[j]>> : j \in 1..(i - 1)}
                        \cup {<<header[j], 1>> : j \in i..Len(header)}
           given(u) ==
             IF Safe[header[i]] = header[i] THEN 1
             ELSE CHOOSE n \in 1..(Len(header) + 1) :
                    /\ <<Safe[header[i]], n>> \notin u
                    /\ \A m \in 1..(n - 1) : <<Safe[header[i]], m>> \in u
<1>1. used(f) = used(g)
  OBVIOUS
<1>2. \A s : SuffixAt(header, i, s) = given(used(s))
  BY DEF SuffixAt
<1> HIDE DEF used, given
<1> QED BY <1>1, <1>2

(* So there are suffixes for any header, given one after the other: a      *)
(* first column that could not be given one would still get it.            *)
LEMMA SuffixesExist ==
  ASSUME NEW header \in Seq(DOMAIN Safe)
  PROVE  \E g : g = [i \in DOMAIN header |-> SuffixAt(header, i, g)]
<1> DEFINE Upto(k) == \E g : \A i \in 1..k : g[i] = SuffixAt(header, i, g)
           Bad == {k \in Nat : ~Upto(k)}
<1>1. ASSUME Bad # {} PROVE FALSE
  <2>1. PICK k \in Bad : \A y \in Bad : k <= y
    BY <1>1, LeastExists
  <2>2. Upto(0)
    OBVIOUS
  <2>3. k # 0 /\ k \in Nat
    BY <2>1, <2>2
  <2>4. k - 1 \in Nat /\ k - 1 \notin Bad
    <3>1. k - 1 \in Nat /\ ~(k <= k - 1)
      BY <2>3
    <3> QED BY <2>1, <3>1
  <2>5. PICK g : \A i \in 1..(k - 1) : g[i] = SuffixAt(header, i, g)
    BY <2>4
  <2> DEFINE h == [j \in 1..k |-> IF j < k THEN g[j] ELSE SuffixAt(header, k, g)]
  <2>6. (\A j \in 1..(k - 1) : h[j] = g[j]) /\ h[k] = SuffixAt(header, k, g)
    BY <2>3
  <2> HIDE DEF h
  <2>7. ASSUME NEW i \in 1..k PROVE h[i] = SuffixAt(header, i, h)
    <3>1. \A j \in 1..(i - 1) : h[j] = g[j]
      BY <2>3, <2>6
    <3>2. SuffixAt(header, i, h) = SuffixAt(header, i, g)
      BY <3>1, SuffixDepends
    <3>3. i = k \/ i \in 1..(k - 1)
      BY <2>3
    <3> QED BY <2>5, <2>6, <3>2, <3>3
  <2>8. Upto(k)
    BY <2>7
  <2> QED BY <2>1, <2>8
<1>2. PICK g : \A i \in 1..Len(header) : g[i] = SuffixAt(header, i, g)
  <2>1. Len(header) \in Nat
    OBVIOUS
  <2> QED BY <1>1, <2>1
<1> DEFINE s == [i \in DOMAIN header |-> SuffixAt(header, i, g)]
<1>3. DOMAIN header = 1..Len(header) /\ Len(header) \in Nat
  OBVIOUS
<1>4. \A i \in DOMAIN header : s[i] = g[i]
  BY <1>2, <1>3
<1>5. ASSUME NEW i \in DOMAIN header
      PROVE  SuffixAt(header, i, g) = SuffixAt(header, i, s)
  <2>1. \A j \in 1..(i - 1) : g[j] = s[j]
    BY <1>3, <1>4
  <2> HIDE DEF s
  <2> QED BY <2>1, SuffixDepends
<1>6. s = [i \in DOMAIN header |-> SuffixAt(header, i, s)]
  BY <1>5
<1> HIDE DEF s
<1> QED BY <1>6

LEMMA SuffixesFacts ==
  ASSUME NEW header \in Seq(DOMAIN Safe), NEW i \in DOMAIN header
  PROVE  SuffixesOf(header)[i] = SuffixAt(header, i, SuffixesOf(header))
<1> DEFINE Fits(g) == g = [j \in DOMAIN header |-> SuffixAt(header, j, g)]
<1>1. SuffixesOf(header) = CHOOSE g : Fits(g)
  BY DEF SuffixesOf
<1>2. \E g : Fits(g)
  BY SuffixesExist
<1>3. Fits(SuffixesOf(header))
  <2> HIDE DEF Fits
  <2> QED BY <1>1, <1>2
<1> QED BY <1>3

(* No header is so long that the suffixes up to its length and one do not  *)
(* suffice.                                                                *)
LEMMA FreeSuffix ==
  ASSUME NEW L \in Nat, NEW name, NEW safe
  PROVE  LET used == {name[j] : j \in 1..L} IN
         \E n \in 1..(L + 1) : /\ <<safe, n>> \notin used
                               /\ \A m \in 1..(n - 1) : <<safe, m>> \in used
<1> DEFINE used == {name[j] : j \in 1..L}
           Free == {n \in 1..(L + 1) : <<safe, n>> \notin used}
<1>1. ASSUME Free = {} PROVE FALSE
  <2> DEFINE f == [n \in 1..(L + 1) |-> CHOOSE j \in 1..L : name[j] = <<safe, n>>]
  <2>1. \A n \in 1..(L + 1) : f[n] \in 1..L /\ name[f[n]] = <<safe, n>>
    BY <1>1
  <2>2. f \in [1..(L + 1) -> 1..L]
    BY <2>1
  <2>3. /\ IsFiniteSet(1..L) /\ Cardinality(1..L) = L
        /\ IsFiniteSet(1..(L + 1)) /\ Cardinality(1..(L + 1)) = L + 1
    BY FS_Interval
  <2> HIDE DEF f
  <2>4. PICK x, y \in 1..(L + 1) : x # y /\ f[x] = f[y]
    BY <2>2, <2>3, FS_PigeonHole
  <2> QED BY <2>1, <2>4
<1>2. PICK n \in Free : \A m \in Free : n <= m
  <2>1. Free \subseteq Nat
    OBVIOUS
  <2> HIDE DEF Free
  <2> QED BY <1>1, <2>1, LeastExists
<1>3. \A m \in 1..(n - 1) : m \notin Free /\ m \in 1..(L + 1)
  BY <1>2
<1> QED BY <1>2, <1>3

(* A renamed column has a name no column has at that moment.               *)
LEMMA Renamed ==
  ASSUME NEW header \in Seq(DOMAIN Safe), NEW i \in DOMAIN header,
         Safe[header[i]] # header[i]
  PROVE  /\ \A j \in 1..(i - 1) : Sanitized(header)[i] # Sanitized(header)[j]
         /\ \A j \in i..Len(header) : Sanitized(header)[i] # <<header[j], 1>>
<1> DEFINE suffix == SuffixesOf(header)
           safe == Safe[header[i]]
           used == {<<Safe[header[j]], suffix[j]>> : j \in 1..(i - 1)}
                     \cup {<<header[j], 1>> : j \in i..Len(header)}
           Fits(n) == <<safe, n>> \notin used /\ \A m \in 1..(n - 1) : <<safe, m>> \in used
           name == [j \in 1..Len(header) |->
                      IF j < i THEN <<Safe[header[j]], suffix[j]>> ELSE <<header[j], 1>>]
<1>1. DOMAIN header = 1..Len(header) /\ Len(header) \in Nat
  OBVIOUS
<1>2. suffix[i] = CHOOSE n \in 1..(Len(header) + 1) : Fits(n)
  BY SuffixesFacts DEF SuffixAt
<1>3. used = {name[j] : j \in 1..Len(header)}
  <2>1. \A j \in 1..(i - 1) : j \in 1..Len(header) /\ name[j] = <<Safe[header[j]], suffix[j]>>
    BY <1>1
  <2>2. \A j \in i..Len(header) : j \in 1..Len(header) /\ name[j] = <<header[j], 1>>
    BY <1>1
  <2>3. \A j \in 1..Len(header) : j \in 1..(i - 1) \/ j \in i..Len(header)
    BY <1>1
  <2> HIDE DEF name, suffix
  <2>4. ASSUME NEW u \in used PROVE u \in {name[j] : j \in 1..Len(header)}
    <3>1. CASE \E j \in 1..(i - 1) : u = <<Safe[header[j]], suffix[j]>>
      BY <2>1, <3>1
    <3>2. CASE \E j \in i..Len(header) : u = <<header[j], 1>>
      BY <2>2, <3>2
    <3> QED BY <3>1, <3>2
  <2>5. ASSUME NEW j \in 1..Len(header) PROVE name[j] \in used
    BY <2>1, <2>2, <2>3
  <2> QED BY <2>4, <2>5
<1>4. \E n \in 1..(Len(header) + 1) : Fits(n)
  <2> HIDE DEF used, name
  <2> QED BY <1>1, <1>3, FreeSuffix
<1>5. <<safe, suffix[i]>> \notin used
  <2> HIDE DEF used
  <2> QED BY <1>2, <1>4
<1>6. Sanitized(header)[i] = <<safe, suffix[i]>>
  BY DEF Sanitized
<1>7. \A j \in 1..(i - 1) : Sanitized(header)[j] = <<Safe[header[j]], suffix[j]>>
  BY <1>1 DEF Sanitized
<1> QED BY <1>5, <1>6, <1>7

(* _sanitize_columns never gives two columns one name.                     *)
THEOREM NamesStayDistinct ==
  ASSUME NEW header \in Seq(DOMAIN Safe), IsInjective(header)
  PROVE  IsInjective(Sanitized(header))
<1>1. DOMAIN header = 1..Len(header) /\ DOMAIN Sanitized(header) = DOMAIN header
  BY DEF Sanitized
<1>2. ASSUME NEW i \in DOMAIN header, Safe[header[i]] = header[i]
      PROVE  Sanitized(header)[i] = <<header[i], 1>>
  BY <1>2, SuffixesFacts DEF Sanitized, SuffixAt
<1>3. ASSUME NEW i \in DOMAIN header, NEW j \in DOMAIN header, i < j
      PROVE  Sanitized(header)[i] # Sanitized(header)[j]
  <2>1. i \in 1..(j - 1) /\ j \in i..Len(header)
    BY <1>1, <1>3
  <2>2. CASE Safe[header[j]] # header[j]
    BY <2>1, <2>2, Renamed
  <2>3. CASE Safe[header[j]] = header[j] /\ Safe[header[i]] # header[i]
    BY <2>1, <2>3, <1>2, Renamed
  <2>4. CASE Safe[header[j]] = header[j] /\ Safe[header[i]] = header[i]
    <3>1. header[i] # header[j]
      BY <1>1, <1>3 DEF IsInjective
    <3> QED BY <2>4, <3>1, <1>2
  <2> QED BY <2>2, <2>3, <2>4
<1>4. \A i, j \in DOMAIN header : i = j \/ i < j \/ j < i
  BY <1>1
<1> QED BY <1>1, <1>3, <1>4 DEF IsInjective

--------------------------------------------------------------------------------
(* The second invariant: the steps of both notebooks, and what keeps every *)
(* query unattributed - no start has the column silver asks for, so silver *)
(* is only ever built of executions alone.                                 *)
Unattributed ==
  /\ <<"artifact_type", 1>> \notin start.columns
  /\ \A x \in silver.rows : x.artifact = None
  /\ NothingIsAttributed

Full == IInv /\ TypeOK /\ Unattributed

(* What a row of the silver table is made of.                              *)
LEMMA SilverRows ==
  ASSUME BuildQueries, NEW y \in silver'.rows, y \notin silver.rows
  PROVE  /\ \E x \in execution.rows : y.end = x.end
         /\ start.rows = {} \/ Columns(StartNeeds) \subseteq start.columns
         /\ start.rows = {} => y.artifact = None
<1> DEFINE keys == {KeyOf(x) : x \in execution.rows}
           requests == {k[1] : k \in keys}
           found(q) == {s.artifact : s \in {t \in start.rows : t.request = q}}
           artifacts(q) == IF found(q) = {} THEN {None} ELSE found(q)
<1>1. /\ start.rows = {} \/ Columns(StartNeeds) \subseteq start.columns
      /\ \E kept \in kSubset(Cardinality(keys), Latest),
            artifact \in [requests -> UNION {artifacts(q) : q \in requests}] :
           /\ \A q \in requests : artifact[q] \in artifacts(q)
           /\ silver' = [columns |-> execution.columns,
                rows |-> {[request |-> x.request, tracking |-> x.tracking, end |-> x.end,
                           host |-> x.host, artifact |-> artifact[x.request]] : x \in kept}]
  BY DEF BuildQueries, Fail
<1>2. PICK kept \in kSubset(Cardinality(keys), Latest),
           artifact \in [requests -> UNION {artifacts(q) : q \in requests}] :
           /\ \A q \in requests : artifact[q] \in artifacts(q)
           /\ silver' = [columns |-> execution.columns,
                rows |-> {[request |-> x.request, tracking |-> x.tracking, end |-> x.end,
                           host |-> x.host, artifact |-> artifact[x.request]] : x \in kept}]
  BY <1>1
<1>3. PICK x \in kept : y = [request |-> x.request, tracking |-> x.tracking, end |-> x.end,
                             host |-> x.host, artifact |-> artifact[x.request]]
  BY <1>2
<1>4. x \in execution.rows
  BY <1>2 DEF kSubset, Latest
<1>5. x.request \in requests
  <2>1. KeyOf(x) \in keys /\ KeyOf(x)[1] = x.request
    BY <1>4 DEF KeyOf
  <2> HIDE DEF keys
  <2> QED BY <2>1
<1>6. start.rows = {} => artifacts(x.request) = {None}
  OBVIOUS
<1>7. y.end = x.end /\ y.artifact = artifact[x.request]
  BY <1>3
<1>8. artifact[x.request] \in artifacts(x.request)
  BY <1>2, <1>5
<1> HIDE DEF artifacts
<1> QED BY <1>1, <1>4, <1>6, <1>7, <1>8

(* A time is a number or null.                                             *)
LEMMA EndIsNumber ==
  ASSUME IInv, NEW x \in execution.rows
  PROVE  /\ x.end \in Int /\ x.lost \in BOOLEAN
         /\ \E f \in landing : f.name = x.file
<1>1. RowComesFrom(x, execution.errors, landing)
  BY DEF IInv, RowsComeFrom
<1>2. PICK f \in landing :
        \E header, host :
          \/ x = ExecutionRow(f, header, x.row,
                              LostByParser(Field(header, x.row, "duration")), host)
          \/ x = ExecutionRow(f, header, x.row,
                              LostByLib(Field(header, x.row, "duration")), host)
  BY <1>1 DEF RowComesFrom, IsParsedFrom, IsReadFrom
<1>3. PICK header, host :
          \/ x = ExecutionRow(f, header, x.row,
                              LostByParser(Field(header, x.row, "duration")), host)
          \/ x = ExecutionRow(f, header, x.row,
                              LostByLib(Field(header, x.row, "duration")), host)
  BY <1>2
<1>4. \A c : AsTime(c) \in Int
  BY ValuesAssumption DEF AsTime, Nothing
<1>5. \A c : LostByParser(c) \in BOOLEAN /\ LostByLib(c) \in BOOLEAN
  BY DEF LostByParser, LostByLib
<1>6. x.end = AsTime(Field(header, x.row, "end")) /\ x.file = f.name
  BY <1>3 DEF ExecutionRow
<1>7. \/ x.lost = LostByParser(Field(header, x.row, "duration"))
      \/ x.lost = LostByLib(Field(header, x.row, "duration"))
  BY <1>3 DEF ExecutionRow
<1>8. x.lost \in BOOLEAN
  BY <1>5, <1>7
<1> QED BY <1>4, <1>6, <1>8

RowsTyped ==
  \A x \in execution.rows : x.lost \in BOOLEAN /\ \E f \in landing : f.name = x.file
LEMMA RowsAreTyped == IInv => RowsTyped
BY EndIsNumber DEF RowsTyped

(* A batch of starts never tells createDataFrame the type of its lost      *)
(* cells, so no start comes to bronze from a report.                       *)
LEMMA StartsNotInferable == ~Inferable("start")
BY DEF Inferable, Numeric

LEMMA InitFull == Init => Full
<1> SUFFICES ASSUME Init PROVE Full
  OBVIOUS
<1>1. /\ landing = {} /\ metrics = {} /\ execution.errors = "none" /\ execution.rows = {}
      /\ start.columns = {} /\ counter = {} /\ bronzeAt = "idle" /\ handled = FALSE
      /\ batch = {} /\ silver.rows = {} /\ identity = {} /\ silverAt = "idle"
  BY DEF Init
<1>2. TypeOK
  BY <1>1 DEF TypeOK
<1>3. Unattributed
  BY <1>1 DEF Unattributed, NothingIsAttributed
<1> QED BY <1>2, <1>3, InitIInv DEF Full

--------------------------------------------------------------------------------
(* Which step changes what.                                                *)
LEMMA WhoWrites ==
  ASSUME [Next]_vars
  PROVE  /\ UNCHANGED landing \/ \E f \in Files : FileLands(f)
         /\ UNCHANGED metrics \/ \E s \in Samples : SampleArrives(s)
         /\ UNCHANGED execution \/ IngestExecutionCsvs \/ WriteReportExecutions
         /\ UNCHANGED start \/ IngestStartCsvs \/ WriteReportStarts
         /\ UNCHANGED counter \/ WriteReportCounters
         /\ UNCHANGED <<bronzeAt, handled, batch>> \/ Bronze
         /\ UNCHANGED silver \/ BuildQueries
         /\ UNCHANGED identity \/ BuildIdentity
         /\ UNCHANGED network \/ BuildNetwork
         /\ UNCHANGED silverAt \/ Silver
<1>1. CASE \/ \E f \in Files : FileLands(f)
           \/ \E s \in Samples : SampleArrives(s)
           \/ UNCHANGED vars
  BY <1>1 DEF FileLands, SampleArrives, vars, bronze, silverVars
<1>2. CASE Bronze
  <2>1. UNCHANGED <<landing, metrics, silver, identity, network, silverAt>>
    BY <1>2 DEF Bronze, IngestExecutionCsvs, IngestStartCsvs, CollectReports,
       WriteReportExecutions, WriteReportStarts, WriteReportCounters, BronzeStops,
       EndFallback, silverVars
  <2>2. /\ UNCHANGED execution \/ IngestExecutionCsvs \/ WriteReportExecutions
        /\ UNCHANGED start \/ IngestStartCsvs \/ WriteReportStarts
        /\ UNCHANGED counter \/ WriteReportCounters
    BY <1>2 DEF Bronze, IngestExecutionCsvs, IngestStartCsvs, CollectReports,
       WriteReportExecutions, WriteReportStarts, WriteReportCounters, BronzeStops
  <2> QED BY <1>2, <2>1, <2>2
<1>3. CASE Silver
  <2>1. UNCHANGED <<landing, metrics, execution, start, counter, bronzeAt, handled, batch>>
    BY <1>3 DEF Silver, BuildQueries, BuildIdentity, BuildNetwork, SilverStops, Fail, bronze
  <2>2. /\ UNCHANGED silver \/ BuildQueries
        /\ UNCHANGED identity \/ BuildIdentity
        /\ UNCHANGED network \/ BuildNetwork
    BY <1>3 DEF Silver, BuildQueries, BuildIdentity, BuildNetwork, SilverStops, Fail
  <2> QED BY <1>3, <2>1, <2>2
<1> QED BY <1>1, <1>2, <1>3 DEF Next

(* The steps of ingest_gateway_logs: there is a batch from the collection  *)
(* of the reports to the last table.                                       *)
Batched == {"executions", "starts", "counters"}

LEMMA StepsKeep ==
  ASSUME TypeOK, Bronze
  PROVE  /\ bronzeAt' \in {"idle", "startCsvs", "reports"} \cup Batched
         /\ batch' # {} <=> bronzeAt' \in Batched
         /\ handled' \in BOOLEAN
<1>1. /\ bronzeAt \in {"idle", "startCsvs", "reports"} \cup Batched
      /\ batch # {} <=> bronzeAt \in Batched
      /\ handled \in BOOLEAN
  BY DEF TypeOK, Batched
<1>2. CASE IngestExecutionCsvs
  BY <1>1, <1>2 DEF IngestExecutionCsvs, Batched
<1>3. CASE IngestStartCsvs
  <2>1. /\ handled' \in BOOLEAN /\ batch' = batch /\ bronzeAt = "startCsvs"
        /\ bronzeAt' \in {"idle", "reports"}
    BY <1>1, <1>3 DEF IngestStartCsvs
  <2> QED BY <1>1, <2>1 DEF Batched
<1>4. CASE CollectReports
  BY <1>1, <1>4 DEF CollectReports, Batched
<1>5. ASSUME NEW step \in {"idle"} \cup Batched, EndFallback(step),
             bronzeAt \in Batched \/ step = "idle"
      PROVE  /\ bronzeAt' \in {"idle", "startCsvs", "reports"} \cup Batched
             /\ batch' # {} <=> bronzeAt' \in Batched
             /\ handled' \in BOOLEAN
  BY <1>1, <1>5 DEF EndFallback, Batched
<1>6. CASE WriteReportExecutions
  BY <1>5, <1>6 DEF WriteReportExecutions, Batched
<1>7. CASE WriteReportStarts
  BY <1>5, <1>7 DEF WriteReportStarts, Batched
<1>8. CASE WriteReportCounters
  BY <1>5, <1>8 DEF WriteReportCounters, Batched
<1>9. CASE BronzeStops
  BY <1>5, <1>9 DEF BronzeStops
<1> QED BY <1>2, <1>3, <1>4, <1>6, <1>7, <1>8, <1>9 DEF Bronze

LEMMA TypeKeeps == ASSUME IInv, TypeOK, [Next]_vars PROVE TypeOK'
<1>0. IInv'
  BY NextIInv
<1>1. landing' \subseteq Files /\ batch' \subseteq landing'
  BY <1>0 DEF IInv, FilesLanded
<1>2. metrics' \subseteq Samples
  BY WhoWrites DEF SampleArrives, TypeOK
<1>3. execution'.errors \in {"none", "names", "records"}
  <2>1. IngestExecutionCsvs => execution' = execution \/ execution'.errors = "names"
    BY DEF IngestExecutionCsvs
  <2>2. WriteReportExecutions => execution' = execution \/ execution'.errors = "records"
    BY DEF WriteReportExecutions
  <2> QED BY <2>1, <2>2, WhoWrites DEF TypeOK
<1>4. \A x \in execution'.rows : x.lost \in BOOLEAN /\ \E f \in landing' : f.name = x.file
  <2>1. RowsTyped'
    BY <1>0, RowsAreTyped, PTL
  <2> QED BY <2>1 DEF RowsTyped
<1>5. counter' \subseteq UNION {f.rows : f \in Files}
  <2>1. WriteReportCounters =>
          \/ counter' = counter
          \/ counter' = counter \cup (UNION {f.rows : f \in Parsed("counter")})
    BY DEF WriteReportCounters
  <2>2. Parsed("counter") \subseteq Files
    BY DEF Parsed, IInv, FilesLanded
  <2> QED BY <2>1, <2>2, WhoWrites DEF TypeOK
<1>6. /\ bronzeAt' \in {"idle", "startCsvs", "reports"} \cup Batched
      /\ batch' # {} <=> bronzeAt' \in Batched
      /\ handled' \in BOOLEAN
  <2>1. CASE Bronze
    BY <2>1, StepsKeep
  <2>2. CASE UNCHANGED <<bronzeAt, handled, batch>>
    BY <2>2 DEF TypeOK, Batched
  <2> QED BY <2>1, <2>2, WhoWrites
<1>7. silverAt' \in {"idle", "identity", "network", "failed"}
  BY WhoWrites DEF TypeOK, Silver, BuildQueries, BuildIdentity, BuildNetwork, SilverStops, Fail
<1>8. \A y \in silver'.rows : y.end \in Int
  <2> SUFFICES ASSUME NEW y \in silver'.rows, y \notin silver.rows PROVE y.end \in Int
    BY DEF TypeOK
  <2>1. BuildQueries
    BY WhoWrites
  <2> QED BY <2>1, SilverRows, EndIsNumber
<1> QED BY <1>1, <1>2, <1>3, <1>4, <1>5, <1>6, <1>7, <1>8 DEF TypeOK, Batched

(* A start comes to bronze only from a CSV, whose columns get their safe   *)
(* names beside artifact_id and artifact_kind.                             *)
LEMMA UnattributedKeeps == ASSUME IInv, Unattributed, [Next]_vars PROVE Unattributed'
<1>1. <<"artifact_type", 1>> \notin start'.columns
  <2>1. WriteReportStarts => UNCHANGED start
    BY StartsNotInferable DEF WriteReportStarts
  <2>2. ASSUME IngestStartCsvs, ~UNCHANGED start
        PROVE  <<"artifact_type", 1>> \notin start'.columns
    <3>1. PICK first \in Csvs("start") :
            start'.columns = (start.columns \cup Range(Sanitized(first.header)))
                               \cup Columns(ContextColumns(first.header))
      BY <2>2 DEF IngestStartCsvs
    <3>2. first \in Files /\ first.type = "start"
      BY DEF Csvs, IInv, FilesLanded
    <3>3. ASSUME NEW i \in DOMAIN first.header
          PROVE  Sanitized(first.header)[i] # <<"artifact_type", 1>>
      <4>1. first.header[i] \in Range(first.header)
        BY DEF Range
      <4>2. Safe[first.header[i]] # "artifact_type"
        BY <3>2, <4>1, FilesAssumption
      <4>3. Sanitized(first.header)[i]
              = <<Safe[first.header[i]], SuffixesOf(first.header)[i]>>
        BY DEF Sanitized
      <4> QED BY <4>2, <4>3
    <3>4. <<"artifact_type", 1>> \notin Range(Sanitized(first.header))
      <4>1. DOMAIN Sanitized(first.header) = DOMAIN first.header
        BY DEF Sanitized
      <4> QED BY <3>3, <4>1 DEF Range
    <3>5. <<"artifact_type", 1>> \notin Columns(ContextColumns(first.header))
      BY DEF Columns, ContextColumns
    <3> QED BY <3>1, <3>4, <3>5 DEF Unattributed
  <2> QED BY <2>1, <2>2, WhoWrites DEF Unattributed
<1>2. \A y \in silver'.rows : y.artifact = None
  <2> SUFFICES ASSUME NEW y \in silver'.rows, y \notin silver.rows PROVE y.artifact = None
    BY DEF Unattributed
  <2>1. BuildQueries
    BY WhoWrites
  <2>2. <<"artifact_type", 1>> \in Columns(StartNeeds)
    BY DEF Columns, StartNeeds
  <2> QED BY <2>1, <2>2, SilverRows DEF Unattributed
<1>3. NothingIsAttributed'
  <2>1. BuildIdentity => \/ identity' = identity
                         \/ identity' =
                              {[request |-> x.request, tracking |-> x.tracking,
                                confidence |-> IF x.artifact # None THEN "EVALUATION_CONTEXT"
                                               ELSE "UNATTRIBUTED"] : x \in silver.rows}
    BY DEF BuildIdentity, Fail
  <2> QED BY <2>1, WhoWrites DEF Unattributed, NothingIsAttributed
<1> QED BY <1>1, <1>2, <1>3 DEF Unattributed

LEMMA NextFull == ASSUME Full, [Next]_vars PROVE Full'
BY NextIInv, TypeKeeps, UnattributedKeeps DEF Full

(* The second invariant holds in every state the specification reaches.    *)
THEOREM FullCorrect == Spec => []Full
BY InitFull, NextFull, PTL DEF Spec

(* Type correctness of both notebooks' steps and tables.                   *)
THEOREM TypeCorrect == Spec => []TypeOK
BY FullCorrect, PTL DEF Full

(* No query is ever attributed to an artifact, for any logs: bronze and    *)
(* silver name the artifact's kind differently.                            *)
THEOREM NeverAttributed == Spec => []NothingIsAttributed
BY FullCorrect, PTL DEF Full, Unattributed

--------------------------------------------------------------------------------
(* The names of its columns never make the write of a CSV fail, for        *)
(* _sanitize_columns keeps them distinct.                                  *)
LEMMA WritesItsNames ==
  ASSUME IInv, NEW f \in Csvs("execution"), execution.errors \in {"none", "names"}
  PROVE  Writable(f, "names")
<1>1. f \in Files
  BY DEF Csvs, IInv, FilesLanded
<1>2. IsInjective(Sanitized(f.header))
  BY <1>1, NamesStayDistinct, FilesAssumption
<1> QED BY <1>2 DEF Writable

LEMMA CsvsComeFirst ==
  ASSUME Full, [Next]_vars
  PROVE  /\ bronzeAt = "idle" /\ bronzeAt' = "startCsvs"
              => (Readable("execution") /\ execution.errors # "records" => handled')
         /\ bronzeAt # "reports" /\ bronzeAt' = "reports"
              => ~handled /\ ~Readable("start")
<1>1. ASSUME bronzeAt = "idle", bronzeAt' = "startCsvs", Readable("execution"),
             execution.errors # "records"
      PROVE  handled'
  <2>1. IngestExecutionCsvs
    BY <1>1, WhoWrites DEF Bronze, IngestStartCsvs, CollectReports, WriteReportExecutions,
       WriteReportStarts, WriteReportCounters, BronzeStops
  <2>2. execution.errors \in {"none", "names"}
    BY <1>1 DEF Full, TypeOK
  <2>3. \A f \in Csvs("execution") : Writable(f, "names")
    BY <2>2, WritesItsNames DEF Full
  <2> QED BY <1>1, <2>1, <2>3 DEF IngestExecutionCsvs
<1>2. ASSUME bronzeAt # "reports", bronzeAt' = "reports"
      PROVE  ~handled /\ ~Readable("start")
  <2>1. IngestStartCsvs
    BY <1>2, WhoWrites DEF Bronze, IngestExecutionCsvs, CollectReports,
       WriteReportExecutions, WriteReportStarts, WriteReportCounters, BronzeStops, EndFallback
  <2> QED BY <1>2, <2>1 DEF IngestStartCsvs
<1> QED BY <1>1, <1>2

(* A CSV of executions is handled unless the reports own the table, and    *)
(* the reports are looked at only when no CSV of either type was.          *)
THEOREM CsvsShutReportsOut == Spec => CsvKeepsReportsOut
BY FullCorrect, CsvsComeFirst, PTL DEF Spec, CsvKeepsReportsOut

--------------------------------------------------------------------------------
(* Every sample near a query is in an aggregate of its host and time, so   *)
(* the pair the window join keeps is no farther than that.                 *)
LEMMA NearestIsKept ==
  ASSUME Full, NEW q, NEW p \in Best(q), NEW x \in Of(q), NEW s \in metrics,
         s.host = x.host, x.end # Nothing, Gap(x, s) <= NetWindow
  PROVE  p[1] \in Of(q) /\ p[2] # NoSample /\ Gap(p[1], p[2]) <= Gap(x, s)
<1>1. PICK a \in Aggregated : a.host = s.host /\ a.at = s.at
  <2> DEFINE busiest(t) ==
        [host |-> t.host, at |-> t.at,
         rate |-> Max({u.rate : u \in {v \in metrics : v.host = t.host /\ v.at = t.at}})]
  <2>1. busiest(s) \in Aggregated
    BY DEF Aggregated
  <2>2. busiest(s).host = s.host /\ busiest(s).at = s.at
    OBVIOUS
  <2> HIDE DEF busiest
  <2> QED BY <2>1, <2>2
<1>2. Gap(x, a) = Gap(x, s)
  BY <1>1 DEF Gap
<1>3. <<x, a>> \in Paired(q)
  BY <1>1, <1>2 DEF Paired, IsNear
<1>4. p \in Paired(q) /\ Gap(p[1], p[2]) <= Gap(x, a)
  <2>1. p \in Paired(q) /\ \A o \in Paired(q) : Gap(p[1], p[2]) <= Gap(o[1], o[2])
    BY <1>3 DEF Best
  <2> QED BY <1>3, <2>1
<1>5. p[1] \in Of(q) /\ p[2] \in Aggregated
  BY <1>4 DEF Paired
<1>6. \A b \in Aggregated : b.host # None
  <2>1. \A b \in Aggregated : \E t \in metrics : b.host = t.host
    <3> SUFFICES ASSUME NEW b \in Aggregated PROVE \E t \in metrics : b.host = t.host
      OBVIOUS
    <3>1. PICK t \in metrics :
            b = [host |-> t.host, at |-> t.at,
                 rate |-> Max({u.rate : u \in {v \in metrics : v.host = t.host /\ v.at = t.at}})]
      BY DEF Aggregated
    <3> QED BY <3>1
  <2> QED BY <2>1, ValuesAssumption DEF Full, TypeOK
<1>7. NoSample.host = None
  BY DEF NoSample
<1> QED BY <1>2, <1>4, <1>5, <1>6, <1>7

LEMMA BestIsOf ==
  ASSUME NEW q, NEW p \in Best(q)
  PROVE  p[1] \in Of(q)
BY DEF Best, Paired

LEMMA Nearest ==
  ASSUME Full, [Next]_vars, network' # network
  PROVE  /\ {n.query.request : n \in network'} = {x.request : x \in silver.rows}
         /\ \A n \in network' : \A x \in Of(n.query.request) : \A s \in metrics :
              s.host = x.host /\ x.end # Nothing /\ Gap(x, s) <= NetWindow =>
                n.sample # NoSample /\ Gap(n.query, n.sample) <= Gap(x, s)
<1> DEFINE requests == {x.request : x \in silver.rows}
           best == UNION {Best(q) : q \in requests}
           rows == {[query |-> p[1], sample |-> p[2]] : p \in best}
<1>1. BuildNetwork
  BY WhoWrites
<1>2. network' \subseteq rows /\ {n.query.request : n \in network'} = requests
  <2>1. \E chosen \in kSubset(Cardinality(requests), rows) :
          /\ {n.query.request : n \in chosen} = requests
          /\ network' = chosen
    BY <1>1 DEF BuildNetwork, Fail
  <2>2. \A chosen \in kSubset(Cardinality(requests), rows) : chosen \subseteq rows
    BY DEF kSubset
  <2> HIDE DEF rows, requests
  <2> QED BY <2>1, <2>2
<1>3. ASSUME NEW n \in network', NEW x \in Of(n.query.request), NEW s \in metrics,
             s.host = x.host, x.end # Nothing, Gap(x, s) <= NetWindow
      PROVE  n.sample # NoSample /\ Gap(n.query, n.sample) <= Gap(x, s)
  <2>1. PICK p \in best : n = [query |-> p[1], sample |-> p[2]]
    BY <1>2
  <2>2. PICK q \in requests : p \in Best(q)
    BY <2>1
  <2>3. n.query = p[1] /\ n.sample = p[2]
    BY <2>1
  <2>4. n.query.request = q
    BY <2>2, <2>3, BestIsOf DEF Of
  <2> HIDE DEF best, rows, requests
  <2> QED BY <1>3, <2>2, <2>3, <2>4, NearestIsKept
<1> QED BY <1>2, <1>3

(* The network table has every request of silver, and no sample of the     *)
(* gateway is closer to a query of it than the one its row shows.          *)
THEOREM NearestSample == Spec => NetworkIsNearest
<1> DEFINE IsNearest ==
      network' # network =>
        /\ {n.query.request : n \in network'} = {x.request : x \in silver.rows}
        /\ \A n \in network' : \A x \in Of(n.query.request) : \A s \in metrics :
             s.host = x.host /\ x.end # Nothing /\ Gap(x, s) <= NetWindow =>
               n.sample # NoSample /\ Gap(n.query, n.sample) <= Gap(x, s)
<1>1. Full /\ [Next]_vars => [IsNearest]_vars
  BY Nearest
<1>2. NetworkIsNearest <=> [][IsNearest]_vars
  BY DEF NetworkIsNearest
<1> HIDE DEF IsNearest
<1> QED BY <1>1, <1>2, FullCorrect, PTL DEF Spec

================================================================================
