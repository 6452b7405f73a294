------------------------------ MODULE MCQueryLogs ------------------------------
(***************************************************************************)
(* Two execution CSVs whose columns are ordered differently, one with two  *)
(* unit suffixes that become the same name; a start CSV; a clean and a     *)
(* dirty report of executions of one request from two hosts; a report of   *)
(* starts and one of counters; and samples of two NICs and both hosts.     *)
(***************************************************************************)
EXTENDS QueryLogs

Plain == <<"request", "tracking", "end", "duration">>

MCFiles == {
  [name |-> "E1", form |-> "csv", type |-> "execution", host |-> "h1", header |-> Plain,
   rows |-> {<<"q1", "k1", "t1", "5.0">>, <<"q1", "k2", "", "N/A">>}],
  [name |-> "E2", form |-> "csv", type |-> "execution", host |-> "h1",
   header |-> <<"request", "metric(ms)", "metric/ms", "tracking", "duration", "end">>,
   rows |-> {<<"q2", "7", "8", "k1", "9", "t2">>}],
  [name |-> "S1", form |-> "csv", type |-> "start", host |-> "h1",
   header |-> <<"request", "time", "context">>,
   rows |-> {<<"q1", "t1", "json">>}],
  [name |-> "R1", form |-> "report", type |-> "execution", host |-> "h1", header |-> Plain,
   rows |-> {<<"q1", "k1", "t1", "5.0">>, <<"q1", "k1", "t3", "null">>}],
  [name |-> "R2", form |-> "report", type |-> "execution", host |-> "h2",
   header |-> <<"request", "tracking", "metric(ms)", "end", "duration">>,
   rows |-> {<<"q1", "k2", "7", "t2", "N/A">>}],
  [name |-> "R3", form |-> "report", type |-> "start", host |-> "h1",
   header |-> <<"request", "time", "context">>,
   rows |-> {<<"q1", "t1", "base64">>}],
  [name |-> "R4", form |-> "report", type |-> "counter", host |-> "h1",
   header |-> <<"time", "cpu", "new">>,
   rows |-> {<<"t1", "9", "7">>, <<"t2", "N/A", "7">>}]}

MCSamples == {
  [host |-> "h1", nic |-> "lan", at |-> 3, rate |-> 3],
  [host |-> "h1", nic |-> "wifi", at |-> 3, rate |-> 1],
  [host |-> "h1", nic |-> "lan", at |-> 2, rate |-> 2],
  [host |-> "h2", nic |-> "lan", at |-> 3, rate |-> 2]}

MCSafe == [c \in {"request", "tracking", "end", "duration", "time", "context",
                  "cpu", "new", "metric(ms)", "metric/ms"} |->
             IF c \in {"metric(ms)", "metric/ms"} THEN "metric_ms" ELSE c]
MCNumber == [c \in {"5.0", "7", "8", "9"} |->
               CASE c = "5.0" -> 5 [] c = "7" -> 7 [] c = "8" -> 8 [] c = "9" -> 9]
MCTimeOf == [c \in {"t1", "t2", "t3"} |->
               CASE c = "t1" -> 1 [] c = "t2" -> 2 [] c = "t3" -> 3]
MCArtifact == [c \in {"json", "base64"} |-> "dataset"]
================================================================================
