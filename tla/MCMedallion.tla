---------------------------- MODULE MCMedallion -----------------------------
\* Instances of Medallion for TLC.
EXTENDS Medallion

Execution(request, tracking, end, success, error) ==
  [request |-> request, tracking |-> tracking, end |-> end, success |-> success,
   error |-> error]

\* A request with two failed queries, and one whose query fails and is then
\* logged again as a success.
FirstOfTwo  == Execution("A", 1, 10, FALSE, TRUE)
SecondOfTwo == Execution("A", 2, 14, FALSE, FALSE)
Failed      == Execution("B", 1, 16, FALSE, TRUE)
LoggedAgain == Execution("B", 1, 17, TRUE, FALSE)

MCExecutions == {FirstOfTwo, SecondOfTwo, Failed, LoggedAgain}

\* B's refresh, in the window of A's second query only.
MCRefreshes == {[request |-> "B", end |-> 15]}

MCOsEvents == {[time |-> 18, level |-> "Error"]}
=============================================================================
