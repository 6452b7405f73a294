----------------------- MODULE MCGatewayLogCollector -----------------------
\* Instances of GatewayLogCollector for TLC.
EXTENDS GatewayLogCollector, TLC

CONSTANTS startLog, execLog    \* a QueryStart and a QueryExecution report

TwoReports == {startLog, execLog}

\* $logPatterns lists the QueryExecution reports first.
OnePatternEach == execLog :> 1 @@ startLog :> 2
=============================================================================
