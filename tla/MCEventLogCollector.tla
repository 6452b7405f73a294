------------------------ MODULE MCEventLogCollector ------------------------
\* Instances of EventLogCollector for TLC.
EXTENDS EventLogCollector, TLC

CONSTANTS gatewayError, serviceStop

TwoEvents == {gatewayError, serviceStop}

OneOfEachLog == gatewayError :> "Application" @@ serviceStop :> "System"

\* A host west of UTC.
WestOfUtc == -1
=============================================================================
