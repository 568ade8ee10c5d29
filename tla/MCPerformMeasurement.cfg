CONSTANTS
    NumTransfers <- MCNumTransfers
    Cap <- MCCap
    MaxCounter <- MCMaxCounter
    ProcIndex <- MCProcIndex
    NoFileSuffix = FALSE

SPECIFICATION Spec

INVARIANT TypeOK
INVARIANT InFlightBound
INVARIANT KeysFollowReference
PROPERTY FlushSeesFinalRecords
PROPERTY GateRefinement

\* PerformMeasurement returns and its caller goes on: the flushed state is final.
CHECK_DEADLOCK FALSE
