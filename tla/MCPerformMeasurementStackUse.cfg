CONSTANTS
    NumTransfers <- MCNumTransfers
    Cap <- MCCap
    MaxCounter <- MCMaxCounter
    ProcIndex <- MCProcIndex
    NoFileSuffix = FALSE

SPECIFICATION Spec

INVARIANT NoCallbackAfterReturn

\* PerformMeasurement returns and its caller goes on: the flushed state is final.
CHECK_DEADLOCK FALSE
