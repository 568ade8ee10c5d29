CONSTANTS
    NumTransfers <- MCNumTransfers
    Cap <- MCCap
    MaxCounter <- MCMaxCounter
    ProcIndex <- MCProcIndex
    NoFileSuffix = FALSE

SPECIFICATION FairSpec

PROPERTY Termination

\* PerformMeasurement returns and its caller goes on: the flushed state is final.
CHECK_DEADLOCK FALSE
