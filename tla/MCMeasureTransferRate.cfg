CONSTANTS
    NumTransfers <- MCNumTransfers
    Cap <- MCCap
    MaxCounter <- MCMaxCounter
    ProcIndex <- MCProcIndex
    NoFileSuffix = TRUE
    IsChild = FALSE

SPECIFICATION MTRFairSpec

INVARIANT CancelInQueueStopsPulse
PROPERTY PulseProgress

\* MeasureSinglePartObjectTransfer returns once the backup is uploaded.
CHECK_DEADLOCK FALSE
