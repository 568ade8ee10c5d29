CONSTANT IsChild = FALSE

SPECIFICATION PulseSpec

INVARIANT NoRescheduleAfterCancel

\* The measuring thread stops after publishing.
CHECK_DEADLOCK FALSE
