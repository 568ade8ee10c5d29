CONSTANTS
    NumChildren <- MCNumChildren
    ChildTransfers <- MCChildTransfers
    MaxCounter <- MCMaxCounter

SPECIFICATION CoordFairSpec

INVARIANT CoordTypeOK
INVARIANT ParentReturnsAfterChildren
PROPERTY CoordinationTerminates

\* The parent has returned and every child has written "finished".
CHECK_DEADLOCK FALSE
