CONSTANTS
    NumChildren <- MCNumChildren
    ChildTransfers <- MCChildTransfers
    MaxCounter <- MCMaxCounter

SPECIFICATION CoordSpec

INVARIANT DistinctSuffixesAcrossChildren

\* The parent has returned and every child has written "finished".
CHECK_DEADLOCK FALSE
