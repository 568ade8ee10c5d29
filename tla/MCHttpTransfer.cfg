CONSTANTS
    NumTransfers <- MCNumTransfers

SPECIFICATION HttpSpec

INVARIANT NullTransportUnused

\* Every process stops: it dies on the null transport, or blocks reading
\* a key nobody writes.
CHECK_DEADLOCK FALSE
