------------------------- MODULE ProcessCoordination -------------------------
(***************************************************************************)
(* The multi-process branch of MeasureTransferRate::PerformMeasurement:    *)
(* the parent process writes each child its transport address under the    *)
(* "address" key and then reads every child's "finished" key in index      *)
(* order; a child reads its address, runs the issuance loop with a key     *)
(* counter that starts at INT64_MAX - childProcessIndex, and writes        *)
(* "finished" back once its final wait returns.                             *)
(*                                                                         *)
(* The key/value channel of CanaryApp is a pair of per-child flags: a read  *)
(* blocks until the other side has written the key.  Child w has           *)
(* childProcessIndex w, the 1:1 mapping the parent's loops assume.  The     *)
(* gate waits of the child's loop are modelled in PerformMeasurement; here *)
(* a child issues its keys one at a time and then writes "finished".        *)
(***************************************************************************)
EXTENDS Naturals, FiniteSets

CONSTANTS
    NumChildren,    \* numTransfers as the parent sees it: one per child
    ChildTransfers, \* numTransfers as each child sees it
    MaxCounter      \* INT64_MAX, scaled down

ASSUME NumChildrenAssumption == NumChildren \in Nat \ {0}
ASSUME ChildTransfersAssumption == ChildTransfers \in Nat
ASSUME CoordMaxCounterAssumption ==
    MaxCounter \in Nat \ {0} /\ NumChildren <= MaxCounter

Children == 0..NumChildren-1

VARIABLES
    parentPc,   \* "write", "read" or "returned"
    writeIdx,   \* i of the parent's WriteToChildProcess loop
    readIdx,    \* i of the parent's ReadFromChildProcess loop
    addrKey,    \* addrKey[w]: the parent has written child w's address
    finKey,     \* finKey[w]: child w has written its "finished" key
    childPc,    \* childPc[w]: "readAddr", "issue", "finish" or "done"
    issued,     \* issued[w]: the number of keys child w has issued
    counter,    \* counter[w]: child w's key counter
    suffixes    \* suffixes[w]: the key suffixes child w has used

coordVars == <<parentPc, writeIdx, readIdx, addrKey, finKey,
               childPc, issued, counter, suffixes>>

-----------------------------------------------------------------------------
(* Plausible slips: a counter that is never wrapped, a parent that writes  *)
(* one address fewer than it has children, and one whose read of           *)
(* "finished" does not wait.                                               *)
ChildWrapMissing(c) == c

WriteAddressShort ==
    /\ parentPc = "write"
    /\ IF writeIdx < NumChildren - 1
         THEN /\ addrKey' = [addrKey EXCEPT ![writeIdx] = TRUE]
              /\ writeIdx' = writeIdx + 1
              /\ UNCHANGED parentPc
         ELSE /\ parentPc' = "read"
              /\ UNCHANGED <<addrKey, writeIdx>>
    /\ UNCHANGED <<readIdx, finKey, childPc, issued, counter, suffixes>>

ReadFinishedNoWait ==
    /\ parentPc = "read"
    /\ IF readIdx < NumChildren
         THEN /\ readIdx' = readIdx + 1
              /\ UNCHANGED parentPc
         ELSE /\ parentPc' = "returned"
              /\ UNCHANGED readIdx
    /\ UNCHANGED <<writeIdx, addrKey, finKey, childPc, issued, counter, suffixes>>

-----------------------------------------------------------------------------
\* if (counter == 0) counter = INT64_MAX;
ChildWrap(c) == IF c = 0 THEN MaxCounter ELSE c

CoordInit ==
    /\ parentPc = "write"
    /\ writeIdx = 0
    /\ readIdx = 0
    /\ addrKey = [w \in Children |-> FALSE]
    /\ finKey = [w \in Children |-> FALSE]
    /\ childPc = [w \in Children |-> "readAddr"]
    /\ issued = [w \in Children |-> 0]
    /\ counter = [w \in Children |-> MaxCounter - w]
    /\ suffixes = [w \in Children |-> {}]

\* for (i = 0; i < numTransfers; ++i) WriteToChildProcess(i, addressKey, ...)
WriteAddress ==
    /\ parentPc = "write"
    /\ IF writeIdx < NumChildren
         THEN /\ addrKey' = [addrKey EXCEPT ![writeIdx] = TRUE]
              /\ writeIdx' = writeIdx + 1
              /\ UNCHANGED parentPc
         ELSE /\ parentPc' = "read"
              /\ UNCHANGED <<addrKey, writeIdx>>
    /\ UNCHANGED <<readIdx, finKey, childPc, issued, counter, suffixes>>

\* for (i = 0; i < numTransfers; ++i) ReadFromChildProcess(i, finishedKey);
\* then return.  The read blocks until child i has written the key.
ReadFinished ==
    /\ parentPc = "read"
    /\ IF readIdx < NumChildren
         THEN /\ finKey[readIdx]
              /\ readIdx' = readIdx + 1
              /\ UNCHANGED parentPc
         ELSE /\ parentPc' = "returned"
              /\ UNCHANGED readIdx
    /\ UNCHANGED <<writeIdx, addrKey, finKey, childPc, issued, counter, suffixes>>

\* ReadFromParentProcess(addressKey) blocks until the parent wrote it; then
\* SeedAddressCache and SpawnConnectionManagers.
ReadAddress(w) ==
    /\ childPc[w] = "readAddr"
    /\ addrKey[w]
    /\ childPc' = [childPc EXCEPT ![w] = "issue"]
    /\ UNCHANGED <<parentPc, writeIdx, readIdx, addrKey, finKey,
                   issued, counter, suffixes>>

\* One pass of the child's issuance loop: wrap the counter at 0, then use
\* counter-- as the key suffix.  After the last pass the loop ends.
IssueKey(w) ==
    /\ childPc[w] = "issue"
    /\ IF issued[w] < ChildTransfers
         THEN LET c == ChildWrap(counter[w])
              IN  /\ suffixes' = [suffixes EXCEPT ![w] = @ \cup {c}]
                  /\ counter' = [counter EXCEPT ![w] = c - 1]
                  /\ issued' = [issued EXCEPT ![w] = @ + 1]
                  /\ UNCHANGED childPc
         ELSE /\ childPc' = [childPc EXCEPT ![w] = "finish"]
              /\ UNCHANGED <<suffixes, counter, issued>>
    /\ UNCHANGED <<parentPc, writeIdx, readIdx, addrKey, finKey>>

\* After the final wait: WriteToParentProcess(finishedKey, "done").
WriteFinished(w) ==
    /\ childPc[w] = "finish"
    /\ childPc' = [childPc EXCEPT ![w] = "done"]
    /\ finKey' = [finKey EXCEPT ![w] = TRUE]
    /\ UNCHANGED <<parentPc, writeIdx, readIdx, addrKey, issued, counter, suffixes>>

Parent == WriteAddress \/ ReadFinished

Child(w) == ReadAddress(w) \/ IssueKey(w) \/ WriteFinished(w)

CoordNext == Parent \/ \E w \in Children : Child(w)

CoordSpec == CoordInit /\ [][CoordNext]_coordVars

\* Each process runs on its own thread of control and each blocking read
\* returns once its key is written, so every enabled process eventually
\* steps.
CoordFairSpec ==
    CoordSpec /\ WF_coordVars(Parent) /\ \A w \in Children : WF_coordVars(Child(w))

-----------------------------------------------------------------------------
\* The parent's loop indexes, the channel's keys and each child's counter
\* and suffixes stay in their ranges (the counter is never decremented
\* below 0 and no suffix is 0).
CoordTypeOK ==
    /\ parentPc \in {"write", "read", "returned"}
    /\ writeIdx \in 0..NumChildren
    /\ readIdx \in 0..NumChildren
    /\ addrKey \in [Children -> BOOLEAN]
    /\ finKey \in [Children -> BOOLEAN]
    /\ childPc \in [Children -> {"readAddr", "issue", "finish", "done"}]
    /\ issued \in [Children -> 0..ChildTransfers]
    /\ counter \in [Children -> 0..MaxCounter]
    /\ suffixes \in [Children -> SUBSET (1..MaxCounter)]

\* The spec's coordinator/worker symmetry: the parent returns from
\* PerformMeasurement only after every child has finished its transfers
\* and written "finished".
ParentReturnsAfterChildren ==
    parentPc = "returned" => \A w \in Children : childPc[w] = "done"

\* Every run of the protocol ends: the parent returns and every child
\* has written "finished".
CoordinationTerminates ==
    <>(parentPc = "returned" /\ \A w \in Children : childPc[w] = "done")

\* The spec (4.2): the suffixes counted down from INT64_MAX - processIndex
\* never collide across cooperating processes sharing the key space.
DistinctSuffixesAcrossChildren ==
    \A v, w \in Children : v # w => suffixes[v] \cap suffixes[w] = {}

=============================================================================
