---------------------- MODULE ProcessCoordinationProofs ----------------------
(***************************************************************************)
(* The parent/child protocol keeps its ranges, and the parent returns only *)
(* after every child has finished, for every number of children, transfers *)
(* per child and counter width.                                            *)
(*                                                                         *)
(* CoordTypeOK is inductive by itself.  ParentReturnsAfterChildren is not: *)
(* it rests on what the parent's read loop has seen.  Every key below      *)
(* readIdx has been read, so it was written, a written "finished" key      *)
(* belongs to a child that is done, and the parent returns only when       *)
(* readIdx has reached NumChildren.                                        *)
(***************************************************************************)
EXTENDS ProcessCoordination, TLAPS

\* A child's "finished" key is written only by the child, as its last step.
FinishedMeansDone == \A w \in Children : finKey[w] => childPc[w] = "done"

\* The parent's blocking reads returned only for keys already written.
ReadKeysWritten == \A w \in Children : w < readIdx => finKey[w]

\* The parent leaves its read loop only at its end.
ReturnedAfterLoop == parentPc = "returned" => readIdx = NumChildren

CoordInv ==
    /\ CoordTypeOK
    /\ FinishedMeansDone
    /\ ReadKeysWritten
    /\ ReturnedAfterLoop

LEMMA InitCoordTypeOK == CoordInit => CoordTypeOK
<1> SUFFICES ASSUME CoordInit PROVE CoordTypeOK
    OBVIOUS
<1>1. counter \in [Children -> 0..MaxCounter]
    BY NumChildrenAssumption, CoordMaxCounterAssumption DEF CoordInit, Children
<1>2. QED
    BY <1>1, NumChildrenAssumption, ChildTransfersAssumption
       DEF CoordInit, CoordTypeOK, Children

\* The wrapped counter is a legal suffix, and one below it a legal counter.
LEMMA WrapRange ==
    ASSUME NEW c \in 0..MaxCounter
    PROVE  /\ ChildWrap(c) \in 1..MaxCounter
           /\ ChildWrap(c) - 1 \in 0..MaxCounter
BY CoordMaxCounterAssumption DEF ChildWrap

LEMMA NextCoordTypeOK == CoordTypeOK /\ [CoordNext]_coordVars => CoordTypeOK'
<1> SUFFICES ASSUME CoordTypeOK, [CoordNext]_coordVars PROVE CoordTypeOK'
    OBVIOUS
<1>1. CASE WriteAddress
    <2>1. CASE writeIdx < NumChildren
        <3>1. writeIdx \in Children
            BY <2>1, NumChildrenAssumption DEF CoordTypeOK, Children
        <3>2. addrKey' \in [Children -> BOOLEAN]
            BY <1>1, <2>1, <3>1, Zenon DEF WriteAddress, CoordTypeOK
        <3>3. QED
            BY <1>1, <2>1, <3>2, NumChildrenAssumption
               DEF WriteAddress, CoordTypeOK
    <2>2. CASE ~(writeIdx < NumChildren)
        BY <1>1, <2>2 DEF WriteAddress, CoordTypeOK
    <2>3. QED
        BY <2>1, <2>2
<1>2. CASE ReadFinished
    BY <1>2, NumChildrenAssumption DEF ReadFinished, CoordTypeOK, Children
<1>3. ASSUME NEW w \in Children, ReadAddress(w) PROVE CoordTypeOK'
    BY <1>3 DEF ReadAddress, CoordTypeOK
<1>4. ASSUME NEW w \in Children, IssueKey(w) PROVE CoordTypeOK'
    <2>1. counter[w] \in 0..MaxCounter
        BY DEF CoordTypeOK
    <2>2. CASE issued[w] < ChildTransfers
        BY <1>4, <2>1, <2>2, WrapRange, ChildTransfersAssumption
           DEF IssueKey, CoordTypeOK
    <2>3. CASE ~(issued[w] < ChildTransfers)
        BY <1>4, <2>3 DEF IssueKey, CoordTypeOK
    <2>4. QED
        BY <2>2, <2>3
<1>5. ASSUME NEW w \in Children, WriteFinished(w) PROVE CoordTypeOK'
    BY <1>5 DEF WriteFinished, CoordTypeOK
<1>6. CASE UNCHANGED coordVars
    BY <1>6 DEF coordVars, CoordTypeOK
<1>7. QED
    BY <1>1, <1>2, <1>3, <1>4, <1>5, <1>6 DEF CoordNext, Parent, Child

\* The parent's loop indexes, the channel's keys and each child's counter
\* and suffixes stay in range in every run of the protocol: the counter is
\* wrapped before it is used, so it never goes below 0 and no suffix is 0.
THEOREM CoordTypeCorrect == CoordSpec => []CoordTypeOK
BY InitCoordTypeOK, NextCoordTypeOK, PTL DEF CoordSpec

LEMMA InitCoordInv == CoordInit => CoordInv
<1> SUFFICES ASSUME CoordInit PROVE CoordInv
    OBVIOUS
<1>1. CoordTypeOK
    BY InitCoordTypeOK
<1>2. FinishedMeansDone /\ ReadKeysWritten /\ ReturnedAfterLoop
    BY NumChildrenAssumption
       DEF CoordInit, FinishedMeansDone, ReadKeysWritten, ReturnedAfterLoop,
           Children
<1>3. QED
    BY <1>1, <1>2 DEF CoordInv

LEMMA NextCoordInv == CoordInv /\ [CoordNext]_coordVars => CoordInv'
<1> SUFFICES ASSUME CoordInv, [CoordNext]_coordVars PROVE CoordInv'
    OBVIOUS
<1>1. CoordTypeOK'
    BY NextCoordTypeOK DEF CoordInv
<1> USE DEF CoordInv, FinishedMeansDone, ReadKeysWritten, ReturnedAfterLoop
<1>2. CASE WriteAddress
    BY <1>1, <1>2 DEF WriteAddress
<1>3. CASE ReadFinished
    \* The read of key readIdx returns only once that key is written, and
    \* the loop is left only when readIdx has reached NumChildren.
    <2>1. CASE readIdx < NumChildren
        BY <1>1, <1>3, <2>1 DEF ReadFinished, CoordTypeOK, Children
    <2>2. CASE ~(readIdx < NumChildren)
        BY <1>1, <1>3, <2>2, NumChildrenAssumption DEF ReadFinished, CoordTypeOK
    <2>3. QED
        BY <2>1, <2>2
<1>4. ASSUME NEW w \in Children, ReadAddress(w) PROVE CoordInv'
    \* A child reading its address has not written "finished".
    BY <1>1, <1>4 DEF ReadAddress, CoordTypeOK
<1>5. ASSUME NEW w \in Children, IssueKey(w) PROVE CoordInv'
    BY <1>1, <1>5 DEF IssueKey, CoordTypeOK
<1>6. ASSUME NEW w \in Children, WriteFinished(w) PROVE CoordInv'
    \* Writing "finished" is the child's last step: it is done from then on.
    BY <1>1, <1>6 DEF WriteFinished, CoordTypeOK
<1>7. CASE UNCHANGED coordVars
    BY <1>1, <1>7 DEF coordVars
<1>8. QED
    BY <1>2, <1>3, <1>4, <1>5, <1>6, <1>7 DEF CoordNext, Parent, Child

\* The parent returns from PerformMeasurement only after every child has
\* finished its transfers and written "finished": its in-order blocking
\* reads cannot be passed by children that finish out of order.
THEOREM ParentReturnsAfterChildrenHolds == CoordSpec => []ParentReturnsAfterChildren
<1>1. CoordInv => ParentReturnsAfterChildren
    <2> SUFFICES ASSUME CoordInv, parentPc = "returned", NEW w \in Children
                 PROVE  childPc[w] = "done"
        BY DEF ParentReturnsAfterChildren
    <2>1. w < readIdx
        BY NumChildrenAssumption DEF CoordInv, ReturnedAfterLoop, Children
    <2>2. QED
        BY <2>1 DEF CoordInv, ReadKeysWritten, FinishedMeansDone
<1>2. QED
    BY InitCoordInv, NextCoordInv, <1>1, PTL DEF CoordSpec

=============================================================================
