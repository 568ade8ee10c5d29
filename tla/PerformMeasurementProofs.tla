---------------------- MODULE PerformMeasurementProofs ----------------------
(***************************************************************************)
(* Proofs about the issuance loop and completion gate of                   *)
(* PerformMeasurement, for every value of the constants.                   *)
(*                                                                         *)
(* The counters numInProgress and numCompleted are shared atomics that the *)
(* main thread and the completion callbacks update independently; none of  *)
(* the properties is inductive on its own.  The inductive invariant IInv   *)
(* ties each counter to the set of transfers whose callback is at the      *)
(* matching point: numInProgress counts the transfers issued and not yet   *)
(* past --numInProgress, numCompleted those past ++numCompleted.           *)
(***************************************************************************)
EXTENDS PerformMeasurement, FiniteSetTheorems, TLAPS

\* Transfers whose callback has not yet decremented numInProgress.
InFlightOf(f) == {t \in Transfers : f[t] \in {"inflight", "set"}}

\* Transfers whose callback has incremented numCompleted.
CountedOf(f) == {t \in Transfers : f[t] \in {"inc", "done"}}

\* The transfers issued so far are exactly 0..i-1.
IssuedPrefix == \A t \in Transfers : (cb[t] = "none") <=> (t >= i)

InFlightCount == numInProgress = Cardinality(InFlightOf(cb))

CompletedCount == numCompleted = Cardinality(CountedOf(cb))

\* The back-pressure: at the loop head there is a free slot.
SlotInv == /\ numInProgress <= Cap
           /\ mainPc = "loop" => numInProgress < Cap

\* A callback sets the success flag before it touches the counters.
RecordsSet == \A t \in Transfers :
                 cb[t] \in {"set", "dec", "inc", "done"} => result[t] # "pending"

\* Past the final wait, its predicate held.
ReturnedAllDone == mainPc \in {"returned", "flushed"} => AllDone

\* The part of the invariant that does not look at the success flags; the
\* composition with the pulse reuses it.
CoreInv == /\ TypeOK
           /\ IssuedPrefix
           /\ InFlightCount
           /\ CompletedCount
           /\ SlotInv
           /\ ReturnedAllDone

IInv == CoreInv /\ RecordsSet

-----------------------------------------------------------------------------
USE NumTransfersAssumption, CapAssumption, MaxCounterAssumption,
    ProcIndexAssumption, NoFileSuffixAssumption

\* Every set of transfers is finite and has at most NumTransfers elements.
LEMMA TransferSubsetBound ==
    ASSUME NEW S \in SUBSET Transfers
    PROVE  /\ IsFiniteSet(S)
           /\ Cardinality(S) \in 0..NumTransfers
           /\ Cardinality(S) = NumTransfers => S = Transfers
<1>1. IsFiniteSet(Transfers) /\ Cardinality(Transfers) = NumTransfers
    BY FS_Interval DEF Transfers
<1>2. QED
    BY <1>1, FS_Subset, FS_CardinalityType

LEMMA InitIInv == Init => IInv
<1> SUFFICES ASSUME Init PROVE IInv
    OBVIOUS
<1>1. InFlightOf(cb) = {} /\ CountedOf(cb) = {}
    BY DEF Init, InFlightOf, CountedOf
<1>2. TypeOK
    BY DEF Init, TypeOK, Transfers, Keys, MainPcs, CbStates, Results
<1>3. IssuedPrefix
    BY DEF Init, IssuedPrefix, Transfers
<1>4. InFlightCount /\ CompletedCount
    BY <1>1, FS_EmptySet DEF Init, InFlightCount, CompletedCount
<1>5. SlotInv /\ RecordsSet /\ ReturnedAllDone
    BY DEF Init, SlotInv, RecordsSet, ReturnedAllDone
<1>6. QED
    BY <1>2, <1>3, <1>4, <1>5 DEF IInv, CoreInv

\* A step of the main thread that only moves mainPc keeps CoreInv, provided
\* it enters the loop head only with a free slot and returns only when all
\* done.
LEMMA MainOnlyStep ==
    ASSUME CoreInv,
           UNCHANGED <<i, counter, keys, numInProgress, numCompleted, cb, result>>,
           mainPc' \in MainPcs,
           mainPc' = "loop" => SlotFree,
           mainPc' \in {"returned", "flushed"} => AllDone
    PROVE  CoreInv'
<1>1. TypeOK'
    BY DEF CoreInv, TypeOK
<1>2. IssuedPrefix' /\ InFlightCount' /\ CompletedCount'
    BY DEF CoreInv, IssuedPrefix, InFlightCount, CompletedCount,
           InFlightOf, CountedOf
<1>3. SlotInv'
    BY DEF CoreInv, SlotInv, SlotFree
<1>4. ReturnedAllDone'
    BY DEF ReturnedAllDone, AllDone
<1>5. QED
    BY <1>1, <1>2, <1>3, <1>4 DEF CoreInv

LEMMA IssueTransferStep ==
    ASSUME CoreInv, IssueTransfer
    PROVE  CoreInv'
<1> USE DEF CoreInv
<1>1. i \in Transfers /\ cb[i] = "none"
    BY DEF IssueTransfer, TypeOK, IssuedPrefix, Transfers
<1>2. cb' = [cb EXCEPT ![i] = "inflight"] /\ cb \in [Transfers -> CbStates]
    BY DEF IssueTransfer, TypeOK
<1>3. InFlightOf(cb') = InFlightOf(cb) \cup {i} /\ i \notin InFlightOf(cb)
    BY <1>1, <1>2 DEF InFlightOf
<1>4. CountedOf(cb') = CountedOf(cb)
    BY <1>1, <1>2 DEF CountedOf
<1>5. Cardinality(InFlightOf(cb')) = Cardinality(InFlightOf(cb)) + 1
    <2>1. IsFiniteSet(InFlightOf(cb))
        BY TransferSubsetBound DEF InFlightOf
    <2>2. QED
        BY <2>1, <1>3, FS_AddElement
<1>6. InFlightCount' /\ CompletedCount'
    BY <1>4, <1>5 DEF IssueTransfer, InFlightCount, CompletedCount
<1>7. SlotInv'
    BY DEF IssueTransfer, SlotInv, TypeOK
<1>8. TypeOK'
    <2>1. Cardinality(InFlightOf(cb')) \in 0..NumTransfers
        BY TransferSubsetBound DEF InFlightOf
    <2>2. WrapCounter(counter) \in 1..MaxCounter
        BY DEF TypeOK, WrapCounter
    <2>3. numInProgress' \in 0..NumTransfers
        BY <1>6, <2>1 DEF InFlightCount
    <2>4. counter' \in 0..MaxCounter /\ keys' \in [Transfers -> Keys]
        BY <1>1, <2>2 DEF IssueTransfer, TypeOK, Keys
    <2>5. QED
        BY <1>1, <1>2, <2>3, <2>4
        DEF IssueTransfer, TypeOK, MainPcs, CbStates
<1>9. IssuedPrefix'
    BY <1>1, <1>2 DEF IssueTransfer, IssuedPrefix, TypeOK, Transfers
<1>10. ReturnedAllDone'
    BY DEF IssueTransfer, ReturnedAllDone
<1>11. QED
    BY <1>6, <1>7, <1>8, <1>9, <1>10

\* A transport completion enters the notify closure: cb[t] moves from
\* "inflight" to "set" and only the success flags may change.
LEMMA EnterClosureStep ==
    ASSUME CoreInv, NEW t \in Transfers, cb[t] = "inflight",
           cb' = [cb EXCEPT ![t] = "set"],
           result' \in [Transfers -> Results],
           UNCHANGED <<mainPc, i, counter, keys, numInProgress, numCompleted>>
    PROVE  CoreInv'
<1> USE DEF CoreInv
<1>1. cb \in [Transfers -> CbStates]
    BY DEF TypeOK
<1>2. InFlightOf(cb') = InFlightOf(cb) /\ CountedOf(cb') = CountedOf(cb)
    BY <1>1 DEF InFlightOf, CountedOf
<1>3. TypeOK'
    BY <1>1 DEF TypeOK, CbStates
<1>4. IssuedPrefix' /\ InFlightCount' /\ CompletedCount'
    BY <1>1, <1>2 DEF IssuedPrefix, InFlightCount, CompletedCount
<1>5. SlotInv' /\ ReturnedAllDone'
    BY DEF SlotInv, ReturnedAllDone, AllDone
<1>6. QED
    BY <1>3, <1>4, <1>5

LEMMA CompleteTransferStep ==
    ASSUME CoreInv, NEW t \in Transfers, CompleteTransfer(t)
    PROVE  CoreInv'
<1>1. result' \in [Transfers -> Results]
    BY DEF CompleteTransfer, CoreInv, TypeOK, Results
<1>2. QED
    BY <1>1, EnterClosureStep DEF CompleteTransfer

LEMMA DecInProgressStep ==
    ASSUME CoreInv, NEW t \in Transfers, DecInProgress(t)
    PROVE  CoreInv'
<1> USE DEF CoreInv
<1>1. cb' = [cb EXCEPT ![t] = "dec"] /\ cb \in [Transfers -> CbStates]
      /\ cb[t] = "set"
    BY DEF DecInProgress, TypeOK
<1>2. InFlightOf(cb') = InFlightOf(cb) \ {t} /\ t \in InFlightOf(cb)
    BY <1>1 DEF InFlightOf
<1>3. CountedOf(cb') = CountedOf(cb)
    BY <1>1 DEF CountedOf
<1>4. Cardinality(InFlightOf(cb')) = Cardinality(InFlightOf(cb)) - 1
    <2>1. IsFiniteSet(InFlightOf(cb))
        BY TransferSubsetBound DEF InFlightOf
    <2>2. Cardinality(InFlightOf(cb) \ {t}) = Cardinality(InFlightOf(cb)) - 1
        BY <2>1, <1>2, FS_RemoveElement
    <2>3. QED
        BY <2>2, <1>2
<1>5. InFlightCount' /\ CompletedCount'
    BY <1>3, <1>4 DEF DecInProgress, InFlightCount, CompletedCount
<1>6. numInProgress' \in 0..NumTransfers
    <2>1. Cardinality(InFlightOf(cb')) \in 0..NumTransfers
        BY TransferSubsetBound DEF InFlightOf
    <2>2. QED
        BY <1>5, <2>1 DEF InFlightCount
<1>7. TypeOK'
    BY <1>1, <1>6 DEF DecInProgress, TypeOK, CbStates
<1>8. IssuedPrefix'
    BY <1>1 DEF DecInProgress, IssuedPrefix
<1>9. SlotInv' /\ ReturnedAllDone'
    BY DEF DecInProgress, SlotInv, ReturnedAllDone, AllDone, TypeOK
<1>10. QED
    BY <1>5, <1>7, <1>8, <1>9

LEMMA IncCompletedStep ==
    ASSUME CoreInv, NEW t \in Transfers, IncCompleted(t)
    PROVE  CoreInv'
<1> USE DEF CoreInv
<1>1. cb' = [cb EXCEPT ![t] = "inc"] /\ cb \in [Transfers -> CbStates]
      /\ cb[t] = "dec"
    BY DEF IncCompleted, TypeOK
<1>2. CountedOf(cb') = CountedOf(cb) \cup {t} /\ t \notin CountedOf(cb)
    BY <1>1 DEF CountedOf
<1>3. InFlightOf(cb') = InFlightOf(cb)
    BY <1>1 DEF InFlightOf
<1>4. Cardinality(CountedOf(cb')) = Cardinality(CountedOf(cb)) + 1
    <2>1. IsFiniteSet(CountedOf(cb))
        BY TransferSubsetBound DEF CountedOf
    <2>2. QED
        BY <2>1, <1>2, FS_AddElement
<1>5. InFlightCount' /\ CompletedCount'
    BY <1>3, <1>4 DEF IncCompleted, InFlightCount, CompletedCount
<1>6. numCompleted' \in 0..NumTransfers
    <2>1. Cardinality(CountedOf(cb')) \in 0..NumTransfers
        BY TransferSubsetBound DEF CountedOf
    <2>2. QED
        BY <1>5, <2>1 DEF CompletedCount
<1>7. TypeOK'
    BY <1>1, <1>6 DEF IncCompleted, TypeOK, CbStates
<1>8. IssuedPrefix'
    BY <1>1 DEF IncCompleted, IssuedPrefix
<1>9. SlotInv' /\ ReturnedAllDone'
    BY DEF IncCompleted, SlotInv, ReturnedAllDone, AllDone, TypeOK
<1>10. QED
    BY <1>5, <1>7, <1>8, <1>9

LEMMA NotifyOneStep ==
    ASSUME CoreInv, NEW t \in Transfers, NotifyOne(t)
    PROVE  CoreInv'
<1> USE DEF CoreInv
<1>1. cb' = [cb EXCEPT ![t] = "done"] /\ cb \in [Transfers -> CbStates]
      /\ cb[t] = "inc"
    BY DEF NotifyOne, TypeOK
<1>2. InFlightOf(cb') = InFlightOf(cb) /\ CountedOf(cb') = CountedOf(cb)
    BY <1>1 DEF InFlightOf, CountedOf
<1>3. mainPc' \in MainPcs
      /\ (mainPc' = "loop" => mainPc = "loop")
      /\ (mainPc' \in {"returned", "flushed"} => mainPc = mainPc')
    BY DEF NotifyOne, TypeOK, MainPcs
<1>4. TypeOK'
    BY <1>1, <1>3 DEF NotifyOne, TypeOK, CbStates
<1>5. IssuedPrefix' /\ InFlightCount' /\ CompletedCount'
    BY <1>1, <1>2 DEF NotifyOne, IssuedPrefix, InFlightCount, CompletedCount
<1>6. SlotInv' /\ ReturnedAllDone'
    BY <1>3 DEF NotifyOne, SlotInv, ReturnedAllDone, AllDone
<1>7. QED
    BY <1>4, <1>5, <1>6

LEMMA NextCoreInv == CoreInv /\ [Next]_vars => CoreInv'
<1> SUFFICES ASSUME CoreInv, [Next]_vars PROVE CoreInv'
    OBVIOUS
<1>1. CASE IssueTransfer
    BY <1>1, IssueTransferStep
<1>2. CASE SlotCheck
    BY <1>2, MainOnlyStep DEF SlotCheck, MainPcs
<1>3. CASE EndLoop
    BY <1>3, MainOnlyStep DEF EndLoop, MainPcs
<1>4. CASE AllCheck
    BY <1>4, MainOnlyStep DEF AllCheck, MainPcs
<1>5. CASE BlockOnSignal
    BY <1>5, MainOnlyStep DEF BlockOnSignal, MainPcs
<1>6. CASE Flush
    BY <1>6, MainOnlyStep DEF Flush, MainPcs, CoreInv, ReturnedAllDone
<1>7. CASE SpuriousWakeup
    BY <1>7, MainOnlyStep DEF SpuriousWakeup, MainPcs
<1>8. ASSUME NEW t \in Transfers, Callback(t) PROVE CoreInv'
    BY <1>8, CompleteTransferStep, DecInProgressStep, IncCompletedStep,
       NotifyOneStep DEF Callback
<1>9. CASE UNCHANGED vars
    BY <1>9 DEF vars, CoreInv, TypeOK, IssuedPrefix, InFlightCount,
                CompletedCount, SlotInv, ReturnedAllDone,
                InFlightOf, CountedOf, AllDone
<1>10. QED
    BY <1>1, <1>2, <1>3, <1>4, <1>5, <1>6, <1>7, <1>8, <1>9
    DEF Next, MainStep

\* Only CompleteTransfer moves a callback out of "inflight", and it sets
\* the success flag as it does; no step resets a flag.
LEMMA NextRecordsSet == IInv /\ [Next]_vars => RecordsSet'
<1> SUFFICES ASSUME IInv, [Next]_vars PROVE RecordsSet'
    OBVIOUS
<1> USE DEF IInv, CoreInv, RecordsSet
<1>1. cb \in [Transfers -> CbStates] /\ result \in [Transfers -> Results]
    BY DEF TypeOK
<1>2. CASE IssueTransfer
    \* The transfer issued was not yet issued: its callback is at "none".
    <2>1. i \in Transfers => cb[i] = "none"
        BY DEF TypeOK, IssuedPrefix, Transfers
    <2>2. QED
        BY <1>1, <1>2, <2>1 DEF IssueTransfer
<1>3. ASSUME NEW t \in Transfers, CompleteTransfer(t) PROVE RecordsSet'
    BY <1>1, <1>3 DEF CompleteTransfer
<1>4. ASSUME NEW t \in Transfers, DecInProgress(t) \/ IncCompleted(t) \/ NotifyOne(t)
      PROVE RecordsSet'
    BY <1>1, <1>4 DEF DecInProgress, IncCompleted, NotifyOne
<1>5. CASE SlotCheck \/ EndLoop \/ AllCheck \/ BlockOnSignal \/ Flush
           \/ SpuriousWakeup \/ UNCHANGED vars
    BY <1>5 DEF SlotCheck, EndLoop, AllCheck, BlockOnSignal, Flush,
                SpuriousWakeup, vars
<1>6. QED
    BY <1>2, <1>3, <1>4, <1>5 DEF Next, MainStep, Callback

LEMMA NextIInv == IInv /\ [Next]_vars => IInv'
BY NextCoreInv, NextRecordsSet DEF IInv

\* The strengthened invariant holds in every reachable state.
THEOREM IInvHolds == Spec => []IInv
BY InitIInv, NextIInv, PTL DEF Spec

\* Type correctness: in particular the uint32_t atomics numInProgress and
\* numCompleted never go below 0 nor beyond numTransfers, however the
\* completion callbacks interleave with each other and with the loop.
THEOREM TypeCorrect == Spec => []TypeOK
BY IInvHolds, PTL DEF IInv, CoreInv

\* The back-pressure wait keeps at most numConcurrentTransfers transfers in
\* flight, for every numTransfers and every cap >= 1.
THEOREM InFlightBoundHolds == Spec => []InFlightBound
BY IInvHolds, PTL DEF IInv, CoreInv, SlotInv, InFlightBound

\* When PerformMeasurement has returned, every transfer's completion
\* callback has set its success flag.
LEMMA ReturnedRecordsFinal ==
    ASSUME IInv, mainPc = "returned"
    PROVE  \A t \in Transfers : result[t] # "pending"
<1>1. numCompleted >= NumTransfers
    BY DEF IInv, CoreInv, ReturnedAllDone, AllDone
<1>2. Cardinality(CountedOf(cb)) = NumTransfers
    <2>1. Cardinality(CountedOf(cb)) \in 0..NumTransfers
        BY TransferSubsetBound DEF CountedOf
    <2>2. QED
        BY <1>1, <2>1 DEF IInv, CoreInv, CompletedCount
<1>3. CountedOf(cb) = Transfers
    BY <1>2, TransferSubsetBound DEF CountedOf
<1>4. QED
    BY <1>3 DEF IInv, RecordsSet, CountedOf

\* The caller's flush after PerformMeasurement returns never reads a
\* TransferState whose success flag is still pending.
THEOREM FlushSeesFinalRecordsHolds == Spec => FlushSeesFinalRecords
<1>1. IInv => (mainPc = "returned" => \A t \in Transfers : result[t] # "pending")
    BY ReturnedRecordsFinal
<1>2. QED
    BY <1>1, IInvHolds, PTL DEF FlushSeesFinalRecords

-----------------------------------------------------------------------------
(* The key suffixes.  The loop's counter always holds, after the wrap       *)
(* check, the suffix of the reference definition for the next transfer.    *)

KeyInv ==
    ~NoFileSuffix =>
        /\ WrapCounter(counter) = KeySuffix(ProcIndex, i)
        /\ \A t \in 0..(i - 1) : keys[t] = <<KeySuffix(ProcIndex, t)>>

\* x % M is the unique remainder of a division with quotient q.
LEMMA ModUnique ==
    ASSUME NEW M \in Nat \ {0}, NEW b \in Int, NEW q \in Int, NEW r \in 0..(M-1),
           b = q * M + r
    PROVE  b % M = r
BY SMT

\* Counting down by one: the remainder decreases by one or wraps to M - 1.
LEMMA ModStep ==
    ASSUME NEW M \in Nat \ {0}, NEW a \in Int
    PROVE  ((a - 1) % M) = IF a % M = 0 THEN M - 1 ELSE (a % M) - 1
<1> DEFINE q == a \div M
           r == a % M
<1>1. r \in 0..(M-1) /\ q \in Int /\ a = q * M + r
    BY SMT
<1> HIDE DEF q, r
<1>2. CASE r = 0
    <2>1. a - 1 = (q - 1) * M + (M - 1) /\ q - 1 \in Int /\ M - 1 \in 0..(M-1)
        BY <1>1, <1>2, SMT
    <2>2. (a - 1) % M = M - 1
        BY <2>1, ModUnique
    <2>3. QED
        BY <2>2, <1>2 DEF r
<1>3. CASE r # 0
    <2>1. a - 1 = q * M + (r - 1) /\ r - 1 \in 0..(M-1)
        BY <1>1, <1>3, SMT
    <2>2. (a - 1) % M = r - 1
        BY <2>1, <1>1, ModUnique
    <2>3. QED
        BY <2>2, <1>3 DEF r
<1>4. QED
    BY <1>2, <1>3

\* One iteration of the loop: the wrapped, decremented counter is the
\* reference suffix of the next index.
LEMMA KeySuffixStep ==
    ASSUME NEW k \in Nat
    PROVE  WrapCounter(KeySuffix(ProcIndex, k) - 1) = KeySuffix(ProcIndex, k + 1)
<1> DEFINE a == MaxCounter - ProcIndex - k - 1
<1>1. a \in Int
    OBVIOUS
<1>2. (a - 1) % MaxCounter = IF a % MaxCounter = 0 THEN MaxCounter - 1
                                                  ELSE (a % MaxCounter) - 1
    BY <1>1, ModStep
<1>3. KeySuffix(ProcIndex, k) = (a % MaxCounter) + 1
      /\ KeySuffix(ProcIndex, k + 1) = ((a - 1) % MaxCounter) + 1
    BY DEF KeySuffix
<1> HIDE DEF a
<1>4. a % MaxCounter \in 0..(MaxCounter - 1)
    BY <1>1, SMT
<1>5. QED
    BY <1>2, <1>3, <1>4 DEF WrapCounter

LEMMA InitKeyInv == Init => KeyInv
<1> SUFFICES ASSUME Init, ~NoFileSuffix
             PROVE  WrapCounter(counter) = KeySuffix(ProcIndex, i)
    BY DEF Init, KeyInv
<1>1. MaxCounter - ProcIndex - 0 - 1 = 0 * MaxCounter + (MaxCounter - ProcIndex - 1)
      /\ MaxCounter - ProcIndex - 1 \in 0..(MaxCounter - 1)
    OBVIOUS
<1>2. (MaxCounter - ProcIndex - 0 - 1) % MaxCounter = MaxCounter - ProcIndex - 1
    BY <1>1, ModUnique
<1>3. QED
    BY <1>2 DEF Init, WrapCounter, KeySuffix

LEMMA NextKeyInv == IInv /\ KeyInv /\ [Next]_vars => KeyInv'
<1> SUFFICES ASSUME IInv, KeyInv, [Next]_vars, ~NoFileSuffix
             PROVE  KeyInv'
    BY DEF KeyInv
<1>1. i \in Nat
    BY DEF IInv, CoreInv, TypeOK
<1>2. CASE IssueTransfer
    <2>1. WrapCounter(counter) = KeySuffix(ProcIndex, i)
        BY DEF KeyInv
    <2>2. counter' = KeySuffix(ProcIndex, i) - 1 /\ i' = i + 1
          /\ keys' = [keys EXCEPT ![i] = <<KeySuffix(ProcIndex, i)>>]
        BY <1>2, <2>1 DEF IssueTransfer
    <2>3. WrapCounter(counter') = KeySuffix(ProcIndex, i')
        BY <1>1, <2>2, KeySuffixStep
    <2>4. \A t \in 0..(i' - 1) : keys'[t] = <<KeySuffix(ProcIndex, t)>>
        <3>1. keys \in [Transfers -> Keys] /\ i \in Transfers
            BY <1>2 DEF IInv, CoreInv, TypeOK, IssueTransfer, Transfers
        <3>2. QED
            BY <1>1, <2>2, <3>1 DEF KeyInv, Transfers
    <2>5. QED
        BY <2>3, <2>4 DEF KeyInv
<1>3. CASE ~IssueTransfer
    <2>1. UNCHANGED <<counter, keys, i>>
        BY <1>3 DEF Next, MainStep, SlotCheck, EndLoop, AllCheck,
                    BlockOnSignal, Flush, SpuriousWakeup, Callback,
                    CompleteTransfer, DecInProgress, IncCompleted, NotifyOne, vars
    <2>2. QED
        BY <2>1 DEF KeyInv
<1>4. QED
    BY <1>2, <1>3

\* The suffixes the loop appends follow the reference definition for every
\* INT64_MAX stand-in, process index and number of transfers.
THEOREM KeysFollowReferenceHolds == Spec => []KeysFollowReference
<1>1. Init => IInv /\ KeyInv
    BY InitIInv, InitKeyInv
<1>2. IInv /\ KeyInv /\ [Next]_vars => IInv' /\ KeyInv'
    BY NextIInv, NextKeyInv
<1>3. KeyInv => KeysFollowReference
    BY DEF KeyInv, KeysFollowReference
<1>4. QED
    BY <1>1, <1>2, <1>3, PTL DEF Spec


-----------------------------------------------------------------------------
(* Refinement of the abstract completion gate.  Its Return step needs the   *)
(* loop to be over, which CoreInv does not record: LoopInv does.  Its Count *)
(* step needs a transfer that has left the in-flight count and is not yet  *)
(* counted, which CountBound derives from CoreInv.                         *)

AfterLoopPcs == {"allCheck", "allBlock", "allWait", "returned", "flushed"}

\* Past the for loop, every transfer has been issued.
LoopInv == mainPc \in AfterLoopPcs => i = NumTransfers

LEMMA InitLoopInv == Init => LoopInv
BY DEF Init, LoopInv, AfterLoopPcs

LEMMA NextLoopInv == CoreInv /\ LoopInv /\ [Next]_vars => LoopInv'
<1> SUFFICES ASSUME CoreInv, LoopInv, [Next]_vars PROVE LoopInv'
    OBVIOUS
<1>1. i \in 0..NumTransfers
    BY DEF CoreInv, TypeOK
<1>2. CASE EndLoop
    BY <1>1, <1>2 DEF EndLoop, LoopInv
<1>3. CASE IssueTransfer \/ SlotCheck
    BY <1>3 DEF IssueTransfer, SlotCheck, LoopInv, AfterLoopPcs
<1>4. CASE AllCheck \/ BlockOnSignal \/ SpuriousWakeup \/ Flush
    BY <1>4 DEF AllCheck, BlockOnSignal, SpuriousWakeup, Flush, LoopInv,
                AfterLoopPcs
<1>5. ASSUME NEW t \in Transfers, Callback(t) PROVE LoopInv'
    BY <1>5 DEF Callback, CompleteTransfer, DecInProgress, IncCompleted,
                NotifyOne, LoopInv, AfterLoopPcs
<1>6. CASE UNCHANGED vars
    BY <1>6 DEF vars, LoopInv
<1>7. QED
    BY <1>2, <1>3, <1>4, <1>5, <1>6 DEF Next, MainStep

\* A transfer whose callback is between --numInProgress and ++numCompleted
\* is issued and counted by neither atomic, so the two counts together
\* fall short of the number issued.
LEMMA CountBound ==
    ASSUME CoreInv, NEW t \in Transfers, cb[t] = "dec"
    PROVE  numCompleted + numInProgress < i
<1> USE DEF CoreInv
<1> DEFINE Issued == 0..(i - 1)
<1>1. i \in 0..NumTransfers /\ cb \in [Transfers -> CbStates]
    BY DEF TypeOK
<1>2. \A s \in Transfers : cb[s] # "none" => s \in Issued
    BY <1>1 DEF IssuedPrefix, Transfers
<1>3. t \in Issued
    BY <1>2
<1>4. IsFiniteSet(Issued) /\ Cardinality(Issued) = i
    <2>1. i - 1 \in Int /\ 0 \in Int
        BY <1>1
    <2>2. IsFiniteSet(0..(i - 1))
          /\ Cardinality(0..(i - 1)) = IF 0 > i - 1 THEN 0 ELSE (i - 1) - 0 + 1
        BY <2>1, FS_Interval
    <2>3. QED
        BY <1>1, <2>2
<1>5. IsFiniteSet(Issued \ {t}) /\ Cardinality(Issued \ {t}) = i - 1
    <2>1. IsFiniteSet(Issued \ {t})
          /\ Cardinality(Issued \ {t}) = IF t \in Issued THEN Cardinality(Issued) - 1
                                                     ELSE Cardinality(Issued)
        BY <1>4, FS_RemoveElement
    <2>2. QED
        BY <1>3, <1>4, <2>1
<1>6. InFlightOf(cb) \cup CountedOf(cb) \subseteq Issued \ {t}
    BY <1>2 DEF InFlightOf, CountedOf
<1>7. Cardinality(InFlightOf(cb) \cup CountedOf(cb)) <= i - 1
    BY <1>5, <1>6, FS_Subset
<1>8. IsFiniteSet(InFlightOf(cb)) /\ IsFiniteSet(CountedOf(cb))
    BY TransferSubsetBound DEF InFlightOf, CountedOf
<1>9. InFlightOf(cb) \cap CountedOf(cb) = {}
    BY DEF InFlightOf, CountedOf
<1>10. Cardinality(InFlightOf(cb) \cup CountedOf(cb))
         = Cardinality(InFlightOf(cb)) + Cardinality(CountedOf(cb))
    <2>1. Cardinality(InFlightOf(cb) \cap CountedOf(cb)) = 0
        BY <1>9, FS_EmptySet
    <2>2. Cardinality(InFlightOf(cb) \cup CountedOf(cb))
            = Cardinality(InFlightOf(cb)) + Cardinality(CountedOf(cb))
              - Cardinality(InFlightOf(cb) \cap CountedOf(cb))
        BY <1>8, FS_Union
    <2>3. Cardinality(InFlightOf(cb)) \in Nat /\ Cardinality(CountedOf(cb)) \in Nat
        BY <1>8, FS_CardinalityType
    <2>4. QED
        BY <2>1, <2>2, <2>3
<1>11. Cardinality(InFlightOf(cb)) \in Nat /\ Cardinality(CountedOf(cb)) \in Nat
    BY <1>8, FS_CardinalityType
<1>12. QED
    BY <1>1, <1>7, <1>10, <1>11 DEF InFlightCount, CompletedCount

\* Every step of the loop or of a callback is a step of the abstract gate
\* or leaves the gate's four numbers unchanged.
LEMMA GateStepRefines ==
    CoreInv /\ LoopInv /\ [Next]_vars => [Gate!GateNext]_Gate!gateVars
<1> SUFFICES ASSUME CoreInv, LoopInv, [Next]_vars
             PROVE  [Gate!GateNext]_Gate!gateVars
    OBVIOUS
<1>1. CASE IssueTransfer
    <2>1. Gate!Start
        BY <1>1 DEF IssueTransfer, CoreInv, SlotInv, Gate!Start
    <2>2. QED
        BY <2>1 DEF Gate!GateNext
<1>2. ASSUME NEW t \in Transfers, DecInProgress(t)
      PROVE  [Gate!GateNext]_Gate!gateVars
    <2>1. t \in InFlightOf(cb)
        BY <1>2 DEF DecInProgress, InFlightOf
    <2>2. IsFiniteSet(InFlightOf(cb))
        BY TransferSubsetBound DEF InFlightOf
    <2>3. numInProgress > 0
        BY <2>1, <2>2, FS_EmptySet DEF CoreInv, InFlightCount, TypeOK
    <2>4. Gate!Release
        BY <1>2, <2>3 DEF DecInProgress, Gate!Release
    <2>5. QED
        BY <2>4 DEF Gate!GateNext
<1>3. ASSUME NEW t \in Transfers, IncCompleted(t)
      PROVE  [Gate!GateNext]_Gate!gateVars
    <2>1. numCompleted + numInProgress < i
        BY <1>3, CountBound DEF IncCompleted
    <2>2. Gate!Count
        BY <1>3, <2>1 DEF IncCompleted, Gate!Count
    <2>3. QED
        BY <2>2 DEF Gate!GateNext
<1>4. CASE AllCheck
    <2>1. CASE AllDone
        <3>1. Gate!Return
            BY <1>4, <2>1 DEF AllCheck, AllDone, LoopInv, AfterLoopPcs,
                              Gate!Return
        <3>2. QED
            BY <3>1 DEF Gate!GateNext
    <2>2. CASE ~AllDone
        BY <1>4, <2>2 DEF AllCheck, Gate!gateVars
    <2>3. QED
        BY <2>1, <2>2
<1>5. CASE SlotCheck \/ EndLoop \/ BlockOnSignal \/ SpuriousWakeup \/ Flush
    BY <1>5 DEF SlotCheck, EndLoop, BlockOnSignal, SpuriousWakeup, Flush,
                Gate!gateVars
<1>6. ASSUME NEW t \in Transfers, CompleteTransfer(t) \/ NotifyOne(t)
      PROVE  [Gate!GateNext]_Gate!gateVars
    BY <1>6 DEF CompleteTransfer, NotifyOne, Gate!gateVars
<1>7. CASE UNCHANGED vars
    BY <1>7 DEF vars, Gate!gateVars
<1>8. QED
    BY <1>1, <1>2, <1>3, <1>4, <1>5, <1>6, <1>7 DEF Next, MainStep, Callback

\* The issuance loop and completion gate implement the abstract gate under
\* the mapping of GateRefinement: every behaviour of PerformMeasurement,
\* read through its loop index, its two atomics and whether the final wait
\* is over, is a behaviour of CompletionGate.
THEOREM GateImplemented == Spec => GateRefinement
<1>1. Spec => [](CoreInv /\ LoopInv)
    <2>1. Init => CoreInv /\ LoopInv
        BY InitIInv, InitLoopInv DEF IInv
    <2>2. CoreInv /\ LoopInv /\ [Next]_vars => CoreInv' /\ LoopInv'
        BY NextCoreInv, NextLoopInv
    <2>3. QED
        BY <2>1, <2>2, PTL DEF Spec
<1>2. Init => Gate!GateInit
    BY DEF Init, Gate!GateInit
<1>3. QED
    BY <1>1, <1>2, GateStepRefines, PTL DEF Spec, GateRefinement, Gate!GateSpec

=============================================================================
