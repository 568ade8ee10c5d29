------------------------- MODULE PerformMeasurement -------------------------
(***************************************************************************)
(* The issuance loop and completion gate of                                *)
(* MeasureTransferRate::PerformMeasurement (standalone and child role),    *)
(* together with the transfer functions of MeasureSinglePartObjectTransfer *)
(* (PutObject / GetObject), whose completion callbacks record the          *)
(* transfer's success flag and then call the notify closure.               *)
(*                                                                         *)
(* Two kinds of thread run: the issuing (main) thread, whose program       *)
(* counter is mainPc, and one I/O completion context per transfer, whose   *)
(* progress through the completion callback is cb[t].  The callbacks       *)
(* update the atomics numInProgress / numCompleted and call notify_one     *)
(* WITHOUT taking transferCompletedMutex; the mutex is only ever taken by  *)
(* the main thread, so it never blocks anyone and is not modelled.  The    *)
(* condition variable is modelled by the main thread being in one of the   *)
(* two wait states: a notify_one reaches it only there, and is otherwise   *)
(* lost.                                                                   *)
(***************************************************************************)
EXTENDS Naturals, FiniteSets, Sequences

CONSTANTS
    NumTransfers,   \* numTransfers
    Cap,            \* numConcurrentTransfers
    MaxCounter,     \* INT64_MAX, the first key suffix of process 0
    ProcIndex,      \* m_canaryApp.GetOptions().childProcessIndex
    NoFileSuffix    \* flags & MeasurementFlags::NoFileSuffix

ASSUME NumTransfersAssumption == NumTransfers \in Nat
ASSUME CapAssumption == Cap \in Nat \ {0}
\* numTransfers is a uint32_t and INT64_MAX exceeds every uint32_t value.
ASSUME MaxCounterAssumption == MaxCounter \in Nat \ {0} /\ NumTransfers <= MaxCounter
ASSUME ProcIndexAssumption == ProcIndex \in 0..(MaxCounter - 1)
ASSUME NoFileSuffixAssumption == NoFileSuffix \in BOOLEAN

VARIABLES
    mainPc,         \* where the issuing thread is
    i,              \* loop index of the issuing thread
    counter,        \* the uint64_t key suffix counter
    keys,           \* keys[t]: the suffix appended to filenamePrefix for t
    numInProgress,  \* std::atomic<uint32_t> numInProgress
    numCompleted,   \* std::atomic<uint32_t> numCompleted
    cb,             \* cb[t]: progress of transfer t's completion callback
    result          \* result[t]: TransferState success flag of transfer t

vars == <<mainPc, i, counter, keys, numInProgress, numCompleted, cb, result>>

Transfers == 0..(NumTransfers - 1)

\* "loop": at the head of the for loop; "slotCheck"/"allCheck": evaluating
\* the predicate of a condition_variable::wait; "slotBlock"/"allBlock": the
\* predicate was false and the thread is about to block; "slotWait"/"allWait":
\* blocked inside it; "returned": PerformMeasurement has returned; "flushed": the
\* caller has flushed every TransferState.
MainPcs == {"loop", "slotCheck", "slotBlock", "slotWait",
            "allCheck", "allBlock", "allWait", "returned", "flushed"}

\* "none": not issued; "inflight": issued, transport has not completed;
\* "set": SetTransferSuccess done; "dec": --numInProgress done;
\* "inc": ++numCompleted done; "done": notify_one done, callback over.
CbStates == {"none", "inflight", "set", "dec", "inc", "done"}

Results == {"pending", "success", "failure"}

\* A key is filenamePrefix followed by an optional numeric suffix; the
\* prefix is the same for every transfer, so a key is its suffix sequence.
Keys == {<<>>} \cup {<<n>> : n \in 0..MaxCounter}

-----------------------------------------------------------------------------
(* Plausible slips in the helpers below: a wrap that restarts from the     *)
(* process's own first suffix, a missing wrap, a wait that releases the    *)
(* loop with the cap already reached, and a final wait that gives up one   *)
(* transfer early.                                                         *)

WrapCounterRestart(c) == IF c = 0 THEN MaxCounter - ProcIndex ELSE c
WrapCounterMissing(c) == c
SlotFreeAtCap == numInProgress <= Cap
AllDoneButOne == numCompleted >= NumTransfers - 1

-----------------------------------------------------------------------------
(* Helpers translating single expressions of the loop.                     *)

\* if (counter == 0) counter = INT64_MAX;
WrapCounter(c) == IF c = 0 THEN MaxCounter ELSE c

\* The wait predicate of the back-pressure wait.
SlotFree == numInProgress < Cap

\* The wait predicate of the final wait.
AllDone == numCompleted >= NumTransfers

-----------------------------------------------------------------------------
Init ==
    /\ mainPc = "loop"
    /\ i = 0
    /\ counter = MaxCounter - ProcIndex
    /\ keys = [t \in Transfers |-> <<>>]
    /\ numInProgress = 0
    /\ numCompleted = 0
    /\ cb = [t \in Transfers |-> "none"]
    /\ result = [t \in Transfers |-> "pending"]

(***************************************************************************)
(* Main thread.                                                            *)
(***************************************************************************)

\* One loop iteration up to the wait: build the key, ++numInProgress and
\* call the transfer function, which starts an asynchronous PutObject or
\* GetObject whose completion callback will run on an I/O thread.
IssueTransfer ==
    /\ mainPc = "loop"
    /\ i < NumTransfers
    /\ LET c == WrapCounter(counter) IN
         /\ keys' = [keys EXCEPT ![i] = IF NoFileSuffix THEN <<>> ELSE <<c>>]
         /\ counter' = IF NoFileSuffix THEN c ELSE c - 1
    /\ numInProgress' = numInProgress + 1
    /\ cb' = [cb EXCEPT ![i] = "inflight"]
    /\ i' = i + 1
    /\ mainPc' = "slotCheck"
    /\ UNCHANGED <<numCompleted, result>>

\* The predicate check of transferCompletedSignal.wait(guard, pred): return,
\* or go on to block.
SlotCheck ==
    /\ mainPc = "slotCheck"
    /\ mainPc' = IF SlotFree THEN "loop" ELSE "slotBlock"
    /\ UNCHANGED <<i, counter, keys, numInProgress, numCompleted, cb, result>>

\* The loop condition fails: go to the final wait.
EndLoop ==
    /\ mainPc = "loop"
    /\ i >= NumTransfers
    /\ mainPc' = "allCheck"
    /\ UNCHANGED <<i, counter, keys, numInProgress, numCompleted, cb, result>>

\* The predicate check of the final wait: return from PerformMeasurement, or
\* go on to block.
AllCheck ==
    /\ mainPc = "allCheck"
    /\ mainPc' = IF AllDone THEN "returned" ELSE "allBlock"
    /\ UNCHANGED <<i, counter, keys, numInProgress, numCompleted, cb, result>>

\* condition_variable::wait atomically releases the mutex and blocks.  The
\* notifier does not hold the mutex, so a notify_one may fall between the
\* predicate check and this step; it then finds no waiter and is lost.
BlockOnSignal ==
    /\ mainPc \in {"slotBlock", "allBlock"}
    /\ mainPc' = IF mainPc = "slotBlock" THEN "slotWait" ELSE "allWait"
    /\ UNCHANGED <<i, counter, keys, numInProgress, numCompleted, cb, result>>

\* condition_variable::wait may return without a notify; the predicate is
\* then checked again.  Nothing guarantees this ever happens.
SpuriousWakeup ==
    /\ mainPc \in {"slotWait", "allWait"}
    /\ mainPc' = IF mainPc = "slotWait" THEN "slotCheck" ELSE "allCheck"
    /\ UNCHANGED <<i, counter, keys, numInProgress, numCompleted, cb, result>>

\* The caller flushes the metrics of every TransferState once
\* PerformMeasurement has returned.
Flush ==
    /\ mainPc = "returned"
    /\ mainPc' = "flushed"
    /\ UNCHANGED <<i, counter, keys, numInProgress, numCompleted, cb, result>>

(***************************************************************************)
(* Completion callback of transfer t, on an I/O thread.                    *)
(***************************************************************************)

\* The transport completes: transferState->SetTransferSuccess(errorCode ==
\* AWS_ERROR_SUCCESS).  The error code is not known in advance.
CompleteTransfer(t) ==
    /\ cb[t] = "inflight"
    /\ \E ok \in BOOLEAN :
         result' = [result EXCEPT ![t] = IF ok THEN "success" ELSE "failure"]
    /\ cb' = [cb EXCEPT ![t] = "set"]
    /\ UNCHANGED <<mainPc, i, counter, keys, numInProgress, numCompleted>>

\* notifyTransferFinished: (error logging, then) --numInProgress.
DecInProgress(t) ==
    /\ cb[t] = "set"
    /\ numInProgress' = numInProgress - 1
    /\ cb' = [cb EXCEPT ![t] = "dec"]
    /\ UNCHANGED <<mainPc, i, counter, keys, numCompleted, result>>

\* notifyTransferFinished: ++numCompleted.
IncCompleted(t) ==
    /\ cb[t] = "dec"
    /\ numCompleted' = numCompleted + 1
    /\ cb' = [cb EXCEPT ![t] = "inc"]
    /\ UNCHANGED <<mainPc, i, counter, keys, numInProgress, result>>

\* notifyTransferFinished: transferCompletedSignal.notify_one(), without
\* holding the mutex.  It wakes the main thread only if it is blocked.
NotifyOne(t) ==
    /\ cb[t] = "inc"
    /\ cb' = [cb EXCEPT ![t] = "done"]
    /\ mainPc' = CASE mainPc = "slotWait" -> "slotCheck"
                   [] mainPc = "allWait"  -> "allCheck"
                   [] OTHER               -> mainPc
    /\ UNCHANGED <<i, counter, keys, numInProgress, numCompleted, result>>

(* A plausible slip in the notify closure: ++numCompleted written before   *)
(* --numInProgress, so for a moment the transfer is counted twice.         *)
IncCompletedFirst(t) ==
    /\ cb[t] = "set"
    /\ numCompleted' = numCompleted + 1
    /\ cb' = [cb EXCEPT ![t] = "dec"]
    /\ UNCHANGED <<mainPc, i, counter, keys, numInProgress, result>>

DecInProgressSecond(t) ==
    /\ cb[t] = "dec"
    /\ numInProgress' = numInProgress - 1
    /\ cb' = [cb EXCEPT ![t] = "inc"]
    /\ UNCHANGED <<mainPc, i, counter, keys, numCompleted, result>>

CallbackSwapped(t) ==
    \/ CompleteTransfer(t)
    \/ IncCompletedFirst(t)
    \/ DecInProgressSecond(t)
    \/ NotifyOne(t)

Callback(t) ==
    \/ CompleteTransfer(t)
    \/ DecInProgress(t)
    \/ IncCompleted(t)
    \/ NotifyOne(t)

MainStep ==
    \/ IssueTransfer
    \/ SlotCheck
    \/ EndLoop
    \/ AllCheck
    \/ BlockOnSignal
    \/ Flush

Next ==
    \/ MainStep
    \/ SpuriousWakeup
    \/ \E t \in Transfers : Callback(t)

Spec == Init /\ [][Next]_vars

\* The issuing thread is scheduled, and every transport eventually completes
\* its transfer (the dependency the spec accepts).  Spurious wakeups are
\* allowed but never relied upon.
FairSpec == Spec /\ WF_vars(MainStep) /\ \A t \in Transfers : WF_vars(Callback(t))

-----------------------------------------------------------------------------
(* Properties.                                                             *)

\* Every variable of the loop, the gate and the callbacks stays in its
\* range: the atomics never go negative or past numTransfers and the key
\* counter never leaves 0..INT64_MAX.
TypeOK ==
    /\ mainPc \in MainPcs
    /\ i \in 0..NumTransfers
    /\ counter \in 0..MaxCounter
    /\ keys \in [Transfers -> Keys]
    /\ numInProgress \in 0..NumTransfers
    /\ numCompleted \in 0..NumTransfers
    /\ cb \in [Transfers -> CbStates]
    /\ result \in [Transfers -> Results]

\* The back-pressure of the issuing loop: never more than
\* numConcurrentTransfers transfers are counted in flight, however the
\* completions of earlier transfers interleave with the loop.
InFlightBound == numInProgress <= Cap

\* When the caller flushes the TransferStates after PerformMeasurement
\* returns, every transfer's success flag has been set by its completion
\* callback (no flush reads a pending record).
FlushSeesFinalRecords ==
    [][mainPc = "returned" /\ mainPc' = "flushed" =>
         \A t \in Transfers : result[t] # "pending"]_vars

\* The reference definition of the key suffix of the k-th transfer of a
\* process: counting down from INT64_MAX - processIndex, skipping 0 and
\* wrapping to INT64_MAX.
KeySuffix(p, k) == ((MaxCounter - p - k - 1) % MaxCounter) + 1

\* Every issued key carries the suffix of the reference definition (so the
\* suffixes of one process are distinct and never 0), whatever the wrap.
KeysFollowReference ==
    ~NoFileSuffix =>
        \A t \in 0..(i - 1) : keys[t] = <<KeySuffix(ProcIndex, t)>>

\* Once PerformMeasurement has returned, its stack frame (the mutex, the
\* condition variable and both atomics) is gone, so no completion callback
\* that references them may still be running.
NoCallbackAfterReturn ==
    mainPc \in {"returned", "flushed"} => \A t \in Transfers : cb[t] = "done"

\* The loop and the gate implement the abstract completion gate: the loop
\* index is the number of transfers started, the two atomics are the
\* in-flight and completed counts, and the gate has returned once the
\* final wait is over.  Every step of the issuing thread or of a callback
\* is a step of CompletionGate or leaves its four numbers alone.
Gate == INSTANCE CompletionGate
            WITH issued <- i, active <- numInProgress, completed <- numCompleted,
                 returned <- mainPc \in {"returned", "flushed"}

GateRefinement == Gate!GateSpec

\* PerformMeasurement returns and the records are flushed.
Termination == <>(mainPc = "flushed")

=============================================================================
