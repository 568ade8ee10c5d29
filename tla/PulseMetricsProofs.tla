-------------------------- MODULE PulseMetricsProofs --------------------------
(***************************************************************************)
(* The pulse cannot come back once aws_event_loop_cancel_task has caught   *)
(* it in the queue, whatever the other threads do.  The invariant is not   *)
(* inductive on its own: a cancel must find the loop thread idle whenever  *)
(* the task is queued, and it must happen only once, or a second cancel    *)
(* could overwrite cancelAt.                                               *)
(***************************************************************************)
EXTENDS PulseMetrics, TLAPS

\* A queued task is not also being run by the loop thread.
QueuedIdle == queued => loopPc = "idle"

\* Cancel is called once: while the owner is measuring, it has not been.
CancelOnce == ownerPc = "measuring" => cancelAt = "never"

PulseInv ==
    /\ PulseTypeOK
    /\ QueuedIdle
    /\ CancelOnce
    /\ CancelInQueueStopsPulse

LEMMA InitPulseInv == PulseInit => PulseInv
<1> SUFFICES ASSUME PulseInit PROVE PulseInv
    OBVIOUS
<1>1. queued \in BOOLEAN
    BY IsChildAssumption, Zenon DEF PulseInit
<1>2. QED
    BY <1>1 DEF PulseInit, PulseInv, PulseTypeOK, LoopPcs, OwnerPcs,
                CancelPoints, QueuedIdle, CancelOnce, CancelInQueueStopsPulse

LEMMA NextPulseInv == PulseInv /\ [PulseNext]_pulseVars => PulseInv'
<1> SUFFICES ASSUME PulseInv, [PulseNext]_pulseVars PROVE PulseInv'
    OBVIOUS
<1> USE DEF PulseInv, PulseTypeOK, LoopPcs, OwnerPcs, CancelPoints,
            QueuedIdle, CancelOnce, CancelInQueueStopsPulse
<1>1. CASE Fire
    \* A queued task was not caught by a cancel, so cancelAt # "queued".
    BY <1>1, Zenon DEF Fire, StatusCheck
<1>2. CASE Sample
    BY <1>2, Zenon DEF Sample
<1>3. CASE Reschedule
    \* The loop thread was running, so no cancel caught the task queued.
    BY <1>3, Zenon DEF Reschedule
<1>4. CASE Cancel
    \* Cancel empties the queue; if the task was queued, the loop was idle.
    BY <1>4, Zenon DEF Cancel, StatusCheck
<1>5. CASE Publish
    BY <1>5, Zenon DEF Publish
<1>6. CASE UNCHANGED pulseVars
    BY <1>6, Zenon DEF pulseVars
<1>7. QED
    BY <1>1, <1>2, <1>3, <1>4, <1>5, <1>6 DEF PulseNext, LoopStep

\* The spec: cancelling the pulse while it waits in the event loop's queue
\* stops it for good.  In every behaviour, once aws_event_loop_cancel_task
\* has taken the task from the queue, s_PulseMetricsTask is neither queued
\* nor running.
THEOREM CancelInQueueStopsPulseHolds == PulseSpec => []CancelInQueueStopsPulse
<1>1. PulseInv => CancelInQueueStopsPulse
    BY DEF PulseInv
<1>2. QED
    BY InitPulseInv, NextPulseInv, <1>1, PTL DEF PulseSpec

=============================================================================
