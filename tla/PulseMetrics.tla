---------------------------- MODULE PulseMetrics ----------------------------
(***************************************************************************)
(* The self-rescheduling metrics pulse of MeasureTransferRate: the task    *)
(* m_pulseMetricsTask, scheduled by the constructor (except in a child     *)
(* process) on the scheduling event loop, run there by s_PulseMetricsTask, *)
(* which samples the resolved address counts of the upload and download    *)
(* transports and reschedules itself, and cancelled by the measuring       *)
(* thread with aws_event_loop_cancel_task once the measurement is done.    *)
(*                                                                         *)
(* The event loop is the collaborator of the spec's "Scheduling Context":  *)
(* it takes a due task off its queue and runs it with status RUN_READY;    *)
(* cancelling a task removes it from the queue if it is there and runs it  *)
(* with status CANCELED.  The 5000 ms delay is abstracted away: a queued   *)
(* task may fire at any later point.  Cancel is called from the measuring  *)
(* thread, not the loop thread, so it can fall anywhere in a run of the    *)
(* task; its accesses to the queue are modelled as atomic steps.           *)
(***************************************************************************)

CONSTANT IsChild    \* m_canaryApp.GetOptions().isChildProcess

ASSUME IsChildAssumption == IsChild \in BOOLEAN

VARIABLES
    queued,     \* m_pulseMetricsTask is in the event loop's timed queue
    loopPc,     \* where the loop thread is in s_PulseMetricsTask
    ownerPc,    \* where the measuring thread is
    cancelAt    \* where the task was when it was cancelled

pulseVars == <<queued, loopPc, ownerPc, cancelAt>>

\* "idle": the loop thread is not running the task; "running": it passed
\* the status check; "sampled": both data points have been added.
LoopPcs == {"idle", "running", "sampled"}

\* "measuring": transfers are running; "cancelled": the task has been
\* cancelled; "done": metrics published and backup uploaded.
OwnerPcs == {"measuring", "cancelled", "done"}

\* "never": not cancelled; "queued": cancelled while waiting in the queue;
\* "running": cancelled while the loop thread was running it; "absent":
\* cancelled while neither queued nor running.
CancelPoints == {"never", "queued", "running", "absent"}

-----------------------------------------------------------------------------
(* Plausible slips: a status check that lets every status through, and    *)
(* one with the comparison inverted.                                       *)
StatusCheckNone(ready) == TRUE
StatusCheckInverted(ready) == ~ready

(* A plausible slip in the loop: the due task is taken off the queue but  *)
(* never run.                                                              *)
FireDropped ==
    /\ queued
    /\ loopPc = "idle"
    /\ queued' = FALSE
    /\ UNCHANGED <<loopPc, ownerPc, cancelAt>>

\* if (status != AWS_TASK_STATUS_RUN_READY) return;
StatusCheck(ready) == ready

-----------------------------------------------------------------------------
\* The constructor schedules the first pulse unless this is a child process.
PulseInit ==
    /\ queued = ~IsChild
    /\ loopPc = "idle"
    /\ ownerPc = "measuring"
    /\ cancelAt = "never"

\* The event loop runs the due task with status RUN_READY.
Fire ==
    /\ queued
    /\ loopPc = "idle"
    /\ queued' = FALSE
    /\ loopPc' = IF StatusCheck(TRUE) THEN "running" ELSE "idle"
    /\ UNCHANGED <<ownerPc, cancelAt>>

\* Sample the upload and download address counts and add both data points.
Sample ==
    /\ loopPc = "running"
    /\ loopPc' = "sampled"
    /\ UNCHANGED <<queued, ownerPc, cancelAt>>

\* measureTransferRate->SchedulePulseMetrics(): back into the queue.
Reschedule ==
    /\ loopPc = "sampled"
    /\ queued' = TRUE
    /\ loopPc' = "idle"
    /\ UNCHANGED <<ownerPc, cancelAt>>

\* aws_event_loop_cancel_task: the task leaves the queue and is run with
\* status CANCELED, which returns at the status check unless it is let
\* through (then it samples and reschedules on the measuring thread, which
\* is folded into this step).  A run already under way on the loop thread
\* is not affected.
Cancel ==
    /\ ownerPc = "measuring"
    /\ ownerPc' = "cancelled"
    /\ cancelAt' = CASE queued            -> "queued"
                     [] loopPc # "idle"   -> "running"
                     [] OTHER             -> "absent"
    /\ queued' = StatusCheck(FALSE)
    /\ UNCHANGED loopPc

\* SchedulePublish, WaitForLastPublish, UploadBackup.
Publish ==
    /\ ownerPc = "cancelled"
    /\ ownerPc' = "done"
    /\ UNCHANGED <<queued, loopPc, cancelAt>>

LoopStep == Fire \/ Sample \/ Reschedule

PulseNext == LoopStep \/ Cancel \/ Publish

PulseSpec == PulseInit /\ [][PulseNext]_pulseVars

-----------------------------------------------------------------------------
\* The pulse task, the loop thread and the measuring thread stay in their
\* states.
PulseTypeOK ==
    /\ queued \in BOOLEAN
    /\ loopPc \in LoopPcs
    /\ ownerPc \in OwnerPcs
    /\ cancelAt \in CancelPoints

\* The spec: cancelling the task before it fires prevents any further
\* sampling.  Once aws_event_loop_cancel_task has caught the task in the
\* queue, the loop thread never runs it again.
CancelInQueueStopsPulse ==
    cancelAt = "queued" => ~queued /\ loopPc = "idle"

\* The spec: cancelling after a fire but before the reschedule still
\* prevents the next reschedule.  Once the measuring thread has cancelled
\* the task, it is never back in the event loop's queue.
NoRescheduleAfterCancel ==
    ownerPc \in {"cancelled", "done"} => ~queued

\* A pulse in the event loop's queue is eventually run and samples both
\* address counts, unless aws_event_loop_cancel_task takes it out of the
\* queue first (then it runs with CANCELED and returns at the status check).
PulseProgress ==
    queued ~> (loopPc = "sampled" \/ cancelAt = "queued")

=============================================================================
