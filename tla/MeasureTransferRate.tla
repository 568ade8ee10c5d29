------------------------- MODULE MeasureTransferRate -------------------------
(***************************************************************************)
(* MeasureSinglePartObjectTransfer as a whole, in a standalone or parent   *)
(* process: the issuance loop and completion gate of PerformMeasurement    *)
(* run on the measuring thread while the metrics pulse runs on the         *)
(* scheduling event loop; after PerformMeasurement returns and the         *)
(* TransferStates are flushed, the measuring thread cancels the pulse and  *)
(* publishes the metrics.                                                  *)
(***************************************************************************)
EXTENDS PerformMeasurement, PulseMetrics

allVars == <<vars, pulseVars>>

MTRInit == Init /\ PulseInit

\* A step of the gate: the measuring thread or a completion callback.
GateStep ==
    /\ \/ MainStep
       \/ SpuriousWakeup
       \/ \E t \in Transfers : Callback(t)
    /\ UNCHANGED pulseVars

\* A step of the event loop thread running the pulse task.
PulseLoopStep == LoopStep /\ UNCHANGED vars

\* After the download records are flushed, the measuring thread cancels the
\* pulse task, then publishes the metrics and uploads the backup.
OwnerStep ==
    /\ \/ mainPc = "flushed" /\ Cancel
       \/ Publish
    /\ UNCHANGED vars

MTRNext == GateStep \/ PulseLoopStep \/ OwnerStep

MTRSpec == MTRInit /\ [][MTRNext]_allVars

\* The measuring thread, the transports and the event loop thread all make
\* progress; spurious wakeups are not relied upon.
MTRFairSpec ==
    /\ MTRSpec
    /\ WF_allVars(MainStep /\ UNCHANGED pulseVars)
    /\ \A t \in Transfers : WF_allVars(Callback(t) /\ UNCHANGED pulseVars)
    /\ WF_allVars(PulseLoopStep)
    /\ WF_allVars(OwnerStep)

\* Both components of MeasureSinglePartObjectTransfer stay in their ranges.
MTRTypeOK == TypeOK /\ PulseTypeOK

=============================================================================
