--------------------- MODULE MeasureTransferRateProofs ---------------------
(***************************************************************************)
(* MeasureSinglePartObjectTransfer interleaves the measuring thread, the   *)
(* transfer callbacks and the event loop thread that runs the pulse.  The  *)
(* two components share no variable: every step of the composition is a   *)
(* step of one of them that leaves the other's variables alone, so each    *)
(* component's inductive invariant is kept by every step of the other.     *)
(* The theorems proved of PerformMeasurement and of the pulse alone hence  *)
(* hold of the composition, whatever the interleaving.                     *)
(***************************************************************************)
EXTENDS MeasureTransferRate, PerformMeasurementProofs, PulseMetricsProofs, TLAPS

\* Every step of the composition is a step or stutter of each component.
LEMMA MTRStepSplits ==
    [MTRNext]_allVars => [Next]_vars /\ [PulseNext]_pulseVars
<1> SUFFICES ASSUME [MTRNext]_allVars PROVE [Next]_vars /\ [PulseNext]_pulseVars
    OBVIOUS
<1>1. CASE GateStep
    BY <1>1 DEF GateStep, Next
<1>2. CASE PulseLoopStep
    BY <1>2 DEF PulseLoopStep, PulseNext
<1>3. CASE OwnerStep
    BY <1>3 DEF OwnerStep, PulseNext
<1>4. CASE UNCHANGED allVars
    BY <1>4 DEF allVars
<1>5. QED
    BY <1>1, <1>2, <1>3, <1>4 DEF MTRNext

\* The invariants of both components hold together in every reachable state
\* of MeasureSinglePartObjectTransfer.
THEOREM MTRInvariants == MTRSpec => [](IInv /\ PulseInv)
<1>1. MTRInit => IInv /\ PulseInv
    BY InitIInv, InitPulseInv DEF MTRInit
<1>2. IInv /\ PulseInv /\ [MTRNext]_allVars => IInv' /\ PulseInv'
    BY MTRStepSplits, NextIInv, NextPulseInv
<1>3. QED
    BY <1>1, <1>2, PTL DEF MTRSpec

\* Both components of MeasureSinglePartObjectTransfer stay in their ranges:
\* the two atomics, the loop index and the counter of the key suffixes, and
\* the pulse task's queue flag and program counters.
THEOREM MTRTypeCorrect == MTRSpec => []MTRTypeOK
BY MTRInvariants, PTL DEF IInv, CoreInv, PulseInv, MTRTypeOK

\* The spec: cancelling the pulse before it fires prevents any further
\* sampling.  In MeasureSinglePartObjectTransfer, with the transfers and
\* their callbacks running alongside, once aws_event_loop_cancel_task has
\* taken s_PulseMetricsTask from the queue it is neither queued nor run.
THEOREM MTRCancelInQueueStopsPulseHolds == MTRSpec => []CancelInQueueStopsPulse
BY MTRInvariants, PTL DEF PulseInv

\* The back-pressure and the refinement of the abstract completion gate
\* hold with the pulse running alongside.
THEOREM MTRGateImplemented == MTRSpec => []InFlightBound /\ GateRefinement
<1>1. MTRSpec => [](CoreInv /\ LoopInv)
    <2>1. MTRInit => CoreInv /\ LoopInv
        BY InitIInv, InitLoopInv DEF MTRInit, IInv
    <2>2. CoreInv /\ LoopInv /\ [MTRNext]_allVars => CoreInv' /\ LoopInv'
        BY MTRStepSplits, NextCoreInv, NextLoopInv
    <2>3. QED
        BY <2>1, <2>2, PTL DEF MTRSpec
<1>2. CoreInv => InFlightBound
    BY DEF CoreInv, SlotInv, InFlightBound
<1>3. MTRInit => Gate!GateInit
    BY DEF MTRInit, Init, Gate!GateInit
<1>4. CoreInv /\ LoopInv /\ [MTRNext]_allVars => [Gate!GateNext]_Gate!gateVars
    BY MTRStepSplits, GateStepRefines
<1>5. QED
    BY <1>1, <1>2, <1>3, <1>4, PTL DEF MTRSpec, GateRefinement, Gate!GateSpec

=============================================================================
