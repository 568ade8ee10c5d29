----------------------- MODULE MCMeasureTransferRate -----------------------
(* MeasureSinglePartObjectTransfer in a parent or standalone process, so   *)
(* the pulse is scheduled, with the gate instance of MCPerformMeasurement. *)
EXTENDS MeasureTransferRate

MCNumTransfers == 3
MCCap == 2
MCMaxCounter == 3
MCProcIndex == 1
=============================================================================
