----------------------- MODULE MCPerformMeasurement -----------------------
(* Small instances of PerformMeasurement for TLC.  Three transfers with a  *)
(* cap of two make the back-pressure wait block; INT64_MAX is replaced by  *)
(* 3 and the process index is 1, so the suffixes of the three transfers    *)
(* are 2, 1 and, after the wrap, 3.                                        *)
EXTENDS PerformMeasurement

MCNumTransfers == 3
MCCap == 2
MCMaxCounter == 3
MCProcIndex == 1
=============================================================================
