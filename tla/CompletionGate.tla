--------------------------- MODULE CompletionGate ---------------------------
(***************************************************************************)
(* What the issuance loop and completion gate of PerformMeasurement         *)
(* promise (spec 4.2, 8): transfers are started one after another while    *)
(* fewer than Cap are in flight, each started transfer is released from    *)
(* the in-flight count and then counted as completed, and the gate lets    *)
(* its caller go only once all NumTransfers have been started and counted. *)
(*                                                                         *)
(* The variables are the four numbers a caller can observe: how many      *)
(* transfers were started, how many are counted in flight, how many are    *)
(* counted complete, and whether the gate has returned.                    *)
(***************************************************************************)
EXTENDS Naturals

CONSTANTS NumTransfers, Cap

VARIABLES issued, active, completed, returned

gateVars == <<issued, active, completed, returned>>

GateInit ==
    /\ issued = 0
    /\ active = 0
    /\ completed = 0
    /\ returned = FALSE

\* A transfer is started while a slot is free.
Start ==
    /\ ~returned
    /\ issued < NumTransfers
    /\ active < Cap
    /\ issued' = issued + 1
    /\ active' = active + 1
    /\ UNCHANGED <<completed, returned>>

\* A started transfer leaves the in-flight count.
Release ==
    /\ active > 0
    /\ active' = active - 1
    /\ UNCHANGED <<issued, completed, returned>>

\* A started transfer that has left the in-flight count is counted.
Count ==
    /\ completed + active < issued
    /\ completed' = completed + 1
    /\ UNCHANGED <<issued, active, returned>>

\* The caller is let go once every transfer is started and counted.
Return ==
    /\ ~returned
    /\ issued = NumTransfers
    /\ completed >= NumTransfers
    /\ returned' = TRUE
    /\ UNCHANGED <<issued, active, completed>>

GateNext == Start \/ Release \/ Count \/ Return

GateSpec == GateInit /\ [][GateNext]_gateVars

-----------------------------------------------------------------------------
\* The promise a caller relies on: never more than Cap transfers in flight,
\* and when the gate returns, every transfer has completed and none is
\* still counted in flight.
GateSafe ==
    /\ active <= Cap
    /\ completed + active <= issued
    /\ issued <= NumTransfers
    /\ returned => completed = NumTransfers /\ active = 0

=============================================================================
