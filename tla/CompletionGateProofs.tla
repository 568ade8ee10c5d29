------------------------- MODULE CompletionGateProofs -------------------------
(***************************************************************************)
(* The abstract completion gate keeps its promise for every number of      *)
(* transfers and every cap.  GateSafe is inductive once the counters are   *)
(* known to be natural numbers.                                            *)
(***************************************************************************)
EXTENDS CompletionGate, TLAPS

GateTypeOK ==
    /\ issued \in Nat
    /\ active \in Nat
    /\ completed \in Nat
    /\ returned \in BOOLEAN

GateInv == GateTypeOK /\ GateSafe

\* The gate's promise holds in every state of the abstract gate: at most
\* Cap in flight, and on return all NumTransfers completed, none in flight.
THEOREM GateSafeHolds ==
    ASSUME NumTransfers \in Nat, Cap \in Nat
    PROVE  GateSpec => []GateSafe
<1>1. GateInit => GateInv
    <2> SUFFICES ASSUME GateInit PROVE GateInv
        OBVIOUS
    <2>1. returned \in BOOLEAN
        BY Zenon DEF GateInit
    <2>2. QED
        BY <2>1, SMT DEF GateInit, GateInv, GateTypeOK, GateSafe
<1>2. GateInv /\ [GateNext]_gateVars => GateInv'
    <2> SUFFICES ASSUME GateInv, [GateNext]_gateVars PROVE GateInv'
        OBVIOUS
    <2>1. returned' \in BOOLEAN
        BY Zenon DEF GateInv, GateTypeOK, GateNext, Start, Release, Count,
                     Return, gateVars
    <2>2. CASE Start
        BY <2>1, <2>2 DEF GateInv, GateTypeOK, GateSafe, Start
    <2>3. CASE Release
        BY <2>1, <2>3 DEF GateInv, GateTypeOK, GateSafe, Release
    <2>4. CASE Count
        BY <2>1, <2>4 DEF GateInv, GateTypeOK, GateSafe, Count
    <2>5. CASE Return
        BY <2>1, <2>5 DEF GateInv, GateTypeOK, GateSafe, Return
    <2>6. CASE UNCHANGED gateVars
        BY <2>1, <2>6 DEF GateInv, GateTypeOK, GateSafe, gateVars
    <2>7. QED
        BY <2>2, <2>3, <2>4, <2>5, <2>6 DEF GateNext
<1>3. GateInv => GateSafe
    BY DEF GateInv
<1>4. QED
    BY <1>1, <1>2, <1>3, PTL DEF GateSpec

=============================================================================
