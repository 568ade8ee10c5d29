---------------------------- MODULE HttpTransfer ----------------------------
(***************************************************************************)
(* MeasureTransferRate::MeasureHttpTransfer calls PerformMeasurement with  *)
(* the flags DontWarmDNSCache | NoFileSuffix and a null transport (L203):  *)
(* its transfer function uses a connection manager of its own.  Before the *)
(* issuance loop, PerformMeasurement runs a role-dependent prelude that    *)
(* uses the transport in every role:                                       *)
(*   - standalone: transport->SpawnConnectionManagers() (L91);             *)
(*   - parent: transport->GetAddressForTransfer(i) for every transfer      *)
(*     (L64), then blocks reading each child's finished key (L68-71);      *)
(*   - child: blocks reading its address from the parent (L77), then       *)
(*     transport->SeedAddressCache(address) (L81).                         *)
(* This module is that prelude with the transport MeasureHttpTransfer      *)
(* passes.  A member call through a null shared_ptr is undefined; the      *)
(* transport's methods act on its own state, so the build's outcome is a   *)
(* crash of the process ("crashed").  The issuance loop that would follow  *)
(* is PerformMeasurement's and is not repeated here.                       *)
(***************************************************************************)
EXTENDS Naturals

CONSTANT NumTransfers   \* numDownTransfers: the parent's children, 1:1

VARIABLES
    mode,           \* "standalone", or "multiProcess": a parent and its children
    mainPc,         \* where the main process (standalone or parent) is
    childPc,        \* childPc[c]: where child process c is
    addrIdx,        \* the parent's index in its address-write loop
    addrWritten     \* addrWritten[c]: the parent wrote child c's address key

httpVars == <<mode, mainPc, childPc, addrIdx, addrWritten>>

Children == 0..(NumTransfers - 1)

\* "start": entering PerformMeasurement; "readAddr": a child blocked in
\* ReadFromParentProcess; "seed": a child holding its address; "writeAddr":
\* the parent in its address-write loop; "readFinished": the parent in its
\* finished-read loop; "loop": at the issuance loop; "crashed": the process
\* died on the null transport; "absent": no such child process.

\* The arguments of the call at L196-203.
Transport == "nullptr"
DontWarmDNSCache == TRUE

\* A call through the transport: the process goes on to next, or dies if
\* the handle is null.
UseTransport(next) == IF Transport = "nullptr" THEN "crashed" ELSE next

-----------------------------------------------------------------------------
HttpInit ==
    /\ mode \in {"standalone", "multiProcess"}
    /\ mainPc = "start"
    /\ childPc = [c \in Children |->
                    IF mode = "multiProcess" THEN "readAddr" ELSE "absent"]
    /\ addrIdx = 0
    /\ addrWritten = [c \in Children |-> FALSE]

\* Standalone: WarmDNSCache unless DontWarmDNSCache, then
\* SpawnConnectionManagers, then the issuance loop.
StandaloneStart ==
    /\ mode = "standalone"
    /\ mainPc = "start"
    /\ mainPc' = IF DontWarmDNSCache THEN UseTransport("loop")
                  ELSE UseTransport(UseTransport("loop"))
    /\ UNCHANGED <<mode, childPc, addrIdx, addrWritten>>

\* Parent: WarmDNSCache unless DontWarmDNSCache, then the write loop.
ParentStart ==
    /\ mode = "multiProcess"
    /\ mainPc = "start"
    /\ mainPc' = IF DontWarmDNSCache THEN "writeAddr" ELSE UseTransport("writeAddr")
    /\ UNCHANGED <<mode, childPc, addrIdx, addrWritten>>

\* Parent, one iteration: GetAddressForTransfer(i), WriteToChildProcess(i).
WriteAddress ==
    /\ mainPc = "writeAddr"
    /\ addrIdx < NumTransfers
    /\ mainPc' = UseTransport("writeAddr")
    /\ addrWritten' = IF mainPc' = "crashed" THEN addrWritten
                      ELSE [addrWritten EXCEPT ![addrIdx] = TRUE]
    /\ addrIdx' = IF mainPc' = "crashed" THEN addrIdx ELSE addrIdx + 1
    /\ UNCHANGED <<mode, childPc>>

\* Parent: the write loop ends; the finished reads (L68-73) follow, as in
\* ProcessCoordination.
EndWriteAddresses ==
    /\ mainPc = "writeAddr"
    /\ addrIdx >= NumTransfers
    /\ mainPc' = "readFinished"
    /\ UNCHANGED <<mode, childPc, addrIdx, addrWritten>>

\* Child: ReadFromParentProcess(addressKey) blocks until the key is written.
ReadAddress(c) ==
    /\ childPc[c] = "readAddr"
    /\ addrWritten[c]
    /\ childPc' = [childPc EXCEPT ![c] = "seed"]
    /\ UNCHANGED <<mode, mainPc, addrIdx, addrWritten>>

\* Child: SeedAddressCache(address), SpawnConnectionManagers, the loop.
SeedAddress(c) ==
    /\ childPc[c] = "seed"
    /\ childPc' = [childPc EXCEPT ![c] = UseTransport(UseTransport("loop"))]
    /\ UNCHANGED <<mode, mainPc, addrIdx, addrWritten>>

HttpNext ==
    \/ StandaloneStart
    \/ ParentStart
    \/ WriteAddress
    \/ EndWriteAddresses
    \/ \E c \in Children : ReadAddress(c) \/ SeedAddress(c)

HttpSpec == HttpInit /\ [][HttpNext]_httpVars

-----------------------------------------------------------------------------
\* The spec (3, Issuance Loop input): the transport handle is nullable when
\* the transfer function does not need one, as MeasureHttpTransfer's does
\* not.  No process of the HTTP measurement dies on the null transport
\* before its issuance loop.
NullTransportUnused ==
    mainPc # "crashed" /\ \A c \in Children : childPc[c] # "crashed"

=============================================================================
