# TLA+ models of the transfer-rate canary (`src/canary/MeasureTransferRate.cpp`)

This directory holds TLA+ models of `MeasureTransferRate`, the orchestration layer of the S3 throughput canary. It also holds TLC configurations that check the models on small instances and TLAPS proofs that establish the main safety properties for every instance.

## 1. The system

`MeasureTransferRate.cpp` has four interacting parts.

| Part | Code | State | Operations |
|---|---|---|---|
| Issuance loop and completion gate | `PerformMeasurement` L96-159, notify closure L123-138 | loop index `i`, key `counter` (uint64), atomics `numInProgress` / `numCompleted`, `transferCompletedMutex`, `transferCompletedSignal` | issue a transfer; wait for a free slot; final wait for all completions; the closure does `--numInProgress; ++numCompleted; notify_one()` from an I/O thread |
| Transfer records | `MeasureSinglePartObjectTransfer` L304-399 | one `TransferState` per transfer (success flag, metrics) | the PutObject/GetObject completion callbacks set the success flag and then call the closure (L340-343, L389-392); the records are flushed after `PerformMeasurement` returns (L347-350, L396-399) |
| Metrics pulse | constructor L24-37, `SchedulePulseMetrics` L412-418, `s_PulseMetricsTask` L420-548, cancel L285/L401 | `m_pulseMetricsTask` in the event loop's queue, or running on the loop thread | schedule; fire (status check, sample two address counts, reschedule); cancel from the measuring thread |
| HTTP transfer function | `MeasureHttpTransfer` L167-294 | a connection manager of its own; it passes a null transport to `PerformMeasurement` (L203) | the role prelude of `PerformMeasurement` (L55-92) calls through that transport before any transfer is issued |
| Multi-process coordination | `PerformMeasurement` L55-81, L161-164 | per-child `address` and `finished` keys of CanaryApp's key/value channel | the parent writes every address and then reads every `finished` in index order; a child reads its address, runs the loop and writes `finished` |

They interact as follows:
- completion callbacks run on I/O threads, concurrently with each other and with the issuing thread;
- the pulse runs on an event-loop thread while the measuring thread runs the loop, and the measuring thread cancels it at the end;
- parent and children are separate processes that synchronise only through blocking reads of the channel.

Several behaviours make the code hard to test:
- `notify_one` is called without the mutex, so a wakeup can fall between a wait's predicate check and its block;
- the closure captures stack objects by reference;
- `aws_event_loop_cancel_task` is called from a thread other than the loop's;
- the key counter wraps at 0;
- the per-process counters start one apart.

## 2. Modules

| Module | Models | Notes |
|---|---|---|
| `PerformMeasurement` | issuance loop, gate, notify closure, record flags, flush | see 2.1 |
| `PerformMeasurementProofs` | TLAPS proofs about `PerformMeasurement`, including the refinement | section 4 |
| `CompletionGate` | abstract specification of what the loop and gate promise | see 2.4 |
| `CompletionGateProofs` | TLAPS proof that the abstract gate keeps its promise | section 4 |
| `HttpTransfer` | the role prelude of `PerformMeasurement` with the null transport `MeasureHttpTransfer` passes | see 2.5 |
| `PulseMetrics` | pulse task, event loop queue, cancel, publish | see 2.2 |
| `PulseMetricsProofs` | TLAPS proof of `CancelInQueueStopsPulse` | section 4 |
| `MeasureTransferRate` | composition: download measurement and pulse, then cancel and publish | `OwnerStep` may cancel only once the records are flushed (L396-401) |
| `MeasureTransferRateProofs` | TLAPS proofs that both components' invariants hold in the composition | section 4 |
| `ProcessCoordination` | parent/child protocol and the children's key counters | see 2.3 |
| `ProcessCoordinationProofs` | TLAPS proofs of `CoordTypeOK` and `ParentReturnsAfterChildren` | section 4 |
| `MC*` | constants for TLC | |

### 2.1 `PerformMeasurement`

The main thread's program counter `mainPc` splits each `condition_variable::wait(guard, pred)` into three steps:
1. a predicate check (`SlotCheck`, `AllCheck`);
2. the block (`BlockOnSignal`);
3. the wake-up (`NotifyOne`, or `SpuriousWakeup`).

The split is what the C++ memory model allows, because the notifier does not hold the mutex. A `notify_one` that finds the main thread outside a wait state is lost. The mutex is taken only by the main thread, so it never blocks and is not modelled.

Each transfer's callback walks through four steps, `cb[t]`: `inflight → set → dec → inc → done`:
- `CompleteTransfer` sets the success flag, with the outcome chosen nondeterministically;
- `DecInProgress` and `IncCompleted` are the two atomic updates;
- `NotifyOne` is the notify.

Key suffixes are kept as `<<n>>` (or `<<>>` under `NoFileSuffix`). The prefix is the same for every key, so only the suffix matters. `MaxCounter` stands for INT64_MAX.

### 2.2 `PulseMetrics`

`queued` says the task is in the loop's timed queue. `loopPc` says where the loop thread is in `s_PulseMetricsTask`. The 5 s delay is abstracted away: a queued task may fire at any time.

`Cancel` follows the aws-c-io contract from the spec's Scheduling Context: a queued task is removed and run with CANCELED, and a run already under way is not affected. `cancelAt` records where the task was when it was cancelled.

### 2.3 `ProcessCoordination`

The channel is a pair of flags per child, and each blocking read is a guard. Child `w` has `childProcessIndex = w`. The gate inside a child is the one checked in `PerformMeasurement`; here a child issues its keys one by one and then writes `finished`.

### 2.4 `CompletionGate` and the refinement

`CompletionGate` states what a caller of `PerformMeasurement` may rely on, with four numbers:
- `issued` transfers started;
- `active` of them counted in flight;
- `completed` counted complete;
- `returned`, whether the gate has let the caller go.

Its actions are `Start` (while `active < Cap`), `Release`, `Count` (only a released transfer is counted) and `Return` (all started and counted). `PerformMeasurement` instantiates it as `Gate` with `issued <- i`, `active <- numInProgress`, `completed <- numCompleted` and `returned <- mainPc ∈ {"returned", "flushed"}`. `GateRefinement == Gate!GateSpec` is checked as a PROPERTY and proved (section 4). Under this mapping:
- `IssueTransfer` is `Start`;
- `DecInProgress` is `Release`;
- `IncCompleted` is `Count`;
- the `AllCheck` that passes is `Return`;
- every other step stutters.

### 2.5 `HttpTransfer`

`MeasureHttpTransfer` calls `PerformMeasurement` with the flags `DontWarmDNSCache | NoFileSuffix` and the transport `nullptr` (L196-203): its transfer function uses a connection manager of its own. Before the issuance loop, `PerformMeasurement` runs a prelude that depends on the process's role, and every role calls through the transport:
- standalone (`StandaloneStart`): `SpawnConnectionManagers` (L91);
- parent (`ParentStart`, `WriteAddress`, `EndWriteAddresses`): `GetAddressForTransfer(i)` in the write loop (L64);
- child (`ReadAddress`, `SeedAddress`): after its blocking read of the address (L77), `SeedAddressCache` (L81).

`mode` is chosen in `HttpInit`: standalone, or a parent with `NumTransfers` children. A member call through a null `shared_ptr` is undefined behaviour; the transport's methods use its own state, so the outcome a build produces is the death of the process, which `UseTransport` models as the place `crashed`. The HTTP callbacks (connection acquisition, stream completion, metric flush and publish) would run only from the issuance loop, which no role reaches, so they are not modelled.

## 3. Runs

| Run | Expect | Instance | Shows |
|---|---|---|---|
| `perform_measurement` (`MCPerformMeasurement.cfg`) | pass, 4566 states | N=3, cap 2, MAX=3, process 1 | `TypeOK`; `InFlightBound` (the cap holds under every interleaving); `KeysFollowReference` (key t has suffix `((MAX-p-t-1) mod MAX)+1`: the counter starts at 2, then wraps); `FlushSeesFinalRecords` (no pending record is flushed); `GateRefinement` (the loop and gate implement `CompletionGate`) |
| `perform_measurement_lost_wakeup` | violation of `Termination` | same, with fairness | the last notify falls between `AllCheck` and `BlockOnSignal`; the main thread then waits forever |
| `perform_measurement_stack_use` | violation of `NoCallbackAfterReturn` | same | `PerformMeasurement` returns while a callback has still to call `notify_one` on the destroyed condition variable |
| `measure_transfer_rate` | pass, 14210 states | same, no suffix, pulse on | `CancelInQueueStopsPulse`; `PulseProgress` (a queued pulse is sampled unless cancel took it from the queue) |
| `pulse_cancel_race` | violation of `NoRescheduleAfterCancel` | pulse alone | a cancel during a run is followed by the run's own reschedule |
| `http_null_transport` (`MCHttpTransfer.cfg`) | violation of `NullTransportUnused` | 2 transfers, both roles | in standalone mode `SpawnConnectionManagers` is called on the null transport; in the parent, `GetAddressForTransfer`; in a child, `SeedAddressCache`. No HTTP transfer is ever issued |
| `coordination` | pass, 801 states | 3 children × 3 transfers, MAX=4 | `CoordTypeOK` (child 2's counter wraps); `ParentReturnsAfterChildren`; `CoordinationTerminates` |
| `coordination_keys` | violation of `DistinctSuffixesAcrossChildren` | same | child 1's first suffix is child 0's second |

**Why these bounds are enough.**
- With N=3 and cap 2, the loop blocks on a full slot, both waits are exercised, and three callbacks interleave with each other and with the loop.
- MAX=3 with process 1 makes the counter reach 0 and wrap within three keys.
- Three children let them finish out of index order while the parent reads in order.

Every property of a passing run is killed by a mutant of the code it is about (PROJECT.json, `mutants`): a missing wrap, a wait predicate off by one, a status check that lets CANCELED through, a dropped fire, a parent that writes one address too few, a read that does not block, a final wait that returns one completion early, and a notify closure that increments `numCompleted` before it decrements `numInProgress`, so that for one step a transfer is counted both active and completed (breaks `GateRefinement`).

**Fairness.**
- The issuing thread is weakly fair.
- Each transport callback is weakly fair: a transfer eventually completes, which is the dependency the spec accepts ("a hung transfer blocks the whole run").
- The event loop thread is weakly fair, and so is each process of the coordination protocol.
- Spurious wakeups are never assumed to happen, since the standard allows but does not promise them. This is why the lost wakeup is a real hang.

## 4. Proofs (TLAPS)

### 4.1 `PerformMeasurementProofs`

The proofs use only the named assumptions:
- `NumTransfers ∈ Nat`;
- `Cap ∈ Nat \ {0}`;
- `MaxCounter ∈ Nat \ {0}` with `NumTransfers ≤ MaxCounter`;
- `ProcIndex ∈ 0..MaxCounter-1`.

From them they prove, for every value of the constants:
- `TypeCorrect`: `Spec => []TypeOK`;
- `InFlightBoundHolds`: `Spec => []InFlightBound`;
- `FlushSeesFinalRecordsHolds`: `Spec => FlushSeesFinalRecords`, an action property;
- `KeysFollowReferenceHolds`: `Spec => []KeysFollowReference`;
- `GateImplemented`: `Spec => GateRefinement`, the refinement of `CompletionGate`.

**The inductive invariant `IInv`.** Neither `TypeOK` nor `InFlightBound` is inductive on its own, so the proofs go through `IInv`, which ties the atomics to the callbacks' progress:
- exactly the first `i` transfers are issued;
- `numInProgress` = |transfers in `inflight` or `set`|;
- `numCompleted` = |transfers in `inc` or `done`|;
- a record is set once its callback has passed `inflight`;
- `numInProgress < Cap` whenever the loop is at its head (`SlotInv`);
- past the final wait, its predicate `numCompleted >= numTransfers` held (`ReturnedAllDone`).

`IInv` is `CoreInv /\ RecordsSet`. `CoreInv` is every conjunct but the one about records; it is what the composition reuses.

Each callback step is a lemma that moves one transfer between these sets. `EnterClosureStep` covers any transport completion that moves `cb[t]` from `inflight` to `set`, whatever it does to the success flags. The cardinality facts come from `FiniteSetTheorems`.

**The key suffixes.** `KeyInv` states that `WrapCounter(counter) = KeySuffix(ProcIndex, i)`: after the wrap check, the counter holds the next transfer's suffix. `ModStep` proves that one decrement-with-wrap step moves the closed form from k to k+1.

**The refinement.** The proof follows the usual three parts:
1. `Init => Gate!GateInit`.
2. `GateStepRefines`: every step from a state satisfying `CoreInv` and `LoopInv` is a gate step or a stutter. `LoopInv` adds that past the loop `i = NumTransfers`, which `Return` needs.
3. Combining them by PTL.

`Count`'s guard `completed + active < issued` is the lemma `CountBound`: a callback at `dec` is issued, is in neither counted set, and so leaves room among the first `i` transfers.

### 4.2 The other components

- `CompletionGateProofs.GateSafeHolds`: the abstract gate keeps `GateSafe` (at most `Cap` active; on return, all `NumTransfers` completed and none active) for all `NumTransfers, Cap ∈ Nat`. `GateSafe` is inductive once the counters are typed.
- `PulseMetricsProofs.CancelInQueueStopsPulseHolds`: `PulseSpec => []CancelInQueueStopsPulse`. The invariant needs two more facts:
  - a queued task is not also running (`QueuedIdle`);
  - cancel happens only once (`CancelOnce`), or a second cancel could overwrite `cancelAt`.
- `ProcessCoordinationProofs.CoordTypeCorrect`: `CoordSpec => []CoordTypeOK`, which is inductive. `WrapRange` shows that the wrapped counter is a legal suffix.
- `ProcessCoordinationProofs.ParentReturnsAfterChildrenHolds`. Its inductive invariant says three things:
  - every key below `readIdx` was written (`ReadKeysWritten`);
  - a written `finished` key belongs to a child that is done (`FinishedMeansDone`);
  - the parent returns only with `readIdx = NumChildren` (`ReturnedAfterLoop`).

- `MeasureTransferRateProofs`: the two components share no variable, so every step of `MTRSpec` is a step or stutter of each (`MTRStepSplits`). This gives:
  - `MTRInvariants`: `IInv /\ PulseInv` holds;
  - `MTRTypeCorrect`: `MTRTypeOK` holds;
  - `MTRCancelInQueueStopsPulseHolds`: the invariant the `measure_transfer_rate` run checks;
  - `MTRGateImplemented`: the in-flight cap and the gate refinement hold in the composition.

### 4.3 What stays with TLC

The liveness properties (`Termination`, `PulseProgress`, `CoordinationTerminates`) are out of the prover's reach: it does not handle ENABLED or fairness. So is `DistinctSuffixesAcrossChildren`, which is violated anyway.

Theorems of an instantiated module cannot be cited by tlapm 1.4.5. So the composed proofs do not reuse `PerformMeasurementProofs` through `Loop`. They EXTEND it and reuse its step lemmas on the shared variables.

## 5. Not modelled

- In `MeasureHttpTransfer`: the connection and stream callbacks (L205-283) and the publish after `PerformMeasurement` (L285-293). With the null transport no role reaches the issuance loop, so none of them can run.
- The value of `Cap = 0`. The spec leaves validating it to the caller, so the model assumes `Cap > 0`, and the hazard at L153 has no run.
- The upload phase of `MeasureSinglePartObjectTransfer`, which runs the same `PerformMeasurement` as the download phase.
- The transports, the metrics publisher and CanaryApp's channel. Only the behaviour the code relies on is modelled: asynchronous completion, blocking reads, and cancel.
- Byte counts and metric values, which no property distinguishes.

## 6. Plan for later work

1. The HTTP callbacks, once the prelude no longer dereferences a null transport.
2. Upload-phase composition (the second `PerformMeasurement` of `MeasureSinglePartObjectTransfer`).
