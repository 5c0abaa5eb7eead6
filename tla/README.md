# TLA+ verification of the protected-release core of pigloros

pigloros records events on timelines and lets a host replay, compare and release
them. Releasing *protected* material is the part of the system where time,
threads, processes and failures meet: a value may leave the store only inside a
short window in which every lease, access authorization and consent is still
valid, however the wall clock moves and whoever else uses the same authority
file. This project models that core and states what makes it correct. It also
models the durable composition fallback, which decides after failures and
crashes which implementation of a plugin slot a timeline runs.

## 1. Inventory

| Component | State | Operations | Hard because |
|---|---|---|---|
| Trusted-clock fence, `pos-core/src/trusted_clock.rs` (ADR-112) | high-water row, overrun latch row, acknowledgement rows, `PENDING_OVERRUNS` of each process | `reserve_trusted_clock`, `open_release_guard`, `applicable_expiries`, `handoff_checked`, `commit_pending_overrun_latch`, `acknowledge_trusted_clock_overrun` | wall-clock jumps, several processes on one file, flags in memory and rows on disk, crashes |
| Authority adapters, `pos-store/src/trusted_clock.rs`, `.../sqlite.rs` | write lock, transaction, rows | `begin_immediate`, `read_rows`, `write_*`, `commit`, `rollback`, guard port | lock hand-over between reservation and guard, failing commits |
| Staged executor, `pos-runtime/src/staged_executor.rs` (ADR-113) | `HEALTH`, job queue, cancel flags, the worker | `require_staged_release`, `fold`, `run_job`, `check_handoff_reserve` | a timeout racing the worker's last instructions, callbacks that never return, panics |
| Protected Replay and Compare, `pos-time/src/{lib,replay,compare}.rs`, `pos-core/src/staged_install.rs`, `pos-runtime/src/erasure_host/world_replay_read.rs` | target registries, pending guard, P2 signal, read interval, host state | `replay`, `compare`, the read fence, staged install, `forget_on_failure` | partial failure of a pair, cleanup that fails after success, panics, order of handoff, P2 and forget |
| Event store, `pos-store/src/{memory,sqlite}.rs` | event log, forks, catalogs | append, fork, read, erase | two backends that must agree |
| Composition fallback (ADR-119), `pos-store/src/composition_fallback_registry`, `pos-plugin-supervisor/src/fallback` | per timeline: Events, registry row, ledger; per host: live slots, observations, fault latch, poisoned handle | `declare`, `activate`, `run_boundary_v1`, `owner_activate_v1`, `compose_restart_v1` | unknown commit outcomes, crash between commit and swap, several hosts, Forks, stale decisions |
| Plugin supervisor, `pos-plugin-supervisor/src/{supervisor,member,ipc}.rs` | worker processes and pipes | spawn, pass, kill | late worker output |
| Erasure, consent, authority, key registry | workflows and signed records | freeze, erase, revoke | long workflows over several stores |
| Plugin runtime, projections, time travel, query | registries, projections, schedules | tick, fold, merge, snapshot | determinism of data |
| Owner bridge, sandbox daemon, gateway, ledger, CLI, conformance tools, cryptography | ceremonies, attempts, documents | protocol handlers, encoders | mostly I/O, validation and encoding |

How they meet: a release host reserves on the authority, opens a guard (which
keeps the file's write lock), reads premises and events, folds them on the
executor's worker while it waits, revalidates, checks the handoff reserve and
calls `handoff_checked`. The overrun check that follows can set a flag in the
memory of the process; a later transaction makes the latch durable, and an
operator clears it.

The composition fallback is separate: at a Tick Boundary a host derives from the
registry which implementation every declared slot runs, and after a failed pass
commits an activation of the next candidate, swaps it in and restores it from the
Events. A restart recomposes everything from the Events.

`PROJECT.json` lists every component with its status and every hazard with the
line where it bites and the properties that watch it.

## 2. Modules

| Module | Models | Runs |
|---|---|---|
| `TrustedClock` | the fence over the authority adapters | `clock_*` |
| `ReleaseFence` | what the fence promises its hosts; `TrustedClock` implements it | `clock_threads` |
| `TrustedClockProofs` | theorems of the fence | - |
| `TrustedClockLedgerProofs` | theorems of its ledger: reservations, expiries, overruns, acknowledgements | - |
| `TrustedClockRefinement` | the theorem that it implements `ReleaseFence` | - |
| `StagedExecutor` | guard threads, `HEALTH`, queue and worker | `executor_*` |
| `FoldService` | what the executor promises its callers; `StagedExecutor` implements it, `ProtectedRelease` uses it | `executor_safety`, `release` |
| `StagedExecutorProofs` | theorems of the executor | - |
| `StagedExecutorRefinement` | the theorem that it implements `FoldService` | - |
| `ProtectedRelease` | Replay and Compare inside the read fence, over `FoldService` | `release` |
| `ProtectedReleaseProofs` | theorems of a release | - |
| `FallbackRegistry` | the registry's fold, planning and durable transaction | through the next |
| `FallbackBoundary` | hosts over the registry: boundary, owner, session controller, restart | `fallback*` |
| `FallbackBoundaryProofs` | theorems of the registry's folds, rows and tenures | - |
| `FallbackHostProofs` | theorems of the hosts: live slots, restored Drivers, decisions | - |
| `MCTrustedClock`, `MCStagedExecutor`, `MCFallbackBoundary` | instances for TLC | |

An operator whose name ends in `Mutant` is a plausible wrong version of the
definition below it. No specification uses it; `PROJECT.json` pairs it with the
property that detects it.

### 2.1 TrustedClock

*State.* `clock`, `latch`, `acks` are the durable rows; `catalog` says whether
the artifact catalog is empty (missing rows may be created only then); `lock` is
the authority's single writer; `pending[p][d]` is `PENDING_OVERRUNS` of process
`p`; `th[t]` is the call thread `t` is in, with the reservation it carries;
`minted` holds every `ApplicableExpiriesV1` handed out, since a caller may keep
one and present it to another guard. `overruns`, `recorded`, `acked` and `doubted`
are history variables: nothing reads them except properties and the operator's view.

*Actions and code.*

| Action | Code |
|---|---|
| `BeginReserve` | `reserve_trusted_clock` up to the acquired lock, wait charge included |
| `ReserveCommit`, `ReserveLatches` | `reserve_in_transaction` and `finish_reservation`: migration, latch test, pending overrun first, then the reserved row, and the commit |
| `ClearPending` | `clear_pending_overrun`, which runs after the commit has given up the lock |
| `OpenGuard` | `open_release_guard` with `guarded_high_water` |
| `MintExpiries`, `Handoff`, `PostCheck`, `DropGuard` | `applicable_expiries`; `handoff_checked` split at the move, at the overrun check and at the drop |
| `BeginLatch`, `CommitLatch` | `commit_pending_overrun_latch` |
| `RequestAck`, `BeginAck`, `CommitAck` | an operator reads the count, then `acknowledge_trusted_clock_overrun` |
| `Rollback`, `Abandon` | every early return that gives up a transaction, a reservation or a guard, storage failures and failed commits included |
| `LatchUnreported` | `commit_or_rollback` when a latch commit is durable and reported as failed: the caller returns without clearing its flag, and the next transaction latches the same overrun again |
| `Crash`, `RegisterArtifact`, `RestoreAuthority` | a process dies; the catalog fills; the file is lost or replaced by an older one |

The port does not promise that a failed commit wrote nothing. A reservation that is
durable and reported as failed is `ReserveCommit` followed by `Abandon`; such an
acknowledgement is `CommitAck`, since its thread keeps nothing; for the latch it is
`LatchUnreported`, which sets `doubted`.

Steps are as fine as the code's own synchronisation: one per transaction boundary
(nobody else can see inside one) and one per access to the process-wide map that
happens outside a transaction. A refusal that changes nothing is a stutter.

*Abstractions.* Wall samples and marks are arbitrary members of small sets at
every read, so no relation between two samples is assumed that the code does not
check. Row decoding, digests, principals and overrun kinds are left out; the
operator's authorization is reduced to its expiry. `RestoreAuthority` is an
environment step and narrower than an arbitrary replacement of the file: it happens
while nobody holds the lock, brings back rows that are lost or not newer than the
stored ones, keeps or loses the latch, and keeps the acknowledgements, which no
decision reads. Integer ranges keep their
overflow checks with `MaxTime`, `MaxSeq` and `MaxCount` in the place of
`i64::MAX`.

### 2.2 StagedExecutor

*State.* `health` is `HEALTH`; `guard[g]` the release a guard thread runs, with
the age of its guard, its remaining wait and the arms left to fold; `job[j]` a
`StagedJobV1` with its cancel flag and reply channel; `queue` the worker's
channel; `worker` the place in `run_contained_job`. `late` and `panicked` are
history.

*Actions and code.* `StartRelease` is `require_staged_release`; `Admit`, `Claim`,
`Send`, `Receive`, `TimeOut`, `Quarantine` are `fold` cut at every shared access
(exchange, send, receive, cancel store, exchange); `HandOff` is
`check_handoff_reserve` and what follows; `NextArm` is Compare's second fold.
The worker: `TakeJob`, `StartCallback` and `EndCallback` (`WorkerGateV1`),
`RefuseGate`, `FailFold`, `FinishFold`, `CheckCancel`, `Discard`, `Publish`,
`Reply` (`run_job` cut at every shared access), `HostPanic` and `ContainPanic`.
`Tick` lets time pass for everyone, with ages that saturate just above the last
instant the code can tell apart.

*Abstractions.* What a fold computes; its byte, entity and consumer limits (a
broken limit is `FailFold`, a refused plan `EndRelease`); all consumers share one
`CallbackBound`. The test-only guard wait that never expires is left out. A host
panic happens between callbacks, where host code runs.

### 2.3 The two contracts

`FoldService` keeps of the executor only its health, whether a job is alive, who
waits for it and whether the worker is dead. `Begin` needs a ready service;
`Complete` ends the live job and makes the service ready again, quarantined or
not; `GiveUp` leaves an orphan and a quarantine; `Break` and `Contain` are the
host panic. The mapping in `StagedExecutor` (`Service`): `alive` when some job is
claimed, queued or running or a panic is not contained yet; `owner` the guard
threads in `fold` whose job is alive; `call` what their reply channel can still
deliver.

`ReleaseFence` keeps of the clock the open guard, whether the value moved, the
latch and the flags of the processes. It states in one place what crosses
processes (one guard at a time, the latch) and what does not: a flag is seen by
its own process only, and `Die` drops it. It admits no guard in a process with a
flag, and lets the flag go at any time: that a flag is cleared only after its
overrun closed the latch is not part of the contract but `OverrunAccounted`, which
needs one thread per process. The mapping in `TrustedClock`
(`Fence`) reads guard holders, exposed values, the latch row and
`PENDING_OVERRUNS`. It holds as long as nobody replaces the rows from outside.

### 2.4 ProtectedRelease

*State.* `rel[r]` is the release thread `r` is in: its place, the number of arms
(Replay one, Compare two), guard, armed P2, arms read and folded, interval and
result. `registry[r][a]` is the State of an arm: `prior` (with a subject the range
revokes), `forgotten` or `installed`. `host[r]` is poisoned or not. The executor's
variables are those of `FoldService`, shared by all releases of the process.

*Actions and code.* `RequireStaged`, `PrepareReads`, `BeginInterval`, `EnterGates`,
`Verify`, `ReadArm`, `BeginFold`, `EndFold`, `Stage`, `VerdictOk`, `HandoffOk`,
`Rollback`, `Return` are the way through `replay_range` and `compare`,
`with_world_replay_read_fence` and `ReadFenceV1::arm`. `FailEarly`, `FailPrepare`,
`FailFold`, `VerdictFails` and `HandoffRefused` are their `?`s, each with what it
drops: before the handoff the pending guard (`DropPending`: P2, then the guard),
at a refused handoff P2 through `handoff_with_p2_on`. `Unwind` is a panic at any
place up to the verdict; a panic inside the handoff itself, after
`PendingReplayGuardV1::handoff` has disarmed P2 (`pos-time/src/lib.rs:278-279`), is
left out, because what follows there is written as infallible moves and clock reads.
`SettleInterval` may fail and poison the host, also after an installed success.

*Abstractions.* Events, closures, artifacts and projections; the clocks and
budgets, whose refusals may come at any time here (their timing is the subject of
the other two models).

### 2.5 FallbackRegistry and FallbackBoundary

*State.* `log`, `row` and `ledger` per timeline: Events, registry row, ledger rows.
A Fork gets the Events of its cut and neither row nor ledger. `host[h]` is a
process: its slots (implementation, tenure, and the Events its Driver was restored
from), observations, fault latch, poisoned handle, and the call it is in.
`offer` is a declaration the session controller derived and may submit later,
again, and through another host.

*Actions and code.* The registry's operators keep the code's names: `Declare`,
`Activate`, `Fold`, `RowChecked` (`check_row`), `Fresh` (`check_fresh`), `Plan`,
`Commit` (`write_fallback_plan`). `Transact` is `DurableRegistryV1::transaction`:
the write happens and is acknowledged; happens and is reported indeterminate;
does not happen and is reported either way; the handle may be left poisoned.
`PassCommits`, `PassFails`, `Skip`, `Attempt` are `run_boundary_v1`;
`OwnerActivate`, `OwnerAttempt`, `OwnerExhausted` are `owner_activate_v1`;
`CommitActivation`, `Adopt`, `AdoptNothing`, `ReportNotCommitted`, `Swap`,
`SwapFails` are steps 4 to 6 of the transaction; `Compose`, `ResolveSlots`,
`ComposeSlot`, `AttemptRestart`, `CommitRestart`, `Restored` are
`compose_restart_v1`; `PrepareOffer` and `SubmitOffer` are
`declare_composition_fallback_v1`. A host yields at its store accesses, so that
another host, a crash or a Fork can come between any two of them.

*Abstractions.* A policy is the list of what was declared so far, because its
digest covers its predecessor's. A request is its digest. Building a candidate
(trust gate, facts, assembly) succeeds or not. Trigger codes are two: one seen in
a pass, one seen at a restart. `Commit` writes Event, row and ledger row in one
step, which is SQLite's transaction: `RowIsFold` says that what the operations write
stays equal to the fold, on Forks too, and cannot see a plan that was written in
part. `Contiguous` is `validate_recovery_evidence` on the prefix extended by the
activation Event: an Event that is not the successor of the prefix faults the host.

## 3. Runs

| Run | Instance | Shows |
|---|---|---|
| `clock_threads` | two processes, one thread each, 4 instants, 3 reservations, 3 overruns | the fence, the closed latch, coverage of reservations, no overrun forgotten, the audit trail |
| `clock_budgets` | one thread, 4 marks, 5 instants, boundary premises | budgets, expiries at and next to the decision bound, stale expiries objects |
| `clock_restore` | two threads of one process, two identities, 4 instants, one replacement of the rows | lock exclusion, no release next to a pending overrun, no handoff under regressed rows |
| `clock_race` | two threads of one process | *violation*, see section 6 |
| `executor_safety` | two guard threads, three jobs, two callbacks, deadlines 3 and 4 | one live job, quarantine, host panics, callbacks and deliveries within the fold deadline (`DeliveredInTime`) |
| `executor_liveness` | deadlines 1, one callback | `fold` returns without any fairness of the worker; quarantine ends if callbacks return |
| `clock_reissue` | one thread, one replacement of the rows | *violation*, see section 6 |
| `release` | two concurrent releases, one or two arms each | result and registries agree, revoked subjects gone, P2 once, both arms or none (`RegistrySteps`), releases end |
| `fallback` | two hosts, one timeline, 3 Events, 2 declarations, 1 other Event | live slots named by the Events, Drivers restored without a gap (`RestoredWithoutGap`), no stale decision committed as long as every revision since the derivation is the host's own (`DecisionFresh`) |
| `fallback_fork` | one host, a root and a Fork, 4 Events, 2 declarations | row and ledger equal the fold, both derivations of the tenures agree |
| `fallback_report` | one host, one timeline | *violation*, see section 6 |
| `fallback_adopt` | two hosts, two declared entries, 4 Events | *violation*, see section 6 |

`ImplementsReleaseFence` (`clock_threads`) and `ImplementsFoldService`
(`executor_safety`) check the refinements of section 2.3. Threads that share a
process are in `clock_restore` and `clock_race`; what `clock_threads` checks of the
acknowledgements and of the refinement is proved for any threads (section 4).

*Bounds.* Two threads suffice for the races: each pairs one thread's
unlocked step with one step of another. Three reservations allow an overrun, its
acknowledgement and a second overrun while an old step is still outstanding. A
fourth instant leaves room above the decision bound of a first and a second
reservation. `clock_budgets` uses one thread because budgets and expiries
concern one call, and needs the larger sets of marks and premises instead. Three
jobs let one be abandoned, one be claimed in the gap and one be refused. The
liveness runs use short deadlines, no symmetry, and every order of steps.
Symmetry is used in `executor_safety` (jobs, guard threads) and `fallback` (hosts).

Two releases are enough for `release`: what one can do to another goes through the
executor, where one other caller can claim, give up and quarantine. Releases
repeat without bound. In `fallback` three Events let one host declare and prepare
an activation, another one append in between and commit its own for the same
tenure, and the first adopt it with a stale prefix; two declarations let a
decision outlive its policy. In `fallback_fork` four Events reach declare,
activate, declare again (which re-bases or withdraws) and activate or return, cut
by a Fork at any of them. Both passing runs have one slot: with two slots and two
hosts three Events already give several million states. Decisions about one slot
that depend on another are in `fallback_adopt` and, for any number of slots, in the
theorems. `MaxHead`, `MaxPolicies` and `MaxPasses` are the bounds;
`PassCommits` occurs in `fallback`, `ForkRoot` in `fallback_fork`.

`ReservationsCovered`, `ExpiryRespected` and `OverrunAccounted` are checked
without outside replacement of the rows, and `CountMatches` and
`OverrunAccounted` with one thread per process: the other cases are not
guaranteed by the code (section 6 and the hazards with a note).

*Fairness.* `GuardSpec` assumes that time passes and that a guard thread inside
`fold` is scheduled: every step there is a non-blocking instruction or a timed
wait. It assumes nothing of the worker. `QuarantineEnds` has weak fairness of the
worker as its own hypothesis (`WorkerFairness`: callbacks return), because the code
cannot interrupt a callback. `ProtectedRelease` assumes that the thread of a
started release keeps running until it returns, giving up a fold included, which
is what `FoldReturns` shows of the executor; a panic is never what makes it
progress, and nothing is assumed of the worker. The clock and fallback models have
safety properties only: hosts may stop, and a restart that keeps failing is
allowed.

## 4. Proofs

All theorems hold for every value of the constants that satisfies the named
assumptions of the modules: any number of threads, processes, identities, jobs,
guard threads, releases, hosts, slots, timelines and Events, any budgets, windows,
deadlines and chains of one to three implementations (the code's own limit). Each
component's inductive invariant is defined at the end of its module, and each
component has one lemma per action.

| Invariant or property | Theorem | Extra hypothesis |
|---|---|---|
| `TrustedClock`: `TypeOK`, `LockExclusion`, `FenceHolds`, `NoReleaseWhileClosed`, `WithinGuardBudget`, `RowsFrozenUnderGuard`, `HighWaterMonotone` | `Clock...` in `TrustedClockProofs` | none |
| `ReservationsCovered`, `ExpiryRespected`, `AcksIncrease` | `Clock...` in `TrustedClockLedgerProofs` | the rows have not been replaced yet (`restores = 0`) |
| `AckCoversOnlySeen`, `ImplementsReleaseFence` | `ClockAckCoversOnlySeen`, `ClockImplementsReleaseFence` | the rows are never replaced (`MaxRestores = 0`) |
| `OverrunAccounted`, `CountMatches` | `Clock...` in `TrustedClockLedgerProofs` | `OneThreadPerProcess`, and rows not replaced yet |
| `StagedExecutor`: `TypeOK`, `SingleClaim`, `AbandonedMeansQuarantined`, `HostPanicPermanent`, `DeliveredInTime`, `ImplementsFoldService` | `Executor...` | none |
| `ProtectedRelease`: `TypeOK`, `ResultMatchesRegistry`, `RevokedNotVisible`, `P2Once`, `RegistrySteps` | `Release...` | none |
| `FallbackBoundary`: `TypeOK`, `RowIsFold`, `TenuresAgree`, `LiveNamedByEvents`, `RestoredWithoutGap`, `DecisionFresh` | `Fallback...` | none |

The extra hypotheses come from the code: `clock_reissue` violates `ExpiryRespected`
once the rows have been replaced by older ones, because the ledger then no longer
records what was handed out, and `clock_race` violates `OverrunAccounted` with two
threads in one process.

**The fence** (`TrustedClockProofs`). `FenceHolds` is not inductive: that the
stored high-water is below the final sample rests on the guard having read it
(`GuardReadsRows`) and on no one writing since, which needs `LockExclusion`; that
the sample is inside the window needs `ReservationShape` and `FinalChecked`; the
budget needs `MarksOrdered` along the whole call. `NoReleaseWhileClosed` is
inductive together with `LockExclusion`, because a flag or a latch can be set only
by the holder of the lock. Crashes and outside replacement of the rows are covered.

**The ledger** (`TrustedClockLedgerProofs`). `LedgerInv` relates the rows to what
has been handed out. `ExpiryRespected` needs that an expiries object minted for a
sequence was checked against the decision bound of that sequence (`MintedBounded`)
and that sequences are never given out twice, which is exactly what a replacement of
the rows breaks. `AckCoversOnlySeen` needs that a count the operator read covers
what he saw (`AskersSaw`), that equal counts mean nothing was latched in between,
and that recorded overruns below an open latch are acknowledged (`RecordedClosed`).
`CountInv` says that a flag is an overrun no other process flags and which is
latched only while its own process is about to clear it (`FlagsDistinct`,
`ClearingRecorded`); this is where `OneThreadPerProcess` enters, since a second
thread can latch the same flag again or set a new one before the clear. A latch
whose commit was reported as failed leaves its flag behind and is counted again, so
`CountMatches` bounds the overruns by the count always, and equates them until that
has happened (`doubted`).

**The refinements.** `TrustedClockRefinement` shows for each action which step of
`ReleaseFence` it is: `OpenGuard` opens, `Handoff` moves, `PostCheck` may raise the
flag, latching, clearing and acknowledging are steps of their own, a crash drops the
flags of its process, and what is between them is a stutter. `StagedExecutorRefinement`
does the same for `FoldService`; the step that needs the invariant most is the
exchange after a timeout, which races the worker's last instructions: `JobPlaces`
and `GuardOwnsJob` tell whether the job given up is still alive, and that no other
guard thread waits for it.

**The executor** (`StagedExecutorProofs`). `SingleClaim` is strengthened with where
a live job is (`JobPlaces`), who owns it (`GuardOwnsJob`) and what a host panic
leaves behind (`PanicEnds`). `DeliveredInTime` rests on `NothingLate`, which says
that a running callback was started early enough to end by the deadline if it keeps
its bound; without the test before a callback (`WorkerGateV1::before`) it fails, also
where the last exact pass would still refuse the fold.

**The release** (`ProtectedReleaseProofs`). `IInv` is `TypeOK` and, for each release,
what is owed at its place: until its fate is decided it owns its guard and the armed
P2 and has touched no registry (`Undecided`), arms are read before the first fold and
folded before staging (`ArmsInOrder`), afterwards the guard is gone, P2 was evaluated
if and only if it failed, and result and registries agree (`Decided`), and at the end
what was read is forgotten or the host is poisoned (`Forgotten`).
The releases touch each other only through `FoldService`.

**The registry** (`FallbackBoundaryProofs`). `RowIsFold` and `TenuresAgree` are about
two recursive functions over Events, so they need an induction over the log, which
is obtained from the well-ordering of the naturals: a lemma picks the smallest
place where the claim fails (`NatMinimum`, `PlaceInduction`). With it the fold of an
extended log is one more step, and what a prefix folds to does not depend on what
follows. A Fork may be cut anywhere, so the invariant says of every prefix that it
folds soundly (`PrefixesSound`). An offer is submitted late and against another
head, so it carries what its slots ran at the head it was derived from
(`OfferSound`), and the freshness test decides whether that still holds.

**The hosts** (`FallbackHostProofs`). `BoundaryInv` adds that every ledger row of an
activation names its Event (`LedgerSound`) and that each host is linked to its
timeline (`HostLinked`): its decision was derived from some prefix, what it has
swapped since is named by an activation of the tenure that followed, its request
closes a derived tenure it has not changed, what it adopts occupies that tenure, and
its slots are those the Events name. The argument has three parts. A tenure is
opened by one Event only, because an activation closes the current tenure; so
whoever committed the activation that a host adopts, the Event names what the host
swaps in. Links survive longer logs, so the steps of other hosts cannot break them.
And the revision counts the registry Events since the derivation: when that number
equals the number of slots the host swapped, each of them is one of the host's own
activations (an injection between finite sets of equal size is onto), hence no
declaration is among them and the policy, the tenure and the composition are the
derived ones. That is `FallbackDecisionFresh`.

*Assumptions on constants.* `ConstantsAssumption` of the clock and of the executor
(ranges, and deadlines in the order the code checks), `PremisesAssumption`,
`EntriesAssumption` (chains of one to three implementations), `NumberingAssumption`
(timeline 1 is the root) and `MaxHeadAssumption`.

*Only model-checked.* Liveness under fairness (`FoldReturns`, `QuarantineEnds`,
`ReleaseEnds`), which is out of the prover's reach. Every other property of a
passing run is stated by a theorem. The violation runs show counterexamples, for
which there is nothing to prove.

## 5. Plan

1. Done: `TrustedClock`, `StagedExecutor`, `ProtectedRelease`, `FallbackRegistry` and
   `FallbackBoundary` with their runs; the contracts `ReleaseFence` and `FoldService`.
2. Done: theorems for every safety and action property of the passing runs and for
   both refinements.
3. Left: a second slot in a passing `fallback` run once its states can be reduced;
   what remains true of the ledger after a replacement of the rows, beyond
   `FenceHolds` and `NoReleaseWhileClosed`.
4. Left: the supervisor's worker processes (spawn, pass, kill and late output), and
   the merge of timelines as a pure algorithm against a reference definition.

## 6. Findings

`clock_race`: `clear_pending_overrun` runs after the latch transaction has
released the lock and removes whatever flag the identity has by then, and
`commit_pending_overrun_latch` writes a latch for the flag even when the row is
latched already. With two threads of one process: both latch overrun 1; the first
clears the flag; an operator acknowledges; a later release overruns and sets the
flag for overrun 2; the slower thread's clear removes it. Overrun 2 is neither
pending, nor latched, nor acknowledged, and release stays open, although the
documentation of `overrun_signal` says that release is then latched closed.

`clock_reissue`: `ApplicableExpiriesV1` is documented as bound to one guard, but
`handoff_checked` compares identity and sequence only. After the authority file is
replaced by an older copy, a reservation repeats a sequence, and expiries minted
before the replacement pass for a guard opened after it. The value then moves past an
expiry among the premises of that old object, which are the ones it is released
under: they were checked against the decision bound of the old guard only.

`fallback_report`: `NotCommitted` is documented as "nothing changed". When an
activation commits and the connection's `synchronous` level cannot be restored,
the call returns `StorageIndeterminate` and poisons the handle; the lookup that
would adopt the activation goes through the same handle and fails, and the entry
is reported `NotCommitted` although the activation is durable
(`NotCommittedUnchanged`). `TenuresAgree` and
`LiveNamedByEvents` hold nevertheless: the poisoned host can commit nothing more,
and its restart composes the activated candidate.

`fallback_adopt`: `expected_state_revision` is documented as the revision the caller
derived its decision from. After an unknown outcome `adopt` takes whatever row
occupies the tenure, and `FoldedV1::push` takes that row's revision for the next
entry. If another host re-declared and then activated, the row lies behind a
declaration this host never read; the request for its next entry, derived from the
old policy, then carries the new revision, passes `check_fresh` and is committed
under the new policy. `DecisionFresh` states what does hold: a decision whose
revisions since the derivation are the host's own swaps is committed only under the
policy and tenure it was derived from.

One more disagreement has no run, because the code, the comment next to it and a test
agree: the module text of `pos-plugin-supervisor/src/fallback.rs:18-19` says a
committed activation is adopted "after a refused or indeterminate commit", while
`adopt` does so only after `StorageIndeterminate` (`fallback/boundary.rs:601-603`, and
the test `a_refused_commit_is_not_adopted`). The model follows the code.

## 7. Not modelled

The remaining components of section 1, for the reasons given in `PROJECT.json`:
pure data algorithms, byte-level encodings, validation of signed documents and
I/O, and the larger workflows (erasure, owner bridge, supervisor processes) that
the plan does not reach. The repository has about half a million lines; the
map covers well under one percent of them. What is modelled is the protected-release
core and the composition fallback, where threads, crashes and partial failures meet;
the event stores, erasure, the supervisor, the conformance tools and the applications
may have such places too, and nothing here says anything about them.
In the modelled components: SQL schema creation and comparison, row decoding, error
wording, digests, the scripted clock sources of the tests; for the fallback, the
admission facts of a declaration, the construction of a candidate, and the
memory store, which runs the same registry logic without the durability protocol.
