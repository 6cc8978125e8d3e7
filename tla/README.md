# Verification of rollup-starter's acceptance harness

This directory holds TLA+ models of the parts of rollup-starter that carry
logic of their own, TLC configurations that check them on small instances, and
proofs checked by TLAPS. Paths in this file are relative to the repository's
root; `lib.rs`, `setup.rs` and so on stand for the files of
`scripts/acceptance-test/src/`.

## 1. What the system is

rollup-starter assembles a rollup from the Sovereign SDK. The node, its
sequencer, its ledger and the module system are git dependencies; what the
repository itself implements is thin for the node and thick for the *acceptance
harness* (`scripts/acceptance-test`, two thirds of the Rust code). The harness
generates a history of a rollup across several versions (hard forks), records
every slot, and later replays that history with the current code, across the
same version handovers, and checks it slot by slot. That is where concurrency,
failure and restarts meet, so that is what is modelled.

### Components, their state and how they interact

| component | state | operations | talks to |
|---|---|---|---|
| run plan (`versioned_setup.rs`) | versions with start and stop heights, bounds of the recorded data, soak salts | `recorded_data_bounds`, `prepare_acceptance_run_plan`, `last_version_soak_config`, `extend_last_stop_height` | read by setup, test, resync |
| acceptance resync (`lib.rs`, `fetch_and_compare.rs`) | position of the walk over the snapshots, last batch, last reconnect | `resync_and_verify_slots`, `reconnect_after_handover`, `wait_for_endpoint` | node's ledger API and slot subscription, snapshots on disk, shutdown signal |
| soak run (`lib.rs`) | background tasks, counters, pending backfill, result | `run_soak`, `backfill_missing_snapshots`, `combine_soak_errors` | node's API and slots, manager's exit status, tasks, snapshots |
| setup and test (`bin/setup.rs`, `main.rs`) | kind of run (genesis, append, test), throughput baseline | `prepare_setup_run`, `run_setup`, `do_manual_setup`, `run_test`, `save_mock_data` | all of the above |
| recorded data on disk | snapshots, `mock_da.sqlite*`, `persistent_mock_da.sqlite*`, rollup state | copied, renamed, cleared by successive runs | survives crashes |
| managed rollup process (`lib.rs`) | the manager's process group | `shutdown`, `ensure_stopped`, `Drop` | external rollup manager, which runs one node after another and the db migrations between them |
| postgres container guard (`lib.rs`) | a container | `start`, `wait_ready`, `Drop` | docker; the node's database |
| shutdown signals (`lib.rs`) | a watch channel | `run_until_shutdown_signal`, `wait_for_shutdown`, `sleep_or_shutdown` | every wait of the harness |
| state validation worker (`state_consistency.rs`) | slot and heights to assert | `drain_slot_stream`, `poll_for_api_state_update`, `send_assert_block_tx` | sequencer |
| EVM workers (`evm_soak.rs`) | nonce and expected value per contract | deployment, value updates | sequencer, metadata file |
| slot monitor (`fetch_and_compare.rs`) | four streams of head and finalized slots | `get_next_slot`, `fetch_and_compare_slot` | manual setup (`do_manual_setup`), node's API |
| node discovery (`crates/utils/node-discovery`) | file of backends | write, validate, reload | cluster service (external), nginx |
| runtime authentication (`crates/stf`) | none of its own | routing of standard, EVM and delegated transactions | SDK |
| blueprint, genesis, provers, examples | configuration only | | SDK |

A run starts one rollup *manager*. The manager starts a node of version 1; the
node stops by itself at its stop height; the manager runs the next version's db
migration, which may patch the state root of the last slot, and starts the next
node. The harness is not told: it sees its subscription close and its requests
fail, and must tell a handover from a crash. `PROJECT.json` lists every
component with its status and the reason where one is not modelled.

### What is hard about it

- **Interleaving.** Every await of the harness lets the node replay, stop, be
  patched, be replaced or crash. The soak's `select!` is biased, so what is
  ready together is looked at in a fixed order and the last may be thrown away.
- **Lost notifications.** A subscription begins after the node's head and loses
  what was queued when it closes.
- **Two number spaces.** Slots run ahead of batches (warm-up slots, handover
  gaps), heights are one ahead of batch numbers, and subtraction saturates.
- **Leniency.** Missing snapshots among the first ten slots, failures near the
  end, and state roots at migration boundaries are forgiven; each exception
  could swallow a real fault.
- **Reads that are not a snapshot.** The validation worker asks for the slot
  number, the heights and the root in separate requests while blocks open; the
  slot monitor pairs four streams by position.
- **Files of several runs.** A run opens what earlier, failed or killed runs left:
  a database and its `-wal` file are renamed and copied one after the other.
- **Processes of several generations.** A signal reaches a group only while its
  leader has not been waited for.
- **Crashes and liveness.** A rollup that crashes over and over, or never comes
  back, must neither hang the harness nor be left running behind it; and a call of
  docker has no timeout.

### What makes each component correct

- Run plan: accepted data ends where a version stops; versions tile the heights;
  salts of different versions are disjoint.
- Resync: compares every snapshot, reports success only for a faithful replay,
  a mismatch only for a divergent one, never takes a handover for a crash loop,
  always returns.
- Soak run: reports early failures, succeeds only with the manager, keeps
  appended data contiguous, always returns.
- Data on disk: the verdict of a test or an append is about the recorded data and
  never about what other runs left; a successful setup ends where its versions
  stop, and its manual setup and its last version are its own.
- Managed process and container: stopped in order; nothing should outlive a run
  that returns (finding 6 is the exception), and a harness that is killed takes its
  manager along.
- Validation worker: no false alarm however its requests interleave with the
  blocks, and no rejection in the asserted block is forgiven.
- EVM workers: accounts, nonces and contracts never collide, and an update the
  rollup loses is noticed.
- Manual setup: succeeds only when every slot was saved and compared, both its
  batches were seen, and every past state gives the right supply.

`PROJECT.json` lists the hazards at their lines with the properties that cover
them, or a note on why none does.

## 2. Modules and how they correspond to the code

| module | models | proofs |
|---|---|---|
| `RunPlan` | heights, acceptance check, append boundary, migration counts, salts | `RunPlanProofs` |
| `ResyncVerify` (instances in `MCResyncVerify`) | the resync against node and manager | `ResyncVerifyProofs` |
| `ResyncContract` | what the resync promises, without node or subscription | refinement in `ResyncVerifyProofs` |
| `SoakRun` (instances in `MCSoakRun`) | the soak run in its three modes | `SoakRunProofs` |
| `DataLifecycle` (instances in `MCDataLifecycle`) | the files of successive setups and tests | `DataLifecycleProofs`, `DataSetupProofs` |
| `Sequencer` | the external sequencer as the workers see it | in `SoakWorkersProofs` |
| `StateValidation` | the validation worker | in `SoakWorkersProofs` |
| `EvmConsistency` | deployment and workers of the EVM contracts | in `SoakWorkersProofs` |
| `SoakWorkers` (instances in `MCSoakWorkers`) | both kinds of workers on one sequencer | `SoakWorkersProofs` |
| `SlotMonitor` | the monitor's streams and checks, and the node's faults | in `ManualSetupProofs` |
| `ManualSetup` | the manual setup with its monitor | `ManualSetupProofs` |
| `ManagedRollup` | harness, manager, node and container as processes | `ManagedRollupProofs` |

`ResyncVerify`, `SoakRun` and `DataLifecycle` extend `RunPlan`. `SoakWorkers`
composes `StateValidation` and `EvmConsistency`, which both extend `Sequencer`:
a step of one leaves the variables of the others alone. `ManualSetup` extends
`SlotMonitor`. Each proof module extends the module it is about; `DataSetupProofs`
extends `DataLifecycleProofs`, whose invariant it needs, and `RunPlanProofs`. One action is
one await of the harness, one of its file operations, or one step of its
environment. Operators named as mutants in a comment (`FetchFailsAdvancing`,
`FinishEarly`, ...) are plausible bugs of the definition that follows; nothing
uses them. `PROJECT.json` pairs each with the property that detects it.

The components meet through their outcomes. `SoakRun` has a background task that
ends with or without an error, whose inside is `SoakWorkers`; `DataLifecycle` has
a resync and a soak of one step per slot, whose insides are `ResyncVerify` (what
it may assume of it is `ResyncContract`) and `SoakRun`; `ManagedRollup` has the
whole run as a task that breaks with or without an error.

### ResyncVerify

`rec` is the recorded data: last slot, cumulative batch count per slot, slots
with a snapshot. `up`, `version`, `head` are the node; `root[s]` abstracts a
slot's state root to *recorded*, *patched* (by the next version's migration) or
*divergent* (inherited by all later slots); `badBody` is the set of slots whose
other content is wrong. `open`, `nextNote`, `lastNote` are the subscription: a
contiguous range of notifications that a closed stream may or may not deliver.
The harness's variables are those of the function: `checked` and `lastReconnect`
of the outer loop, `cursor` and `target` of the walk, `latestBatch`, and the
history variables `verified` and `fresh`. `pc` is the await it is at.
`ImplementsContract` instantiates `ResyncContract` with `matched` as the set of
verified slots and the verdict derived from the result: every step of the resync
compares the next snapshot, ends, or is invisible to its callers.

`VerifySlot` is one fetch with its comparison, `SkipMissing` and
`FinishAtMissing` are the two ways past a missing snapshot, `FetchFails` and
`StreamInterrupted` lead to `BeginReconnect`, the guard against crash loops.
`NodeReplay`, `NodeStop`, `Handover`, `NodeStart`, `NodeCrash` are the external
node and manager, modelled from how the harness and its comments rely on them. Each
recording says whether its replay may meet crashes and dropped streams (`MayCrash`).

### SoakRun

`Modes` selects setup from genesis, setup appending a version and the acceptance
test. `ends[s]` is the cumulative batch count after slot `s`; `task` is what each
background task does until it is joined; `saved` is the set of slots with a
snapshot. The select loop is the group `Select`, the handling of a slot
`HandleSlot`, the end `Teardown`; the bias of the select is in the guards (a
slot is received only while the manager runs and no task has ended).
`ForceStop` is `shutdown` and the timeout of `ensure_stopped` in one step, in
which the manager may still exit with success, or fail and leave its node up.
`ManagerExits` includes a manager that crashes over a running node, which nothing
stops afterwards; what is left running is `ManagedRollup`'s question, where the
processes and signals are modelled one by one. `GiveUp` is the early return that
drops the process handle. `reportable` is a history variable.

Throughput numbers, file contents, log output, and which snapshot variant (with
or without children) is saved are abstracted away.

### DataLifecycle

`base`, `wal`, `pbase`, `pwal` are `mock_da.sqlite` and
`persistent_mock_da.sqlite` with their `-wal` files, `snap` the snapshots,
`dirty` the rollup state directory, `baseline` the throughput file. A database is
the sequence of its slots, each stamped with the run that produced it; that stamp
tells histories apart. One slot may hold the batch that creates the manual setup's
token: `ManualSetup` looks only for it, as `do_manual_setup` checks only the token's
supply, so a leftover database of other batches passes. `Opened` says what SQLite makes of a base file with a
`-wal` file, its own or another one's. `Refuse` and `Prepare` are
`prepare_setup_run` and `prepare_test_run`; `RemoveStale`, `CopyBase`,
`CopySidecars` are `copy_persistent_mock_data`; `SaveBase` and `SaveSidecars`
are `save_mock_data`, whose failed rename of a `-wal` file is ignored.
`FailWithNode` and `FailWithoutNode` are an error or a kill between any two steps,
also in the middle of writing a file (`Torn`). `GrowSpec` and `ClearData` are the
users'.

### Sequencer, StateValidation, EvmConsistency, SoakWorkers

`Sequencer` orders what the workers rely on: a slot's notification, the start of
the next slot, the opening of its block, then the root and the heights in the
API. `diverged` is the fault the validation worker looks for: blocks executed in
another state than the API shows. In `StateValidation`, `DrainSlots` takes the newest
queued slot, `AskTrueSlot` and `AskHeights` are the two concurrent requests of
phase one, `WatchHeights` is phase two, `ReadRoot` and `SendAssertion` follow;
`TooLate` is the rejection that is forgiven. In `EvmConsistency` only the first
byte of a key is kept, with its wrapping addition; `SendDeployment`,
`ReceiveReceipt`, `WriteMetadata` are the deployment of the manual setup,
`ReadNonce`, `ReadValue` and the `Update...` actions a worker, `LoseUpdate` the
fault it looks for.

### SlotMonitor, ManualSetup

A slot is the sequence of its batches, a batch the sequence of its transactions.
`next` is the position of each of the four streams, `prev` and `snaps` are the
monitor's, `fault` what this node does wrong, at one slot: a stream that skips, a
notification with other batches, an answer by hash or about a past state that is
wrong, or the node going down. `SubscribeNext` is one subscription of the
constructor, `TakeSlots` is `get_next_slot` when its checks pass and
`MonitorRejects` when they do not. `ManualSetup` adds the transactions (`Send`),
the two waits, `FetchSlot` (`fetch_and_compare_slot`) and `CheckSupply`. That
finality lags one slot behind the head is the node's, as `get_next_slot` takes
it.

### ManagedRollup

`main` is `run_until_shutdown_signal`, `task` the run inside it, by the await it
is at; `manager`, `node` and `container` are the processes, `exit` how the manager
ended. `Fork`, `ArmDeathSignal`, `CheckParentAndExec`, `SpawnReturns` are the
spawn on Linux; `SoakReaps` and `WaitReaps` wait for the manager;
`WaitTimesOut`, `Sigterm`, `Sigkill` are `shutdown` and its timeouts, the last
one being a process that survives SIGKILL; `DropRollup` and `DropPostgres` are the
destructors, in their order; `Unwind` is an abort or a panic; `HarnessDies` is
SIGKILL or a crash of the harness. `HasId` is tokio's `Child::id`, which is gone
once the child has been waited for. Docker answers, fails or never answers
(`DockerReturns`): `docker_output` waits without a timeout, and while it does the
task's thread is blocked, so that no abort ends it. A node that was sent SIGKILL is
taken to be gone at once, although the destructor does not wait for it.

## 3. The runs

| run | question | result |
|---|---|---|
| `resync_handover` | two versions' data, divergent replay, handover, shutdown, and in one recording crashes and lost streams: types, no snapshot skipped, success and mismatch mean what they say, no handover is taken for a crash loop; does it implement `ResyncContract`, and always return? | holds |
| `resync_append_boundary` | does success on data ending at a boundary mean a faithful boundary slot? | violated, finding 1 |
| `resync_three_versions` | does the no-progress error mean that nothing was compared? | violated, finding 2 |
| `soak_modes` | verdict, contiguity and return of the soak in all modes, with every failure | holds |
| `soak_last_slot` | does a successful setup leave data up to its stop height? | violated, finding 3 |
| `soak_handover` | does a multi-version soak from genesis cross a handover? | violated, finding 4 |
| `data_lifecycle` | three setups and tests in a row, failing or killed anywhere: is each verdict about the recorded data, and does a setup's success mean its versions' data, with a manual setup and a last version of its own? | holds |
| `data_genesis` | does a setup from genesis start on an empty database? | violated, finding 5 |
| `soak_workers` | deployment, validation worker and two EVM workers on one sequencer: no false alarm, no fault overlooked, no collision | holds |
| `manual_setup` | the manual setup on a node with at most one fault: what success and rejection mean, and does it end? | holds |
| `managed_rollup` | processes and container with signals, timeouts, panics, kills and crashes: what is left behind, in which order, and does a signal end the run while docker answers? | holds |
| `managed_rollup_crash` | can cleanup always terminate the manager's whole subtree? | violated, finding 6 |

**Bounds.** Two blocks per version (three for the soak) are enough for a version
to have a first, a last and, with its gap slots, an empty block; two versions
give one handover, and the three-version instance two. `MCResyncVerify` lists
the recordings: a handover gap, an empty warm-up slot without a snapshot, a hole
inside the data and one after its last batch, all replayed without a crash, and one
with a missing first snapshot whose replay may crash at any moment. `NewSlots = 1` tells one slot past
the data apart, since every later slot looks alike to the code. The threshold
of ten for missing snapshots is 2 and the margin of fifteen near the end is 3,
so that each instance has slots on either side of both. `MaxEmpty` caps the slots
without a batch of a node; `MaxBadBodies` the wrong slots. The soak has one task,
which fails, ends or dies at any moment; its proofs are for any set of tasks.

`data_lifecycle` has three runs (`MaxRuns`): a setup, one that fails over its
remains, and an append or a test that meets what both left, of two versions. `MaxUnsaved = 1` lets a successful run lose its last slot's snapshot, as
finding 3 shows it may. `soak_workers` has three blocks and one contract of each
kind, so a pinned and an unpinned worker, with their real key bytes; the retry
limits 600, 20 and 5 are 2, since only reaching them or not matters. In `manual_setup`
a wait looks at three slots instead of ten (`WaitSlots`), enough for a batch to come in the
first, a middle, the last of them or none; the node is at most `MaxAhead = 2`
slots ahead, which lets slots pass between any two of the four subscriptions; it
has one fault, of any kind, at any slot. `managed_rollup` starts up to two nodes,
so that a handover is there to be interrupted. Only external events are capped.

**Deadlock** is checked in every run: a returned function stutters explicitly,
and between the runs of `DataLifecycle` its users' steps stay enabled.

**Fairness.** Weak fairness of the harness's own steps (the runtime polls its
future, every wait has a timeout or a source that is itself fair) and of the node
producing slots and stopping at its stop height. Nothing is assumed of crashes,
restarts after a crash, lost streams, background tasks or the signal; nor, in
`SoakRun`, of the manager, which need neither start a version nor exit, because the
soak's waits for it have timeouts. The resync's `Terminates` assumes that the manager
carries a handover through, and needs no restart of a crashed node: the API deadline
or the no-progress guard ends it. It does need the node to keep producing slots while
it is up, because `next_slot` has no timeout. The manual setup's `Terminates` assumes
the same of its node. `SignalEndsRun` assumes that the runtime polls `main` and the
task, that the teardown's waits run out (`TaskProgress`), and that a forked child
reaches its exec. Nothing is assumed of the manager, the node, or what the resync and
the soak wait for: after a signal the abort ends those. Docker may never answer, and
then the run does not end: `docker_output` blocks without a timeout, and the property
names that as the one exception.

## 4. What is proved

All theorems are checked by `tlapm` for every value of the constants that the
modules' named assumptions admit; TLC evaluates those assumptions on its
instances. Nothing else is assumed unless a theorem's statement says so.

`ResyncVerifyProofs`. `Inductive` is the conjunction of

- `TypeOK`;
- `StopInv`: a version replays nothing past the slot it stops at. Without it a
  migration could patch a slot that is not a boundary, or one already replayed
  upon;
- `ChainInv`: divergence is inherited, and only boundary slots are patched;
- `WalkInv`: everything the walk has left behind was compared, or is missing
  among the first slots. It contains `NoSnapshotSkipped`, which alone is not
  inductive, since a reconnect moves the cursor back to `checked`;
- `BatchInv`: the last batch stems from a snapshot that no missing one precedes;
- `VerifiedInv`: what was compared stays as compared, migrations excepted;
- `MismatchMeansDivergence`.

Each part has a lemma with one step per action. From it follow
`TypeCorrect`, `NoSnapshotIsSkipped` and `NoFalseMismatch` for all constants.
What success promises is `OkInv`, proved with more than one block per version
(`SpanAssumption`, an explicit hypothesis): with a single block the expected
batch number saturates to 0, which a run that has compared nothing also meets.
`OkCovers` and `FirstNewSlotIsRight` follow. `OkIsFaithful` adds `CompleteData`,
that the data extends past the last boundary; finding 1 shows that it is needed.

`ResyncImplementsContract` is the refinement, also under `SpanAssumption`: initial
states map to initial states (`InitImplements`), and every step to a comparison of
the next snapshot, an end, or a stutter (`StepImplements`). That comparisons come
in order is `WalkInv`'s; that success covers every batch is `OkInv`'s.

`RunPlanProofs`: versions tile the heights (`VersionsTile`); accepted data ends
where one of the last two versions stops (`AcceptedDataEndsAtAStop`); when setup
appends, the data ends exactly at the previous stop height and the new version
starts on the next one (`AppendStartsAtDataEnd`); salts are disjoint
(`SaltsAreDisjoint`, `AppendUsesFreshSalts`).

`SoakRunProofs`: `VerdictInv` has the types the verdict depends on; `StopInv` (a
manager that has succeeded has no node left, and a run succeeds only with its
success); `TaskInv` (tasks live between subscription and teardown); `ReportInv`,
which follows an inexcusable failure from the task to the loop's error or the
teardown's and into the outcome. `Unexcused` counts the slot in hand
(`Pending`): without it, counting that slot could move a recorded failure
into the lenient zone, and the invariant would not be inductive. From it follow
`SuccessIsClean` and `NoEarlyFailureIsLost`. `SlotInv` relates
the ledger, the batches counted and the snapshots: the slots of an append are
saved up to the one in hand, what is counted never passes the ledger's, and the
rollup never passes its stop height. From it follow `AppendedDataIsContiguous` and
`SoakTypeCorrect`, whose bound on the counted batches needs all of it.

`DataLifecycleProofs`: `TestInv` follows a test's restored copy file by file
(`Restoring`), so that what it opens is the durable MockDA whatever was there
before; `AppendInv` keeps the snapshots equal to the slots of the open MockDA
from the resync on, through every slot saved; `BaselineInv` ties the baseline
to the best setup; `PhaseInv` and `FilesInv` are what they need. From them follow
`TestsJudgeRecordedData`, `AppendsLeaveMatchingSnapshots`,
`BaselineIsAlwaysBest` and `DataTypeCorrect`, for any number of runs, versions and
blocks. They assume that the marks for a missing and a torn file are neither a
database nor a throughput (`MarksAreNoValues`).

`ManagedRollupProofs`: `ManagerInv` says where the manager's process can be at
each await of the task; `NodeInv` that a node has a manager, except under one that
crashed; `ContainerInv` and `ResultInv` do the same for the container and the
result. Each of them is inductive only with `ManagerInv`. From them follow
`ManagedRollupTypeCorrect`, `NoSurvivorsAreLeft`, `NodesHaveTheirDatabase`,
`ContainerIsRemoved`, `DeathStopsManager` and `SuccessMeansCleanEnd`, for any
number of nodes.

`FollowedHandoversAreBridged` (in `ResyncVerifyProofs`): without crashes, no handover
is taken for a crash loop, and a harness that has lost a subscription to one gets
another. `HandoverInv` says that the subscription then closes only at a stop, and that
a harness which has reconnected follows the last version, so that the guard against
crash loops is asked a second time by nobody. Its hypothesis `OneHandover` (at most
two versions) is needed: with three, finding 2 is a counterexample. It does not cover
the harness's first subscription (section 5, the observations).

`DataSetupProofs`: `SetupsGenerateTheirVersions`, that a successful setup ends at its
versions' stop height, has recorded the slot of a manual setup (its own, when it
regenerates), and has produced every batch of its last version itself when it
appends. Batches that a leftover database held before the token's are part of a
regeneration's data; the code does not look for them. `DurableInv` is the core: every
database in the durable MockDA's files holds no batch, or fewer slots than are
recorded (a leftover base whose `-wal` was not renamed), or is complete for at most
the current versions, with snapshots of all but its last `MaxUnsaved` slots and of the
token's, whichever of its two files a kill left. The resync of an append refuses the
first two. `PairInv` carries this through the renames and copies, for a working file
beside another file's `-wal`, and `RestoreInv` to the database an append opens;
`CountInv` bounds batches by slots; `GenesisProgress` and `AppendProgress` follow the
soak (its stop height, the token and its snapshot, the file the node was started on),
`Foreign` the slots of earlier runs. The acceptance check's
theorem `AppendStartsAtDataEnd` places the start of an append. The hypothesis
`SavedUpToTheVersion` says that a setup leaves fewer slots unsaved than a version
has blocks: `is_very_close_to_soak_test_end` forgives failures in the last fifteen
batches, and a version has 1000 blocks, or 30 in the short profile. Without it the
theorem is false, and TLC has the counterexample (`MaxUnsaved = BlocksPerVersion`): an
append takes the end of the snapshots for an earlier version's boundary, and finds its
own version's batches there.

`SoakWorkersProofs`: one invariant for each component. `SeqInv`: the heights the
API shows are behind the root it shows, and that behind the open block. `ValInv`
bounds what the validation worker has read by it (`seen <= vroot` when an assertion
is sent: the worker asserts a height that the root it reads has reached).
`EvmInv`: the contracts were deployed in order, with the deployers' next nonces;
until then no worker runs; and `Knows(w)` ties each worker's nonce and value to the
rollup's unless an update of its contract was lost. It is inductive because no two
of the workers' and deployers' keys are equal, byte wrapped or not (`KeyBytes`,
`WorkersApart`, from `EvmConstants`, which bounds the number of contracts). A step
of a component leaves the others' variables alone, so that `Ahead`, that heights
and slots never go back, is all that the workers' invariants ask of the sequencer.
From them follow the five invariants of the run and, as an action property,
`LossesAreNoticed`, for every number of contracts with keys of their own and every
limit.

`ManualSetupProofs`: `LedgerInv` and `PostedInv` describe the node (slots in a
chain, transactions posted in order and once); `StreamInv` the positions of the
streams: the two head streams go on together from the first slot taken, which
`TakenSlot` shows to be the first after the subscription although one stream may
skip. `FirstInv` and `SecondInv` say what the waits have found, and `SecondInv`
that the streams were aligned when the transfer was found, because the finalized
slot it is in was compared with the slot before the head. `SavedInv` and `LoopInv`
follow the snapshots through the two final loops. `BatchesFound` is the argument
that a wait which ran out is noticed: with one of the two slot numbers left at 0,
no run of answers passes the supply checks, because the first batch's own state, or
the two empty slots at the start, would have to answer wrongly and a node has one
fault. From it follow `SkewsAreNoticed`, `BatchesAreSeen` and, with
`SupplyAsExpected`, `SuccessesAreSound`; `RejectionsHaveACause` is part of the
invariant, one case for each check that rejects. `SetupTyped` includes the bound
`MaxHead` on the ledger, from the node's lead and the slots the waits look at
(`BoundInv`); the proof is for every `MaxAhead` and `WaitSlots`, the ten of the
code included.

**Only model-checked:** the liveness properties (`Terminates` of three modules and
`SignalEndsRun`), since fairness and ENABLED are beyond the prover here. The six
invariants that a run finds violated (section 5) are false and have no theorem;
every other invariant of a run has one.

## 5. Findings

1. *Boundary root in append mode* (`lib.rs:723`). The comment says the migrated
   root is verified through the next recorded slot. In append mode the data ends
   at the boundary, so there is none; a divergent migration is accepted.
2. *No progress although slots were compared* (`lib.rs:586`). The guard reads
   `checked`, which advances only per notification; with three versions two
   handovers may fall into the walk of one notification.
3. *Last slots unsaved* (`lib.rs:1053`). The select prefers the manager's exit to
   queued slots and forgives a failed fetch near the end; a setup can succeed
   without its last snapshots, and the next append refuses the data.
4. *Multi-version soak from genesis* (`lib.rs:1117`). The stream closes at the
   first handover while the manager runs; the run fails, although `setup.rs:301`
   promises a soak across all versions.
5. *A setup from genesis does not start from genesis* (`setup.rs:218`). Only the
   modes that replay recorded data remove a leftover `mock_da.sqlite`. A test, and
   a setup that failed, leave one behind; the next setup from genesis opens it and
   replays its blocks. `do_manual_setup` fails if they hold the token
   (`setup.rs:491-492`), as a test's copy does; otherwise the setup goes on upon them.
6. *A crashed manager's node is orphaned* (`lib.rs:824`, `854`, `877`). Once the soak
   has waited for the manager, `child.id()` is `None` and no part of the teardown
   signals the process group; the node of a manager that crashed runs on, although
   `versioned_setup.rs:747-748` says that cleanup can always terminate the subtree.
   `NoSurvivors` and `PostgresOutlivesNode` exclude exactly that case.

The `findings` of `PROJECT.json` quote the contradicting lines.

Three more observations. The supply check of the manual setup takes for granted that
the mint and the transfer are posted in one slot (`PostedTogether`); where they are
not, it rejects a sound rollup, or, with a state that answers wrongly besides, accepts
one (`SuccessIsSound` and `BatchesWereSeen` name the condition). A version that stops
between the probe of its API and the call that subscribes ends the resync in an error
(`lib.rs:599-601`, `633`: the call is not retried), so that not every interruption is
"treated as version handovers and bridged" (`lib.rs:608-609`); with one handover, only
the first subscription can meet it. And a call of docker that never returns holds the
run for ever, whatever signals it receives (`lib.rs:170-175`).

## 6. What is not modelled

The SDK (node, sequencer, ledger, module system), the rollup manager, SQLite,
docker and the kernel's signals appear only as the environment the harness relies
on, and are marked external in `PROJECT.json`. Building binaries, rendering
configurations, provers, client examples and compose files are I/O or
configuration. Inside the modelled functions the throughput arithmetic is left
out, and so is `--on-existing-rollup-state=ignore`, under which the node decides
what to make of another ledger. Runtime authentication and delegation dispatch to
the module system without a state of their own, and node discovery is one loop
around an external cluster service: whether file, nginx and cluster agree again
after a failed reload depends on whether that service calls again.

## 7. Plan

Every invariant and safety property of a passing run has a theorem. What is left, in
this order:

1. **More action properties**: that a walk never goes back past what it has compared,
   that the manual setup never rewrites a snapshot it has compared.
2. **The parts that meet.** That what `DataLifecycle` takes of its resync is implied
   by `ResyncContract`, and what `SoakRun` takes of a task by `SoakWorkers`.
3. **Hazards without a property** (`PROJECT.json`): the slots between the manual
   setup's last snapshot and the soak's subscription.
