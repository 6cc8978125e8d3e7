------------------------------ MODULE SoakRun ------------------------------
(***************************************************************************)
(* run_soak (scripts/acceptance-test/src/lib.rs) and the steps of setup    *)
(* and of the acceptance test that lead to it: the harness drives load at  *)
(* a rollup with background tasks, follows the rollup's slots, saves their *)
(* snapshots, and decides from the way the rollup, the tasks and the slot  *)
(* stream end whether the run succeeded.                                   *)
(*                                                                         *)
(* Everything runs concurrently: the node and its manager, the background  *)
(* tasks, and the harness, whose biased select prefers the manager's exit  *)
(* to a task's result, a task's result to a slot, and a slot to the        *)
(* shutdown signal.  A step of the harness is one await.                   *)
(***************************************************************************)
EXTENDS Integers, FiniteSets, RunPlan

CONSTANTS
    NumVersions,       \* versions of the spec
    BlocksPerVersion,
    NearEnd,           \* is_very_close_to_soak_test_end's margin; 15
    WarmupBatches,     \* throughput_start_batch of a single-version setup; 3
    Modes,             \* the kinds of run: see Kinds
    Tasks,             \* the background tasks
    MaxEmpty,          \* bound: slots without a batch
    MayCrash           \* whether node, streams and tasks fail of themselves

\* setup from genesis, setup appending a version, and the acceptance test.
Kinds == {"genesis", "append", "test"}

ASSUME SoakConstants ==
    /\ NumVersions \in Nat \ {0}
    /\ BlocksPerVersion \in Nat \ {0}
    /\ NearEnd \in Nat /\ WarmupBatches \in Nat /\ MaxEmpty \in Nat
    /\ Modes \subseteq Kinds
    /\ "append" \in Modes => NumVersions > 1
    /\ IsFiniteSet(Tasks)
    /\ MayCrash \in BOOLEAN

VARIABLES
    mode,
    \* the rollup
    manager,      \* the manager process: running, or how it exited
    up, version, head,
    ends,         \* cumulative batch count at the end of each slot
    \* the slot subscription
    open, nextNote, lastNote,
    \* the background tasks
    task,         \* what each does, or how it ended, until joined
    reportable,   \* a task panicked, or failed clearly before the end (history)
    \* the harness
    pc,
    slot,         \* the slot being handled
    counting,     \* num_previous_txs.is_some()
    numBatches,   \* num_soak_batches
    backfillFrom, \* snapshot_backfill_from, or None
    firstNew,     \* the first slot of the appended version (append mode)
    saved,        \* slots with a snapshot on disk
    primary,      \* the primary error, or "none"
    lateError,    \* a task's error was collected during teardown
    stopRequested,
    outcome

rollupVars  == <<manager, up, version, head, ends>>
streamVars  == <<open, nextNote, lastNote>>
taskVars    == <<task, reportable>>
countVars   == <<counting, numBatches>>
resultVars  == <<primary, lateError, outcome>>
harnessVars == <<pc, slot, countVars, backfillFrom, saved, resultVars>>
vars        == <<mode, rollupVars, streamVars, taskVars, harnessVars, firstNew,
                 stopRequested>>

None       == -1
TaskStates == {"idle", "running", "failed", "panicked", "finished", "joined"}
Failures   == {"not_ready", "subscribe_failed", "rollup_failed", "task_failed",
               "stream_failed", "stream_closed", "fetch_failed",
               "backfill_failed", "shutdown"}
Labels     == {"deploying", "waiting", "subscribing", "select", "fetching",
               "counting", "backfilling", "saving", "ended", "aborting",
               "stopping", "done"}
-----------------------------------------------------------------------------
(* The plan of the run. *)

Saving == mode # "test"

\* The acceptance test runs the last version one span longer.
RollupStopHeight ==
    IF mode = "test"
    THEN ExtendedStopHeight(NumVersions, BlocksPerVersion, BlocksPerVersion)
    ELSE StopHeight(NumVersions, BlocksPerVersion)

\* run_setup starts after the previous version's last batch, the acceptance
\* test after the last recorded one.
ThroughputStart ==
    IF mode = "test"
    THEN ExpectedSetupBatches(StopHeight(NumVersions, BlocksPerVersion))
    ELSE IF NumVersions = 1
         THEN WarmupBatches
         ELSE SaturatingSub(StartHeight(NumVersions, BlocksPerVersion), 1)

Target == SaturatingSub(RollupStopHeight, ThroughputStart)

VeryCloseToEnd == numBatches + NearEnd > Target

\* Mutant: slots without a batch are counted too.
CarriesAlways(s) == ends[s] >= ends[s - 1]

Carries(s) == ends[s] # ends[s - 1]
-----------------------------------------------------------------------------
(* The rollup manager, its node and the background tasks. *)

AtStopHeight ==
    ends[head] >= IF version < NumVersions
                  THEN StopHeight(version, BlocksPerVersion)
                  ELSE RollupStopHeight

NodeSlot ==
    /\ up /\ ~AtStopHeight
    /\ \E batch \in {0, 1} :
          /\ batch = 0 => head - ends[head] < MaxEmpty
          /\ ends' = [s \in 0..(head + 1) |->
                         IF s = head + 1 THEN ends[head] + batch ELSE ends[s]]
    /\ head' = head + 1
    /\ lastNote' = IF open THEN head + 1 ELSE lastNote
    /\ UNCHANGED <<mode, manager, up, version, open, nextNote, taskVars,
                   harnessVars, firstNew, stopRequested>>

NodeStop ==
    /\ up
    /\ AtStopHeight \/ MayCrash
    /\ up' = FALSE /\ open' = FALSE
    /\ UNCHANGED <<mode, manager, version, head, ends, nextNote, lastNote,
                   taskVars, harnessVars, firstNew, stopRequested>>

\* The manager starts the next version, or the same one after a crash.
NodeStart ==
    /\ manager = "running" /\ ~up
    /\ AtStopHeight => version < NumVersions
    /\ version' = IF AtStopHeight THEN version + 1 ELSE version
    /\ up' = TRUE
    /\ UNCHANGED <<mode, manager, head, ends, streamVars, taskVars, harnessVars,
                   firstNew, stopRequested>>

\* It exits with success once the last version has stopped, and with an error
\* when a version or its migration failed.  It may also crash over a running
\* node, which goes on without it.
ManagerExits ==
    /\ manager = "running"
    /\ \/ manager' = "succeeded" /\ ~up /\ AtStopHeight /\ version = NumVersions
       \/ manager' = "failed" /\ MayCrash
    /\ UNCHANGED <<mode, up, version, head, ends, streamVars, taskVars,
                   harnessVars, firstNew, stopRequested>>

StreamDrops ==
    /\ MayCrash /\ open
    /\ open' = FALSE
    /\ UNCHANGED <<mode, rollupVars, nextNote, lastNote, taskVars, harnessVars,
                   firstNew, stopRequested>>

\* A failure is early when the run is not near its end even once the slot
\* being handled has been counted.
TaskFails(t) ==
    /\ task[t] = "running" /\ (~up \/ MayCrash)
    /\ task' = [task EXCEPT ![t] = "failed"]
    /\ reportable' = (reportable \/ numBatches + 1 + NearEnd <= Target)
    /\ UNCHANGED <<mode, rollupVars, streamVars, harnessVars, firstNew,
                   stopRequested>>

TaskPanics(t) ==
    /\ task[t] = "running" /\ MayCrash
    /\ task' = [task EXCEPT ![t] = "panicked"]
    /\ reportable' = TRUE
    /\ UNCHANGED <<mode, rollupVars, streamVars, harnessVars, firstNew,
                   stopRequested>>

TaskFinishes(t) ==
    /\ task[t] = "running"
    /\ task' = [task EXCEPT ![t] = "finished"]
    /\ UNCHANGED <<mode, rollupVars, streamVars, reportable, harnessVars,
                   firstNew, stopRequested>>

RequestShutdown ==
    /\ ~stopRequested
    /\ stopRequested' = TRUE
    /\ UNCHANGED <<mode, rollupVars, streamVars, taskVars, harnessVars, firstNew>>
-----------------------------------------------------------------------------
(* Before the select loop.  A failure here drops the rollup process, which *)
(* kills its whole process group: the manager, crashed or not, has not     *)
(* been waited for yet, so that its process id is still known.             *)

GiveUp(why) ==
    /\ pc' = "done" /\ outcome' = why
    /\ manager' = IF manager = "running" THEN "failed" ELSE manager
    /\ up' = FALSE /\ open' = FALSE
    /\ UNCHANGED <<version, head, ends, nextNote, lastNote>>

\* do_manual_setup has compared and saved the first slots, and deploys its
\* contracts while the rollup goes on.
ContractsDeployed ==
    /\ pc = "deploying" /\ up
    /\ pc' = "subscribing"
    /\ UNCHANGED <<mode, rollupVars, streamVars, taskVars, slot, countVars,
                   backfillFrom, saved, resultVars, firstNew, stopRequested>>

\* wait_for_sequencer_ready: any version's sequencer that has caught up.
SequencerReady ==
    /\ pc = "waiting" /\ up
    /\ pc' = "subscribing"
    /\ UNCHANGED <<mode, rollupVars, streamVars, taskVars, slot, countVars,
                   backfillFrom, saved, resultVars, firstNew, stopRequested>>

\* Mutant: the wait has no deadline.
NeverReadyUntilShutdown ==
    /\ pc \in {"deploying", "waiting"} /\ stopRequested
    /\ GiveUp("shutdown")
    /\ UNCHANGED <<mode, taskVars, slot, countVars, backfillFrom, saved, primary,
                   lateError, firstNew, stopRequested>>

NeverReady ==
    /\ pc \in {"deploying", "waiting"}
    /\ \/ (~up \/ MayCrash) /\ GiveUp("not_ready")
       \/ stopRequested /\ GiveUp("shutdown")
    /\ UNCHANGED <<mode, taskVars, slot, countVars, backfillFrom, saved, primary,
                   lateError, firstNew, stopRequested>>

\* The soak subscribes to the slots and spawns the background tasks.
Subscribe ==
    /\ pc = "subscribing" /\ up
    /\ open' = TRUE /\ nextNote' = head + 1 /\ lastNote' = head
    /\ task' = [t \in Tasks |-> "running"]
    /\ pc' = "select"
    /\ UNCHANGED <<mode, rollupVars, reportable, slot, countVars, backfillFrom,
                   saved, resultVars, firstNew, stopRequested>>

SubscribeFails ==
    /\ pc = "subscribing" /\ (~up \/ MayCrash)
    /\ GiveUp("subscribe_failed")
    /\ UNCHANGED <<mode, taskVars, slot, countVars, backfillFrom, saved, primary,
                   lateError, firstNew, stopRequested>>
-----------------------------------------------------------------------------
(* The select loop. *)

Break(why) == pc' = "aborting" /\ primary' = why

Returned   == {"failed", "panicked", "finished"}
TaskEnded  == \E t \in Tasks : task[t] \in Returned
SlotReady  == nextNote <= lastNote
StreamOver == ~open

RollupExited ==
    /\ pc = "select" /\ manager # "running"
    /\ Break(IF manager = "succeeded" THEN "none" ELSE "rollup_failed")
    /\ UNCHANGED <<mode, rollupVars, streamVars, taskVars, slot, countVars,
                   backfillFrom, saved, lateError, outcome, firstNew, stopRequested>>

\* A failure near the end is taken for the rollup's shutdown, a panic never is.
Counts(t) == task[t] = "panicked" \/ (task[t] = "failed" /\ ~VeryCloseToEnd)

\* Mutant: a failed task does not end the run.
JoinTaskIgnoring(t) ==
    /\ pc = "select" /\ manager = "running"
    /\ task[t] \in Returned
    /\ task' = [task EXCEPT ![t] = "joined"]
    /\ UNCHANGED <<mode, rollupVars, streamVars, reportable, harnessVars,
                   firstNew, stopRequested>>

JoinTask(t) ==
    /\ pc = "select" /\ manager = "running"
    /\ task[t] \in Returned
    /\ task' = [task EXCEPT ![t] = "joined"]
    /\ IF Counts(t)
       THEN Break("task_failed")
       ELSE UNCHANGED <<pc, primary>>
    /\ UNCHANGED <<mode, rollupVars, streamVars, reportable, slot, countVars,
                   backfillFrom, saved, lateError, outcome, firstNew, stopRequested>>

Selecting == pc = "select" /\ manager = "running" /\ ~TaskEnded

\* Only a slot that carries a batch is counted.
ReceiveSlot ==
    /\ Selecting /\ SlotReady
    /\ slot' = nextNote
    /\ nextNote' = nextNote + 1
    /\ pc' = IF Carries(nextNote) THEN "fetching" ELSE "backfilling"
    /\ UNCHANGED <<mode, rollupVars, open, lastNote, taskVars, countVars,
                   backfillFrom, saved, resultVars, firstNew, stopRequested>>

\* The stream fails, or ends without an error.
StreamEnds ==
    /\ Selecting /\ StreamOver
    /\ \/ Break("stream_failed")
       \/ pc' = "ended" /\ UNCHANGED primary
    /\ UNCHANGED <<mode, rollupVars, streamVars, taskVars, slot, countVars,
                   backfillFrom, saved, lateError, outcome, firstNew, stopRequested>>

ShutdownSelected ==
    /\ Selecting /\ ~SlotReady /\ ~StreamOver /\ stopRequested
    /\ Break("shutdown")
    /\ UNCHANGED <<mode, rollupVars, streamVars, taskVars, slot, countVars,
                   backfillFrom, saved, lateError, outcome, firstNew, stopRequested>>

\* try_wait, after the stream ended without an error.
QueryRollup ==
    /\ pc = "ended"
    /\ Break(IF manager = "failed" THEN "rollup_failed"
             ELSE IF manager = "succeeded" \/ VeryCloseToEnd THEN "none"
             ELSE "stream_closed")
    /\ UNCHANGED <<mode, rollupVars, streamVars, taskVars, slot, countVars,
                   backfillFrom, saved, lateError, outcome, firstNew, stopRequested>>

BatchNumber == ends[slot] - 1

CountBatch(tracked) ==
    /\ counting' = tracked
    /\ numBatches' = IF BatchNumber > ThroughputStart /\ tracked
                     THEN numBatches + 1 ELSE numBatches

\* The batch of the slot was fetched; the first one past the start needs the
\* reference batch as well.
FetchBatch ==
    /\ pc = "fetching" /\ up
    /\ IF BatchNumber >= ThroughputStart /\ ~counting
       THEN pc' = "counting" /\ UNCHANGED countVars
       ELSE pc' = "backfilling" /\ CountBatch(counting)
    /\ UNCHANGED <<mode, rollupVars, streamVars, taskVars, slot, backfillFrom,
                   saved, resultVars, firstNew, stopRequested>>

\* Near the end the rollup is taken to have shut down; this slot's snapshot is
\* not saved.
FetchBatchFails ==
    /\ pc = "fetching" /\ (~up \/ MayCrash)
    /\ Break(IF VeryCloseToEnd THEN "none" ELSE "fetch_failed")
    /\ UNCHANGED <<mode, rollupVars, streamVars, taskVars, slot, countVars,
                   backfillFrom, saved, lateError, outcome, firstNew, stopRequested>>

FetchReference ==
    /\ pc = "counting" /\ up
    /\ pc' = "backfilling"
    /\ CountBatch(TRUE)
    /\ UNCHANGED <<mode, rollupVars, streamVars, taskVars, slot, backfillFrom,
                   saved, resultVars, firstNew, stopRequested>>

FetchReferenceFails ==
    /\ pc = "counting" /\ (~up \/ MayCrash)
    /\ Break("fetch_failed")
    /\ UNCHANGED <<mode, rollupVars, streamVars, taskVars, slot, countVars,
                   backfillFrom, saved, lateError, outcome, firstNew, stopRequested>>

\* Mutant: the gap before the first observed slot is not filled.
MissingNone == {}

\* The slots still to be backfilled before the slot being handled.
Missing == IF backfillFrom = None THEN {} ELSE (backfillFrom..(slot - 1)) \ saved

BackfillSlot ==
    /\ pc = "backfilling" /\ up
    /\ \E s \in Missing :
          /\ \A t \in Missing : s <= t
          /\ saved' = saved \cup {s}
    /\ UNCHANGED <<mode, rollupVars, streamVars, taskVars, pc, slot, countVars,
                   backfillFrom, resultVars, firstNew, stopRequested>>

BackfillFails ==
    /\ pc = "backfilling" /\ Missing # {} /\ (~up \/ MayCrash)
    /\ Break("backfill_failed")
    /\ UNCHANGED <<mode, rollupVars, streamVars, taskVars, slot, countVars,
                   backfillFrom, saved, lateError, outcome, firstNew, stopRequested>>

BackfillDone ==
    /\ pc = "backfilling" /\ Missing = {}
    /\ backfillFrom' = None
    /\ pc' = "saving"
    /\ UNCHANGED <<mode, rollupVars, streamVars, taskVars, slot, countVars, saved,
                   resultVars, firstNew, stopRequested>>

\* Every few slots the snapshot is the slot fetched again with its children,
\* and the notified one when that fails; the slot is saved either way.
SaveSlot ==
    /\ pc = "saving"
    /\ saved' = IF Saving THEN saved \cup {slot} ELSE saved
    /\ pc' = "select"
    /\ UNCHANGED <<mode, rollupVars, streamVars, taskVars, slot, countVars,
                   backfillFrom, resultVars, firstNew, stopRequested>>
-----------------------------------------------------------------------------
(* Teardown. *)

\* Mutant: what the tasks returned after the loop is thrown away.
AbortTasksBlindly ==
    /\ pc = "aborting"
    /\ task' = [t \in Tasks |-> "joined"]
    /\ pc' = "stopping"
    /\ UNCHANGED <<mode, rollupVars, streamVars, reportable, slot, countVars,
                   backfillFrom, saved, resultVars, firstNew, stopRequested>>

\* abort_all: tasks still running are cancelled; the errors of those that
\* had already ended count by the same rule.
AbortTasks ==
    /\ pc = "aborting"
    /\ lateError' = (\E t \in Tasks : Counts(t))
    /\ task' = [t \in Tasks |-> "joined"]
    /\ pc' = "stopping"
    /\ UNCHANGED <<mode, rollupVars, streamVars, reportable, slot, countVars,
                   backfillFrom, saved, primary, outcome, firstNew, stopRequested>>

\* shutdown after an error, and ensure_stopped when its wait times out, signal
\* the process group of a manager that has not been waited for yet, and return
\* when the manager has exited.  It may report success, its node stopped; or it
\* fails, and its node may be up still: only SIGTERM may have been sent.
ForceStop ==
    /\ pc = "stopping" /\ manager = "running"
    /\ \/ manager' = "succeeded" /\ up' = FALSE
       \/ manager' = "failed" /\ up' \in {up, FALSE}
    /\ open' = (open /\ up')
    /\ UNCHANGED <<mode, version, head, ends, nextNote, lastNote, taskVars,
                   harnessVars, firstNew, stopRequested>>

\* Mutant: the verdict does not wait for the rollup to stop.
FinishEarly ==
    /\ pc = "stopping"
    /\ pc' = "done"
    /\ outcome' = IF primary # "none" THEN primary
                  ELSE IF lateError THEN "task_failed" ELSE "ok"
    /\ UNCHANGED <<mode, rollupVars, streamVars, taskVars, slot, countVars,
                   backfillFrom, saved, primary, lateError, firstNew, stopRequested>>

\* Neither shutdown nor ensure_stopped signals the group of a manager that the
\* select loop has reaped: the node of one that crashed is left as it is.
Finish ==
    /\ pc = "stopping" /\ manager # "running"
    /\ pc' = "done"
    /\ outcome' = IF primary # "none" THEN primary
                  ELSE IF lateError THEN "task_failed"
                  ELSE IF manager = "failed" THEN "rollup_failed" ELSE "ok"
    /\ UNCHANGED <<mode, rollupVars, streamVars, taskVars, slot, countVars,
                   backfillFrom, saved, primary, lateError, firstNew, stopRequested>>
-----------------------------------------------------------------------------
\* A ledger of one slot per batch, after the genesis slot.
DenseEnds(n) == [s \in 0..n |-> s]

\* From genesis the manual setup has saved the slots so far, the first batch
\* among them; otherwise the recorded data has just been verified, and the
\* version that ended it may still be up.
Init ==
    /\ mode \in Modes
    /\ manager = "running" /\ up = TRUE
    /\ IF mode = "genesis"
       THEN version = 1 /\ head = 1
       ELSE IF mode = "append"
       THEN version = NumVersions - 1 /\ head = version * BlocksPerVersion
       ELSE version = NumVersions /\ head = version * BlocksPerVersion
    /\ ends = DenseEnds(head)
    /\ open = FALSE /\ nextNote = 1 /\ lastNote = 0
    /\ task = [t \in Tasks |-> "idle"] /\ reportable = FALSE
    /\ pc = IF mode = "genesis" THEN "deploying" ELSE "waiting"
    /\ slot = 0 /\ counting = FALSE /\ numBatches = 0
    /\ firstNew = head + 1
    /\ backfillFrom = IF mode = "append" THEN firstNew ELSE None
    /\ saved = 0..head
    /\ primary = "none" /\ lateError = FALSE /\ outcome = "running"
    /\ stopRequested = FALSE

Rollup == NodeSlot \/ NodeStop \/ NodeStart \/ ManagerExits

Background == \E t \in Tasks : TaskFails(t) \/ TaskPanics(t) \/ TaskFinishes(t)

Prepare ==
    ContractsDeployed \/ SequencerReady \/ NeverReady \/ Subscribe \/ SubscribeFails

Select ==
    \/ RollupExited \/ (\E t \in Tasks : JoinTask(t))
    \/ ReceiveSlot \/ StreamEnds \/ ShutdownSelected \/ QueryRollup

HandleSlot ==
    \/ FetchBatch \/ FetchBatchFails \/ FetchReference \/ FetchReferenceFails
    \/ BackfillSlot \/ BackfillFails \/ BackfillDone \/ SaveSlot

Teardown == AbortTasks \/ ForceStop \/ Finish

Finished == pc = "done" /\ UNCHANGED vars

Next ==
    \/ Rollup \/ StreamDrops \/ Background \/ RequestShutdown
    \/ Prepare \/ Select \/ HandleSlot \/ Teardown
    \/ Finished

Spec == Init /\ [][Next]_vars

(***************************************************************************)
(* DA keeps producing blocks, a node at its stop height stops, and the     *)
(* runtime polls the harness, whose waits for the rollup to stop all have  *)
(* a timeout.  Nothing is assumed of the manager, neither that it starts a *)
(* version nor that it exits, of the tasks, of crashes or of the signal.   *)
(***************************************************************************)
Fairness ==
    /\ WF_vars(NodeSlot) /\ WF_vars(AtStopHeight /\ NodeStop)
    /\ WF_vars(Prepare \/ Select \/ HandleSlot \/ Teardown)

FairSpec == Spec /\ Fairness
-----------------------------------------------------------------------------
TypeOK ==
    /\ mode \in Modes
    /\ manager \in {"running", "succeeded", "failed"}
    /\ up \in BOOLEAN /\ version \in 1..NumVersions /\ head \in Nat
    /\ ends \in [0..head -> 0..RollupStopHeight]
    /\ open \in BOOLEAN /\ nextNote \in 1..(head + 1) /\ lastNote \in 0..head
    /\ task \in [Tasks -> TaskStates] /\ reportable \in BOOLEAN
    /\ pc \in Labels
    /\ slot \in 0..head /\ counting \in BOOLEAN /\ numBatches \in 0..SaturatingSub(Target, 1)
    /\ firstNew \in 1..(head + 1) /\ backfillFrom \in {None, firstNew}
    /\ saved \subseteq 0..head
    /\ primary \in Failures \cup {"none"} /\ lateError \in BOOLEAN
    /\ stopRequested \in BOOLEAN
    /\ outcome \in Failures \cup {"running", "ok"}

\* Appended data has no hole: whatever slot the run first observes, and
\* however it ends, the snapshots from the new version's first slot are
\* contiguous.
AppendIsContiguous ==
    mode = "append" => \A t \in saved : \A s \in firstNew..t : s \in saved

\* A background task that panics, or fails clearly before the end, fails the
\* run, even when the rollup exits before the task's result is looked at.
EarlyFailureIsReported == reportable => outcome # "ok"

\* Success means that the manager reported success over a node that has stopped,
\* even when the loop was left because the end was near.
OkMeansCleanStop == outcome = "ok" => manager = "succeeded" /\ ~up

\* A successful setup leaves data that ends at its stop height, as the next
\* run's plan requires.
OkDataReachesStopHeight ==
    outcome = "ok" /\ Saving => \E s \in saved : ends[s] = RollupStopHeight

\* A setup from genesis runs its soak across all versions: the stop of a
\* version before the last does not end it.
SoakCrossesHandovers ==
    outcome = "stream_closed" => version = NumVersions \/ mode # "genesis"

\* The run returns, however the rollup, its streams and the tasks fail.
Terminates == <>(pc = "done")
=============================================================================
