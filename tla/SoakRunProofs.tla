--------------------------- MODULE SoakRunProofs ---------------------------
(***************************************************************************)
(* Proofs about SoakRun, for every number of versions, span, margin near   *)
(* the end, set of tasks and mode: what the verdict of a soak run says of  *)
(* the rollup and of the background tasks.                                 *)
(***************************************************************************)
EXTENDS SoakRun, TLAPS

\* The part of the type invariant that the verdict depends on.
VerdictType ==
    /\ mode \in Modes
    /\ manager \in {"running", "succeeded", "failed"}
    /\ task \in [Tasks -> TaskStates]
    /\ pc \in Labels
    /\ numBatches \in Nat
    /\ primary \in Failures \cup {"none"}
    /\ outcome \in Failures \cup {"running", "ok"}

\* A manager reports success only over a node that has stopped, which nothing
\* starts again; a run that has returned has outlived its manager.
StopInv ==
    /\ manager = "succeeded" => ~up
    /\ pc = "done" => manager # "running"
    /\ pc # "done" => outcome = "running"
    /\ outcome = "ok" => manager = "succeeded"

\* The tasks run from the subscription to the teardown.
TaskInv ==
    /\ pc \in {"deploying", "waiting", "subscribing"} =>
          \A t \in Tasks : task[t] = "idle"
    /\ pc \in {"stopping", "done"} => \A t \in Tasks : task[t] # "running"

\* The slot being handled may still be counted.
Pending == IF pc \in {"fetching", "counting"} THEN 1 ELSE 0

\* A task whose result cannot be excused, whatever is counted before it is
\* joined: as long as it is there, no further slot is taken.
Unexcused(t) ==
    \/ task[t] = "panicked"
    \/ task[t] = "failed" /\ numBatches + Pending + NearEnd <= Target

InLoop == {"select", "fetching", "counting", "backfilling", "saving", "ended"}

\* A failure that must be reported is carried by the task itself, then by the
\* loop's error or the teardown's, and in the end by the outcome.
ReportInv ==
    reportable =>
        /\ pc \in InLoop \cup {"aborting", "stopping", "done"}
        /\ pc \in InLoop => \E t \in Tasks : Unexcused(t)
        /\ pc = "aborting" => primary # "none" \/ \E t \in Tasks : Unexcused(t)
        /\ pc = "stopping" => primary # "none" \/ lateError
        /\ pc = "done" => outcome # "ok"

VerdictInv == VerdictType /\ StopInv /\ TaskInv /\ ReportInv
-----------------------------------------------------------------------------
\* The number of batches a run is to count is a number.
LEMMA TargetIsNatural == VerdictType => Target \in Nat
<1> SUFFICES ASSUME VerdictType PROVE Target \in Nat
  OBVIOUS
<1>1. NumVersions * BlocksPerVersion \in Nat /\ BlocksPerVersion \in Nat
  BY SoakConstants
<1>2. RollupStopHeight \in Nat
  BY <1>1 DEF RollupStopHeight, ExtendedStopHeight, StopHeight
<1>3. StartHeight(NumVersions, BlocksPerVersion) \in Nat
  <2>1. NumVersions # 1 => (NumVersions - 1) * BlocksPerVersion \in Nat
    <3>1. NumVersions - 1 \in Nat
      BY SoakConstants
    <3>2. \A a, b \in Nat : a * b \in Nat
      OBVIOUS
    <3>3. QED
      BY <1>1, <3>1, <3>2
  <2>2. QED
    BY <2>1 DEF StartHeight
<1>4. ThroughputStart \in Nat
  BY <1>1, <1>3, SoakConstants
     DEF ThroughputStart, ExpectedSetupBatches, SaturatingSub, StopHeight
<1>5. QED
  BY <1>2, <1>4 DEF Target, SaturatingSub

\* A task that cannot be excused counts when it is joined.
LEMMA UnexcusedCounts ==
    ASSUME VerdictType, NEW t \in Tasks, Unexcused(t)
    PROVE  Counts(t)
<1>1. Target \in Nat /\ numBatches \in Nat /\ NearEnd \in Nat /\ Pending \in Nat
  BY TargetIsNatural, SoakConstants DEF VerdictType, Pending
<1>2. numBatches + Pending + NearEnd <= Target => ~VeryCloseToEnd
  BY <1>1 DEF VeryCloseToEnd
<1>3. QED
  BY <1>2 DEF Unexcused, Counts

\* The mode of a run and the plan that follows from it never change.
LEMMA PlanFixed == [Next]_vars => mode' = mode /\ Target' = Target
<1> SUFFICES ASSUME [Next]_vars PROVE mode' = mode
  BY DEF Target, RollupStopHeight, ThroughputStart
<1> USE DEF vars
<1>1. CASE Rollup \/ StreamDrops \/ Background \/ RequestShutdown \/ Prepare
  BY <1>1 DEF Rollup, NodeSlot, NodeStop, NodeStart, ManagerExits, StreamDrops,
     Background, TaskFails, TaskPanics, TaskFinishes, RequestShutdown, Prepare,
     ContractsDeployed, SequencerReady, NeverReady, Subscribe, SubscribeFails
<1>2. CASE Select
  BY <1>2 DEF Select, RollupExited, JoinTask, ReceiveSlot, StreamEnds,
     ShutdownSelected, QueryRollup
<1>3. CASE HandleSlot
  BY <1>3 DEF HandleSlot, FetchBatch, FetchBatchFails, FetchReference,
     FetchReferenceFails, BackfillSlot, BackfillFails, BackfillDone, SaveSlot
<1>4. CASE Teardown \/ Finished \/ UNCHANGED vars
  BY <1>4 DEF Teardown, AbortTasks, ForceStop, Finish, Finished
<1>5. QED
  BY <1>1, <1>2, <1>3, <1>4 DEF Next

\* The initial states satisfy the invariant.
LEMMA InitVerdict == Init => VerdictInv
<1> SUFFICES ASSUME Init PROVE VerdictInv
  OBVIOUS
<1>1. VerdictType
  BY DEF Init, VerdictType, TaskStates, Labels, Failures
<1>2. StopInv /\ TaskInv
  BY DEF Init, StopInv, TaskInv
<1>3. ReportInv
  BY DEF Init, ReportInv
<1>4. QED
  BY <1>1, <1>2, <1>3 DEF VerdictInv

\* Every step keeps the types.
LEMMA TypeStep == VerdictType /\ [Next]_vars => VerdictType'
<1> SUFFICES ASSUME VerdictType, [Next]_vars PROVE VerdictType'
  OBVIOUS
<1>0. mode' \in Modes
  BY PlanFixed DEF VerdictType
<1>1. CASE Rollup \/ StreamDrops \/ RequestShutdown
  <2>1. UNCHANGED <<task, pc, numBatches, primary, outcome>>
    BY <1>1 DEF Rollup, NodeSlot, NodeStop, NodeStart, ManagerExits, StreamDrops,
       RequestShutdown, harnessVars, countVars, resultVars, taskVars
  <2>2. manager' \in {"running", "succeeded", "failed"}
    BY <1>1 DEF VerdictType, Rollup, NodeSlot, NodeStop, NodeStart, ManagerExits,
       StreamDrops, RequestShutdown, rollupVars
  <2>3. QED
    BY <1>0, <2>1, <2>2 DEF VerdictType
<1>2. CASE Background
  BY <1>0, <1>2 DEF VerdictType, Background, TaskFails, TaskPanics, TaskFinishes,
     harnessVars, countVars, resultVars, rollupVars, TaskStates
<1>3. CASE Prepare
  BY <1>0, <1>3 DEF VerdictType, Prepare, ContractsDeployed, SequencerReady,
     NeverReady, Subscribe, SubscribeFails, GiveUp, countVars, resultVars, rollupVars,
     taskVars, TaskStates, Labels, Failures
<1>4. CASE Select
  <2>1. CASE \E t \in Tasks : JoinTask(t)
    BY <1>0, <1>4, <2>1 DEF VerdictType, JoinTask, Break, countVars, rollupVars,
       TaskStates, Labels, Failures
  <2>2. CASE ~\E t \in Tasks : JoinTask(t)
    BY <1>0, <1>4, <2>2 DEF VerdictType, Select, RollupExited, ReceiveSlot,
       StreamEnds, ShutdownSelected, QueryRollup, Break, countVars, resultVars,
       rollupVars, taskVars, Labels, Failures
  <2>3. QED
    BY <2>1, <2>2
<1>5. CASE HandleSlot
  BY <1>0, <1>5 DEF VerdictType, HandleSlot, FetchBatch, FetchBatchFails,
     FetchReference, FetchReferenceFails, BackfillSlot, BackfillFails, BackfillDone,
     SaveSlot, CountBatch, Break, countVars, resultVars, rollupVars, taskVars,
     Labels, Failures
<1>6. CASE Teardown
  BY <1>0, <1>6 DEF VerdictType, Teardown, AbortTasks, ForceStop, Finish, countVars,
     resultVars, rollupVars, taskVars, harnessVars, TaskStates, Labels, Failures
<1>7. CASE Finished \/ UNCHANGED vars
  BY <1>7 DEF VerdictType, Finished, vars, countVars, resultVars, rollupVars,
     taskVars, harnessVars
<1>8. QED
  BY <1>1, <1>2, <1>3, <1>4, <1>5, <1>6, <1>7 DEF Next

\* No step brings a node up behind a manager that has succeeded, or returns while
\* the manager runs.
LEMMA StopStep == VerdictType /\ StopInv /\ [Next]_vars => StopInv'
<1> SUFFICES ASSUME VerdictType, StopInv, [Next]_vars PROVE StopInv'
  OBVIOUS
<1>1. CASE Rollup
  BY <1>1 DEF StopInv, Rollup, NodeSlot, NodeStop, NodeStart, ManagerExits,
     harnessVars, resultVars
<1>2. CASE StreamDrops \/ RequestShutdown \/ Background
  BY <1>2 DEF StopInv, StreamDrops, RequestShutdown, Background, TaskFails,
     TaskPanics, TaskFinishes, harnessVars, resultVars, rollupVars
<1>3. CASE Prepare
  BY <1>3 DEF StopInv, VerdictType, Prepare, ContractsDeployed, SequencerReady,
     NeverReady, Subscribe, SubscribeFails, GiveUp, resultVars, rollupVars
<1>4. CASE Select
  BY <1>4 DEF StopInv, Select, RollupExited, JoinTask, ReceiveSlot, StreamEnds,
     ShutdownSelected, QueryRollup, Selecting, Break, resultVars, rollupVars
<1>5. CASE HandleSlot
  <2>1. UNCHANGED <<manager, up, outcome>>
    BY <1>5 DEF HandleSlot, FetchBatch, FetchBatchFails, FetchReference,
       FetchReferenceFails, BackfillSlot, BackfillFails, BackfillDone, SaveSlot,
       resultVars, rollupVars
  <2>2. pc # "done" /\ pc' # "done"
    BY <1>5 DEF HandleSlot, FetchBatch, FetchBatchFails, FetchReference,
       FetchReferenceFails, BackfillSlot, BackfillFails, BackfillDone, SaveSlot, Break
  <2>3. QED
    BY <2>1, <2>2 DEF StopInv
<1>6. CASE Teardown
  <2>1. CASE AbortTasks
    <3>1. UNCHANGED <<manager, up, outcome>> /\ pc # "done" /\ pc' # "done"
      BY <2>1 DEF AbortTasks, rollupVars
    <3>2. QED
      BY <3>1 DEF StopInv
  <2>2. CASE ForceStop
    <3>1. /\ UNCHANGED <<pc, outcome>> /\ pc # "done" /\ manager' # "running"
          /\ manager' = "succeeded" => up' = FALSE
      BY <2>2 DEF ForceStop, harnessVars, resultVars
    <3>2. QED
      BY <3>1 DEF StopInv
  <2>3. CASE Finish
    BY <2>3 DEF StopInv, VerdictType, Finish, rollupVars, Failures
  <2>4. QED
    BY <1>6, <2>1, <2>2, <2>3 DEF Teardown
<1>7. CASE Finished \/ UNCHANGED vars
  BY <1>7 DEF StopInv, Finished, vars, rollupVars, harnessVars, resultVars
<1>8. QED
  BY <1>1, <1>2, <1>3, <1>4, <1>5, <1>6, <1>7 DEF Next

\* No task runs before the subscription or after the teardown.
LEMMA TaskStep == VerdictType /\ TaskInv /\ [Next]_vars => TaskInv'
<1> SUFFICES ASSUME VerdictType, TaskInv, [Next]_vars PROVE TaskInv'
  OBVIOUS
<1>1. CASE Rollup \/ StreamDrops \/ RequestShutdown
  BY <1>1 DEF TaskInv, Rollup, NodeSlot, NodeStop, NodeStart, ManagerExits,
     StreamDrops, RequestShutdown, harnessVars, taskVars
<1>2. CASE Background
  BY <1>2 DEF TaskInv, VerdictType, Background, TaskFails, TaskPanics, TaskFinishes,
     harnessVars
<1>3. CASE Prepare
  BY <1>3 DEF TaskInv, Prepare, ContractsDeployed, SequencerReady, NeverReady,
     Subscribe, SubscribeFails, GiveUp, taskVars
<1>4. CASE Select
  BY <1>4 DEF TaskInv, VerdictType, Select, RollupExited, JoinTask, ReceiveSlot,
     StreamEnds, ShutdownSelected, QueryRollup, Selecting, Break, taskVars
<1>5. CASE HandleSlot
  BY <1>5 DEF TaskInv, HandleSlot, FetchBatch, FetchBatchFails, FetchReference,
     FetchReferenceFails, BackfillSlot, BackfillFails, BackfillDone, SaveSlot, Break,
     taskVars
<1>6. CASE Teardown
  BY <1>6 DEF TaskInv, Teardown, AbortTasks, ForceStop, Finish, taskVars, harnessVars
<1>7. CASE Finished \/ UNCHANGED vars
  BY <1>7 DEF TaskInv, Finished, vars, harnessVars, taskVars
<1>8. QED
  BY <1>1, <1>2, <1>3, <1>4, <1>5, <1>6, <1>7 DEF Next
\* A bound on a sum bounds a smaller one.
LEMMA SumBound ==
    ASSUME NEW n \in Nat, NEW m \in Nat, NEW p \in Nat, NEW q \in Nat,
           NEW e \in Nat, NEW b \in Nat, m + q <= n + p, n + p + e <= b
    PROVE  m + q + e <= b
OBVIOUS

\* A failure that must be reported is never dropped on its way to the outcome.
LEMMA ReportStep ==
    VerdictType /\ StopInv /\ TaskInv /\ ReportInv /\ [Next]_vars => ReportInv'
<1> SUFFICES ASSUME VerdictType, StopInv, TaskInv, ReportInv, [Next]_vars
             PROVE  ReportInv'
  OBVIOUS
<1>0. /\ Target \in Nat /\ Target' = Target
      /\ numBatches \in Nat /\ NearEnd \in Nat
  BY TargetIsNatural, PlanFixed, SoakConstants DEF VerdictType
<1>1. CASE Rollup \/ StreamDrops \/ RequestShutdown \/ Finished \/ UNCHANGED vars
  <2>1. UNCHANGED <<task, reportable, pc, numBatches, primary, lateError, outcome>>
    BY <1>1 DEF Rollup, NodeSlot, NodeStop, NodeStart, ManagerExits, StreamDrops,
       RequestShutdown, Finished, vars, harnessVars, countVars, resultVars, taskVars
  <2>2. \A t \in Tasks : Unexcused(t) => Unexcused(t)'
    BY <2>1, <1>0 DEF Unexcused, Pending
  <2>3. QED
    BY <2>1, <2>2 DEF ReportInv
<1>2. CASE Background
  <2>1. UNCHANGED <<pc, numBatches, primary, lateError, outcome>>
    BY <1>2 DEF Background, TaskFails, TaskPanics, TaskFinishes, harnessVars,
       countVars, resultVars
  <2>2. PICK t \in Tasks : TaskFails(t) \/ TaskPanics(t) \/ TaskFinishes(t)
    BY <1>2 DEF Background
  <2>3. task[t] = "running" /\ pc \in InLoop \cup {"aborting"}
    BY <2>2 DEF VerdictType, TaskInv, TaskFails, TaskPanics, TaskFinishes, InLoop, Labels
  <2>4. \A u \in Tasks : Unexcused(u) => Unexcused(u)'
    <3>1. \A u \in Tasks : u # t => task'[u] = task[u]
      BY <2>2 DEF VerdictType, TaskFails, TaskPanics, TaskFinishes
    <3>2. ~Unexcused(t)
      BY <2>3 DEF Unexcused
    <3>3. QED
      BY <1>0, <2>1, <3>1, <3>2 DEF Unexcused, Pending
  <2>5. reportable' => reportable \/ Unexcused(t)'
    <3>1. CASE TaskFails(t)
      <4>1. task'[t] = "failed"
        BY <3>1 DEF VerdictType, TaskFails
      <4>2. numBatches + 1 + NearEnd <= Target => numBatches + Pending + NearEnd <= Target
        BY <1>0 DEF Pending
      <4>3. Pending' = Pending
        BY <2>1 DEF Pending
      <4>4. QED
        BY <1>0, <2>1, <3>1, <4>1, <4>2, <4>3 DEF TaskFails, Unexcused
    <3>2. CASE TaskPanics(t)
      BY <3>2 DEF VerdictType, TaskPanics, Unexcused
    <3>3. CASE TaskFinishes(t)
      BY <3>3 DEF TaskFinishes
    <3>4. QED
      BY <2>2, <3>1, <3>2, <3>3
  <2>6. QED
    BY <2>1, <2>3, <2>4, <2>5 DEF ReportInv, InLoop
<1>3. CASE Prepare
  <2>1. ~reportable
    BY <1>3 DEF ReportInv, InLoop, Prepare, ContractsDeployed, SequencerReady,
       NeverReady, Subscribe, SubscribeFails
  <2>2. reportable' = reportable
    BY <1>3 DEF Prepare, ContractsDeployed, SequencerReady, NeverReady, Subscribe,
       SubscribeFails, taskVars
  <2>3. QED
    BY <2>1, <2>2 DEF ReportInv
<1>4. CASE \E t \in Tasks : JoinTask(t)
  <2>1. PICK t \in Tasks : JoinTask(t)
    BY <1>4
  <2>2. /\ pc = "select" /\ UNCHANGED <<numBatches, lateError, outcome, reportable>>
        /\ \A u \in Tasks : u # t => task'[u] = task[u]
    BY <2>1 DEF JoinTask, countVars, VerdictType
  <2>3. CASE Counts(t)
    <3>1. pc' = "aborting" /\ primary' = "task_failed"
      BY <2>1, <2>3 DEF JoinTask, Break
    <3>2. QED
      BY <3>1 DEF ReportInv, InLoop
  <2>4. CASE ~Counts(t)
    <3>1. pc' = pc
      BY <2>1, <2>4 DEF JoinTask
    <3>2. ~Unexcused(t)
      BY <2>4, UnexcusedCounts
    <3>3. \A u \in Tasks : Unexcused(u) => Unexcused(u)'
      BY <1>0, <2>2, <3>1, <3>2 DEF Unexcused, Pending
    <3>4. QED
      BY <2>2, <3>1, <3>3 DEF ReportInv, InLoop
  <2>5. QED
    BY <2>3, <2>4
<1>5. CASE ReceiveSlot
  <2>1. ~\E t \in Tasks : Unexcused(t)
    BY <1>5 DEF ReceiveSlot, Selecting, TaskEnded, Returned, Unexcused
  <2>2. pc = "select" /\ reportable' = reportable
    BY <1>5 DEF ReceiveSlot, Selecting, taskVars
  <2>3. QED
    BY <2>1, <2>2 DEF ReportInv, InLoop
<1>6. CASE \/ RollupExited \/ StreamEnds \/ ShutdownSelected \/ QueryRollup
           \/ FetchBatchFails \/ FetchReferenceFails \/ BackfillFails
  <2>1. /\ pc \in InLoop /\ pc' \in {"aborting", "ended"}
        /\ UNCHANGED <<task, reportable, numBatches>>
    BY <1>6 DEF RollupExited, StreamEnds, ShutdownSelected, QueryRollup,
       FetchBatchFails, FetchReferenceFails, BackfillFails, Selecting, Break,
       InLoop, countVars, taskVars
  <2>2. Pending' = 0 /\ Pending \in Nat
    BY <2>1 DEF Pending
  <2>3. \A t \in Tasks : Unexcused(t) => Unexcused(t)'
    BY <1>0, <2>1, <2>2 DEF Unexcused
  <2>4. QED
    BY <2>1, <2>3 DEF ReportInv, InLoop
<1>7. CASE FetchBatch \/ FetchReference
  <2>1. /\ pc \in {"fetching", "counting"} /\ pc' \in {"counting", "backfilling"}
        /\ UNCHANGED <<task, reportable>>
    BY <1>7 DEF FetchBatch, FetchReference, taskVars
  <2>2. /\ pc' = "counting" => numBatches' = numBatches
        /\ numBatches' = numBatches \/ numBatches' = numBatches + 1
    BY <1>7 DEF FetchBatch, FetchReference, CountBatch, countVars
  <2>3. Pending = 1 /\ numBatches' \in Nat
    BY <1>0, <2>1, <2>2 DEF Pending
  <2>4. numBatches' + Pending' <= numBatches + 1 /\ Pending' \in Nat
    <3>1. CASE pc' = "counting"
      <4>1. Pending' = 1
        BY <3>1 DEF Pending
      <4>2. QED
        BY <1>0, <2>2, <3>1, <4>1
    <3>2. CASE pc' = "backfilling"
      <4>1. Pending' = 0
        BY <3>2 DEF Pending
      <4>2. numBatches' + 0 <= numBatches + 1
        BY <1>0, <2>2
      <4>3. QED
        BY <4>1, <4>2
    <3>3. QED
      BY <2>1, <3>1, <3>2
  <2>5. numBatches + Pending + NearEnd <= Target =>
           numBatches' + Pending' + NearEnd <= Target'
    BY <1>0, <2>3, <2>4, SumBound
  <2>6. \A t \in Tasks : Unexcused(t) => Unexcused(t)'
    BY <2>1, <2>5 DEF Unexcused
  <2>7. QED
    BY <2>1, <2>6 DEF ReportInv, InLoop
<1>8. CASE BackfillSlot \/ BackfillDone \/ SaveSlot
  <2>1. /\ pc \in {"backfilling", "saving"} /\ pc' \in {"backfilling", "saving", "select"}
        /\ UNCHANGED <<task, reportable, numBatches>>
    BY <1>8 DEF BackfillSlot, BackfillDone, SaveSlot, taskVars, countVars
  <2>2. Pending' = Pending
    BY <2>1 DEF Pending
  <2>3. \A t \in Tasks : Unexcused(t) => Unexcused(t)'
    BY <1>0, <2>1, <2>2 DEF Unexcused
  <2>4. QED
    BY <2>1, <2>3 DEF ReportInv, InLoop
<1>9. CASE AbortTasks
  <2>1. pc = "aborting" /\ pc' = "stopping" /\ UNCHANGED <<primary, reportable>>
    BY <1>9 DEF AbortTasks
  <2>2. (\E t \in Tasks : Unexcused(t)) => lateError'
    BY <1>9, UnexcusedCounts DEF AbortTasks
  <2>3. QED
    BY <2>1, <2>2 DEF ReportInv, InLoop
<1>10. CASE ForceStop
  <2>1. pc = "stopping" /\ UNCHANGED <<pc, primary, lateError, reportable>>
    BY <1>10 DEF ForceStop, harnessVars, resultVars, taskVars
  <2>2. QED
    BY <2>1 DEF ReportInv, InLoop
<1>11. CASE Finish
  <2>1. pc = "stopping" /\ pc' = "done" /\ reportable' = reportable
    BY <1>11 DEF Finish, taskVars
  <2>2. primary # "none" \/ lateError => outcome' # "ok"
    BY <1>11 DEF Finish, VerdictType, Failures
  <2>3. QED
    BY <2>1, <2>2 DEF ReportInv, InLoop
<1>12. QED
  BY <1>1, <1>2, <1>3, <1>4, <1>5, <1>6, <1>7, <1>8, <1>9, <1>10, <1>11
     DEF Next, Select, HandleSlot, Teardown
-----------------------------------------------------------------------------
\* The invariant holds throughout every run.
THEOREM VerdictInvHolds == Spec => []VerdictInv
<1>1. VerdictInv /\ [Next]_vars => VerdictInv'
  BY TypeStep, StopStep, TaskStep, ReportStep DEF VerdictInv
<1>2. QED
  BY InitVerdict, <1>1, PTL DEF Spec

\* The run succeeds only after the manager has reported success and its node has
\* stopped: no leniency near the end turns a rollup that failed, or one that was
\* left behind, into a successful run.
THEOREM SuccessIsClean == Spec => []OkMeansCleanStop
<1>1. VerdictInv => OkMeansCleanStop
  BY DEF VerdictInv, StopInv, OkMeansCleanStop
<1>2. QED
  BY VerdictInvHolds, <1>1, PTL

\* A background task that panics or fails clearly before the end fails the
\* run, whatever the biased select looks at first.
THEOREM NoEarlyFailureIsLost == Spec => []EarlyFailureIsReported
<1>1. VerdictInv => EarlyFailureIsReported
  BY DEF VerdictInv, StopInv, ReportInv, EarlyFailureIsReported
<1>2. QED
  BY VerdictInvHolds, <1>1, PTL
-----------------------------------------------------------------------------
(* The slots: what is observed, counted and saved of the rollup's ledger. *)

Handling  == {"fetching", "counting", "backfilling", "saving"}
Uncounted == {"fetching", "counting"}
Preparing == {"deploying", "waiting", "subscribing"}

\* The ledger grows at its head, and the harness takes its slots in order.
LedgerInv ==
    /\ head \in Nat /\ ends \in [0..head -> Nat]
    /\ \A s, t \in 0..head : s <= t => ends[s] <= ends[t]
    /\ lastNote \in 0..head /\ nextNote \in 1..(lastNote + 1)
    /\ slot \in 0..(nextNote - 1)
    /\ firstNew \in 1..(head + 1) /\ backfillFrom \in {None, firstNew}
    /\ saved \subseteq 0..head
    /\ pc \in Handling => slot > 0 /\ slot = nextNote - 1
    /\ pc \in Uncounted => Carries(slot)

\* From the gap before the first observed slot on, every slot is saved before
\* the next one is taken.
AppendInv ==
    mode = "append" =>
        /\ AppendIsContiguous
        /\ pc \in Preparing => backfillFrom # None
        /\ pc = "saving" \/ (pc \in Handling /\ backfillFrom = None) =>
              \A s \in firstNew..(slot - 1) : s \in saved
        /\ pc = "select" /\ backfillFrom = None =>
              \A s \in firstNew..(nextNote - 1) : s \in saved

\* The last slot whose batch has been counted, if it was to be.
Counted == IF pc \in Uncounted THEN slot - 1 ELSE nextNote - 1

\* A batch is counted once, and only past the start of the throughput.
CountInv == numBatches > 0 => numBatches + ThroughputStart < ends[Counted]

\* The versions follow one another, and none goes past the end of the run.
RollupInv ==
    /\ version \in 1..NumVersions
    /\ \A s \in 0..head : ends[s] <= RollupStopHeight

\* Flags of the run and its tasks.
FlagType ==
    /\ up \in BOOLEAN /\ open \in BOOLEAN /\ counting \in BOOLEAN
    /\ reportable \in BOOLEAN /\ lateError \in BOOLEAN /\ stopRequested \in BOOLEAN

SlotInv == LedgerInv /\ AppendInv /\ CountInv /\ RollupInv /\ FlagType

\* The steps that move along the ledger.
Moves ==
    \/ NodeSlot \/ Subscribe \/ ReceiveSlot \/ FetchBatch \/ FetchReference
    \/ BackfillSlot \/ BackfillDone \/ SaveSlot

\* All other steps leave the ledger, its slots and their snapshots alone.
LEMMA QuietFrame ==
    ASSUME [Next]_vars, ~Moves
    PROVE  /\ UNCHANGED <<head, ends, nextNote, lastNote, slot, firstNew,
                          backfillFrom, saved, numBatches>>
           /\ \/ pc' = pc
              \/ pc' \in {"ended", "aborting", "stopping", "done"}
              \/ pc \in Preparing /\ pc' = "subscribing"
<1>1. CASE Rollup \/ StreamDrops \/ Background \/ RequestShutdown
  BY <1>1 DEF Moves, Rollup, NodeStop, NodeStart, ManagerExits, StreamDrops,
     Background, TaskFails, TaskPanics, TaskFinishes, RequestShutdown,
     rollupVars, streamVars, harnessVars, countVars
<1>2. CASE Prepare
  BY <1>2 DEF Moves, Prepare, ContractsDeployed, SequencerReady, NeverReady,
     SubscribeFails, GiveUp, Preparing, rollupVars, streamVars, countVars
<1>3. CASE Select
  BY <1>3 DEF Moves, Select, RollupExited, JoinTask, StreamEnds, ShutdownSelected,
     QueryRollup, Break, rollupVars, streamVars, countVars
<1>4. CASE HandleSlot \/ Teardown
  BY <1>4 DEF Moves, HandleSlot, FetchBatchFails, FetchReferenceFails,
     BackfillFails, Teardown, AbortTasks, ForceStop, Finish, Break, rollupVars,
     streamVars, harnessVars, countVars
<1>5. CASE Finished \/ UNCHANGED vars
  BY <1>5 DEF Finished, vars, rollupVars, streamVars, harnessVars, countVars
<1>6. QED
  BY <1>1, <1>2, <1>3, <1>4, <1>5 DEF Next

\* The run's first new slot is settled at its start.
LEMMA FirstNewFixed == [Next]_vars => firstNew' = firstNew
<1>1. ASSUME Moves PROVE firstNew' = firstNew
  BY <1>1 DEF Moves, NodeSlot, Subscribe, ReceiveSlot, FetchBatch, FetchReference,
     BackfillSlot, BackfillDone, SaveSlot
<1>2. QED
  BY <1>1, QuietFrame DEF vars

\* A new slot of the node continues its ledger.
LEMMA NodeSlotFacts ==
    ASSUME LedgerInv, NodeSlot
    PROVE  /\ head' = head + 1 /\ head' \in Nat
           /\ ends' \in [0..head' -> Nat]
           /\ \A s \in 0..head : ends'[s] = ends[s]
           /\ ends'[head + 1] = ends[head] \/ ends'[head + 1] = ends[head] + 1
           /\ lastNote' \in {lastNote, head + 1}
           /\ UNCHANGED <<pc, slot, nextNote, saved, firstNew, backfillFrom, numBatches>>
<1>1. PICK batch \in {0, 1} :
          ends' = [s \in 0..(head + 1) |->
                      IF s = head + 1 THEN ends[head] + batch ELSE ends[s]]
  BY DEF NodeSlot
<1>2. head' = head + 1 /\ head \in Nat /\ \A s \in 0..head : ends[s] \in Nat
  BY DEF NodeSlot, LedgerInv
<1>3. ends' \in [0..head' -> Nat]
  BY <1>1, <1>2
<1>4. QED
  BY <1>1, <1>2, <1>3 DEF NodeSlot, harnessVars, countVars

\* Every step keeps the ledger and what is noted of it.
LEMMA LedgerStep == LedgerInv /\ [Next]_vars => LedgerInv'
<1> SUFFICES ASSUME LedgerInv, [Next]_vars PROVE LedgerInv'
  OBVIOUS
<1>1. CASE NodeSlot
  <2>a. /\ head \in Nat /\ head' = head + 1 /\ \A s \in 0..head : ends'[s] = ends[s]
        /\ \A s \in 0..head : ends[s] \in Nat /\ ends[s] <= ends[head]
        /\ ends'[head + 1] = ends[head] \/ ends'[head + 1] = ends[head] + 1
        /\ lastNote' = lastNote \/ lastNote' = head + 1
        /\ UNCHANGED <<pc, slot, nextNote, saved, firstNew, backfillFrom>>
    BY <1>1, NodeSlotFacts DEF LedgerInv
  <2>b. \A s \in 0..head' : s \in 0..head \/ s = head + 1
    BY <2>a
  <2>1. \A s, t \in 0..head' : s <= t => ends'[s] <= ends'[t]
    <3>1. ASSUME NEW s \in 0..head', NEW t \in 0..head', s <= t
          PROVE  ends'[s] <= ends'[t]
      <4>1. CASE t \in 0..head
        <5>1. s \in 0..head
          BY <2>a, <3>1, <4>1
        <5>2. QED
          BY <2>a, <3>1, <4>1, <5>1 DEF LedgerInv
      <4>2. CASE t = head + 1 /\ s \in 0..head
        BY <2>a, <4>2
      <4>3. CASE t = head + 1 /\ s = head + 1
        BY <2>a, <4>3
      <4>4. QED
        BY <2>b, <4>1, <4>2, <4>3
    <3>2. QED
      BY <3>1
  <2>2. pc' \in Uncounted => Carries(slot)'
    <3>1. ASSUME pc \in Uncounted PROVE Carries(slot)'
      <4>1. slot \in 0..head /\ slot - 1 \in 0..head
        BY <3>1 DEF LedgerInv, Uncounted, Handling
      <4>2. QED
        BY <2>a, <3>1, <4>1 DEF LedgerInv, Carries
    <3>2. QED
      BY <2>a, <3>1
  <2>3. saved' \subseteq 0..head'
    BY <2>a DEF LedgerInv
  <2>4. lastNote' \in 0..head' /\ nextNote' \in 1..(lastNote' + 1)
    <3>1. lastNote \in 0..head /\ nextNote \in 1..(lastNote + 1)
      BY DEF LedgerInv
    <3>2. CASE lastNote' = lastNote
      BY <2>a, <3>1, <3>2
    <3>3. CASE lastNote' = head + 1
      BY <2>a, <3>1, <3>3
    <3>4. QED
      BY <2>a, <3>2, <3>3
  <2>5. firstNew' \in 1..(head' + 1) /\ backfillFrom' \in {None, firstNew'}
    BY <2>a DEF LedgerInv
  <2>6. /\ head' \in Nat /\ ends' \in [0..head' -> Nat]
        /\ slot' \in 0..(nextNote' - 1)
        /\ pc' \in Handling => slot' > 0 /\ slot' = nextNote' - 1
    BY <1>1, <2>a, NodeSlotFacts DEF LedgerInv
  <2>7. QED
    BY <2>1, <2>2, <2>3, <2>4, <2>5, <2>6 DEF LedgerInv
<1>2. CASE Subscribe
  BY <1>2 DEF LedgerInv, Subscribe, rollupVars, Handling, Uncounted
<1>3. CASE ReceiveSlot
  <2>1. /\ slot' = nextNote /\ nextNote' = nextNote + 1 /\ nextNote <= lastNote
        /\ pc' = "fetching" => Carries(nextNote)
        /\ pc' \in {"fetching", "backfilling"}
        /\ UNCHANGED <<head, ends, lastNote, saved, firstNew, backfillFrom>>
    BY <1>3 DEF ReceiveSlot, SlotReady, rollupVars
  <2>2. pc' \in Uncounted => Carries(slot)'
    BY <2>1 DEF Uncounted, Carries
  <2>3. QED
    BY <2>1, <2>2 DEF LedgerInv, Handling
<1>4. CASE FetchBatch \/ FetchReference
  <2>1. /\ pc \in Uncounted /\ pc' \in Handling
        /\ UNCHANGED <<head, ends, nextNote, lastNote, slot, saved, firstNew, backfillFrom>>
    BY <1>4 DEF FetchBatch, FetchReference, rollupVars, streamVars, Uncounted, Handling
  <2>2. QED
    BY <2>1 DEF LedgerInv, Uncounted, Handling, Carries
<1>5. CASE BackfillSlot
  <2>1. PICK s \in Missing : saved' = saved \cup {s}
    BY <1>5 DEF BackfillSlot
  <2>2. /\ pc = "backfilling"
        /\ UNCHANGED <<head, ends, nextNote, lastNote, slot, firstNew, backfillFrom, pc>>
    BY <1>5 DEF BackfillSlot, rollupVars, streamVars
  <2>3. s \in 0..head
    BY <2>1 DEF Missing, LedgerInv, None
  <2>4. QED
    BY <2>1, <2>2, <2>3 DEF LedgerInv, Handling, Uncounted
<1>6. CASE BackfillDone \/ SaveSlot
  <2>1. /\ pc \in {"backfilling", "saving"} /\ pc' \in {"saving", "select"}
        /\ UNCHANGED <<head, ends, nextNote, lastNote, slot, firstNew>>
        /\ backfillFrom' = None \/ backfillFrom' = backfillFrom
    BY <1>6 DEF BackfillDone, SaveSlot, rollupVars, streamVars
  <2>2. saved' \subseteq 0..head
    <3>1. saved' = saved \/ saved' = saved \cup {slot}
      BY <1>6 DEF BackfillDone, SaveSlot
    <3>2. slot \in 0..head /\ saved \subseteq 0..head
      BY DEF LedgerInv
    <3>3. QED
      BY <3>1, <3>2
  <2>3. slot > 0 /\ slot = nextNote - 1 /\ pc' \notin Uncounted
    BY <2>1 DEF LedgerInv, Handling, Uncounted
  <2>4. backfillFrom' \in {None, firstNew'}
    BY <2>1 DEF LedgerInv
  <2>5. QED
    BY <2>1, <2>2, <2>3, <2>4 DEF LedgerInv
<1>7. CASE ~Moves
  <2>1. /\ UNCHANGED <<head, ends, nextNote, lastNote, slot, firstNew, backfillFrom, saved>>
        /\ pc' \in Handling => pc' = pc
    BY <1>7, QuietFrame DEF Handling, Preparing
  <2>2. pc' \in Uncounted => pc' \in Handling
    BY DEF Handling, Uncounted
  <2>3. QED
    BY <2>1, <2>2 DEF LedgerInv, Carries
<1>8. QED
  BY <1>1, <1>2, <1>3, <1>4, <1>5, <1>6, <1>7 DEF Moves

\* Every step keeps the appended snapshots without a hole.
LEMMA AppendStep == LedgerInv /\ AppendInv /\ [Next]_vars => AppendInv'
<1> SUFFICES ASSUME LedgerInv, AppendInv, [Next]_vars, mode = "append"
             PROVE  AppendInv'
  BY PlanFixed DEF AppendInv
<1>a. /\ firstNew' = firstNew /\ firstNew \in Nat /\ firstNew > 0
      /\ mode' = mode /\ slot \in Nat /\ nextNote \in Nat
      /\ backfillFrom \in {None, firstNew} /\ firstNew # None
      /\ \A s \in saved : s \in Nat
  BY FirstNewFixed, PlanFixed DEF LedgerInv, None
<1>b. /\ \A t \in saved : \A s \in firstNew..t : s \in saved
      /\ pc \in Preparing => backfillFrom # None
      /\ pc = "saving" \/ (pc \in Handling /\ backfillFrom = None) =>
            \A s \in firstNew..(slot - 1) : s \in saved
      /\ pc = "select" /\ backfillFrom = None =>
            \A s \in firstNew..(nextNote - 1) : s \in saved
  BY DEF AppendInv, AppendIsContiguous
<1>1. CASE NodeSlot
  <2>1. UNCHANGED <<pc, slot, nextNote, saved, backfillFrom>>
    BY <1>1 DEF NodeSlot, harnessVars
  <2>2. QED
    BY <1>a, <1>b, <2>1 DEF AppendInv, AppendIsContiguous
<1>2. CASE Subscribe
  <2>1. /\ pc = "subscribing" /\ pc' = "select"
        /\ UNCHANGED <<saved, backfillFrom>>
    BY <1>2 DEF Subscribe
  <2>2. QED
    BY <1>a, <1>b, <2>1 DEF AppendInv, AppendIsContiguous, Preparing, Handling
<1>3. CASE ReceiveSlot
  <2>1. /\ pc = "select" /\ pc' \in {"fetching", "backfilling"} /\ slot' = nextNote
        /\ UNCHANGED <<saved, backfillFrom>>
    BY <1>3 DEF ReceiveSlot, Selecting
  <2>2. QED
    BY <1>a, <1>b, <2>1 DEF AppendInv, AppendIsContiguous, Preparing, Handling
<1>4. CASE FetchBatch \/ FetchReference
  <2>1. /\ pc \in Handling /\ pc' \in {"counting", "backfilling"}
        /\ UNCHANGED <<saved, backfillFrom, slot>>
    BY <1>4 DEF FetchBatch, FetchReference, Handling
  <2>2. QED
    BY <1>a, <1>b, <2>1 DEF AppendInv, AppendIsContiguous, Preparing, Handling
<1>5. CASE BackfillSlot
  <2>1. PICK m \in Missing : (\A t \in Missing : m <= t) /\ saved' = saved \cup {m}
    BY <1>5 DEF BackfillSlot
  <2>2. pc = "backfilling" /\ UNCHANGED <<pc, slot, backfillFrom>>
    BY <1>5 DEF BackfillSlot
  <2>3. /\ backfillFrom # None /\ m \in firstNew..(slot - 1)
        /\ Missing = (firstNew..(slot - 1)) \ saved
    BY <1>a, <2>1 DEF Missing
  <2>4. \A s \in firstNew..m : s \in saved'
    BY <1>a, <2>1, <2>3
  <2>5. \A t \in saved' : \A s \in firstNew..t : s \in saved'
    BY <1>b, <2>1, <2>4
  <2>6. QED
    BY <1>a, <2>2, <2>3, <2>5 DEF AppendInv, AppendIsContiguous, Preparing
<1>6. CASE BackfillDone
  <2>1. /\ pc = "backfilling" /\ Missing = {} /\ pc' = "saving"
        /\ UNCHANGED <<saved, slot>>
    BY <1>6 DEF BackfillDone
  <2>2. \A s \in firstNew..(slot - 1) : s \in saved
    <3>1. CASE backfillFrom = None
      BY <1>b, <2>1, <3>1 DEF Handling
    <3>2. CASE backfillFrom # None
      BY <1>a, <2>1, <3>2 DEF Missing
    <3>3. QED
      BY <3>1, <3>2
  <2>3. QED
    BY <1>a, <1>b, <2>1, <2>2 DEF AppendInv, AppendIsContiguous, Preparing
<1>7. CASE SaveSlot
  <2>1. /\ pc = "saving" /\ pc' = "select" /\ saved' = saved \cup {slot}
        /\ UNCHANGED <<slot, nextNote>>
    BY <1>7, <1>a DEF SaveSlot, Saving, streamVars
  <2>2. slot = nextNote - 1
    BY <2>1 DEF LedgerInv, Handling
  <2>3. \A s \in firstNew..slot : s \in saved'
    BY <1>a, <1>b, <2>1
  <2>4. \A t \in saved' : \A s \in firstNew..t : s \in saved'
    BY <1>b, <2>1, <2>3
  <2>5. QED
    BY <1>a, <2>1, <2>2, <2>3, <2>4 DEF AppendInv, AppendIsContiguous, Preparing, Handling
<1>8. CASE ~Moves
  <2>1. /\ UNCHANGED <<slot, nextNote, saved, backfillFrom>>
        /\ pc' = pc \/ pc' \notin Handling \cup Preparing \cup {"select"}
           \/ (pc \in Preparing /\ pc' = "subscribing")
    BY <1>8, QuietFrame DEF Handling, Preparing
  <2>2. CASE pc' = pc
    BY <1>a, <1>b, <2>1, <2>2 DEF AppendInv, AppendIsContiguous
  <2>3. CASE pc' \notin Handling \cup Preparing \cup {"select"}
    BY <1>a, <1>b, <2>1, <2>3 DEF AppendInv, AppendIsContiguous, Handling
  <2>4. CASE pc \in Preparing /\ pc' = "subscribing"
    BY <1>a, <1>b, <2>1, <2>4 DEF AppendInv, AppendIsContiguous, Handling
  <2>5. QED
    BY <2>1, <2>2, <2>3, <2>4
<1>9. QED
  BY <1>1, <1>2, <1>3, <1>4, <1>5, <1>6, <1>7, <1>8 DEF Moves

\* The number of the batch before which throughput is not counted.
LEMMA ThroughputStartFacts ==
    ASSUME [Next]_vars
    PROVE  /\ ThroughputStart \in Nat /\ ThroughputStart' = ThroughputStart
           /\ RollupStopHeight \in Nat /\ RollupStopHeight' = RollupStopHeight
<1>1. NumVersions * BlocksPerVersion \in Nat /\ BlocksPerVersion \in Nat
  BY SoakConstants
<1>2. \A a, b \in Nat : a * b \in Nat
  OBVIOUS
<1>3. StartHeight(NumVersions, BlocksPerVersion) \in Nat
  BY <1>1, <1>2, SoakConstants DEF StartHeight
<1>4. ThroughputStart \in Nat
  BY <1>1, <1>3, SoakConstants
     DEF ThroughputStart, ExpectedSetupBatches, SaturatingSub, StopHeight
<1>5. RollupStopHeight \in Nat
  BY <1>1 DEF RollupStopHeight, ExtendedStopHeight, StopHeight
<1>6. QED
  BY <1>4, <1>5, PlanFixed DEF ThroughputStart, RollupStopHeight

\* Every step keeps the count below the batches seen.
LEMMA CountStep == VerdictType /\ LedgerInv /\ CountInv /\ [Next]_vars => CountInv'
<1> SUFFICES ASSUME VerdictType, LedgerInv, CountInv, [Next]_vars PROVE CountInv'
  OBVIOUS
<1>a. /\ ThroughputStart \in Nat /\ ThroughputStart' = ThroughputStart
      /\ numBatches \in Nat
  BY ThroughputStartFacts DEF VerdictType
<1>b. /\ head \in Nat /\ nextNote - 1 \in 0..head /\ Counted \in 0..head
      /\ \A s \in 0..head : ends[s] \in Nat
      /\ \A s, t \in 0..head : s <= t => ends[s] <= ends[t]
      /\ pc \in Uncounted => slot = nextNote - 1 /\ slot > 0
  BY DEF LedgerInv, Counted, Uncounted, Handling
<1>1. CASE NodeSlot
  <2>1. UNCHANGED <<numBatches, Counted>> /\ \A s \in 0..head : ends'[s] = ends[s]
    BY <1>1, NodeSlotFacts DEF Counted
  <2>2. QED
    BY <1>a, <1>b, <2>1 DEF CountInv
<1>2. CASE Subscribe
  <2>1. /\ numBatches' = numBatches /\ ends' = ends /\ nextNote' = head + 1
        /\ pc' \notin Uncounted
    BY <1>2 DEF Subscribe, rollupVars, countVars, Uncounted
  <2>2. Counted' = head
    BY <1>b, <2>1 DEF Counted
  <2>3. ends[Counted] <= ends[head]
    BY <1>b
  <2>4. QED
    BY <1>a, <1>b, <2>1, <2>2, <2>3 DEF CountInv
<1>3. CASE ReceiveSlot
  <2>1. /\ numBatches' = numBatches /\ ends' = ends /\ slot' = nextNote
        /\ nextNote' = nextNote + 1 /\ nextNote <= lastNote
        /\ pc' \in {"fetching", "backfilling"}
        /\ pc \notin Uncounted
    BY <1>3 DEF ReceiveSlot, Selecting, SlotReady, rollupVars, countVars, Uncounted
  <2>2. nextNote \in 0..head /\ Counted = nextNote - 1
    BY <1>b, <2>1 DEF LedgerInv, Counted
  <2>3. Counted' = nextNote - 1 \/ Counted' = nextNote
    BY <2>1, <2>2 DEF Counted, Uncounted
  <2>4. ends[nextNote - 1] <= ends[nextNote] /\ ends[nextNote] \in Nat
    BY <1>b, <2>2
  <2>5. QED
    BY <1>a, <1>b, <2>1, <2>2, <2>3, <2>4 DEF CountInv
<1>4. CASE FetchBatch \/ FetchReference
  <2>1. /\ pc \in Uncounted /\ pc' \in {"counting", "backfilling"}
        /\ UNCHANGED <<ends, slot, nextNote>>
        /\ pc' = "counting" => numBatches' = numBatches
        /\ \/ numBatches' = numBatches
           \/ numBatches' = numBatches + 1 /\ ends[slot] - 1 > ThroughputStart
    BY <1>4 DEF FetchBatch, FetchReference, CountBatch, BatchNumber, countVars,
       rollupVars, streamVars, Uncounted
  <2>2. /\ slot \in 0..head /\ slot - 1 \in 0..head /\ Counted = slot - 1
        /\ ends[slot - 1] < ends[slot]
    <3>1. slot \in 0..head /\ slot - 1 \in 0..head /\ Counted = slot - 1
      BY <1>b, <2>1 DEF Counted
    <3>2. ends[slot - 1] # ends[slot]
      BY <2>1 DEF LedgerInv, Carries
    <3>3. ends[slot - 1] <= ends[slot] /\ ends[slot - 1] \in Nat /\ ends[slot] \in Nat
      BY <1>b, <3>1
    <3>4. QED
      BY <3>1, <3>2, <3>3
  <2>3. CASE pc' = "counting"
    <3>1. Counted' = Counted
      BY <2>1, <2>2, <2>3 DEF Counted, Uncounted
    <3>2. QED
      BY <1>a, <2>1, <2>3, <3>1 DEF CountInv
  <2>4. CASE pc' = "backfilling"
    <3>1. Counted' = slot
      BY <1>b, <2>1, <2>4 DEF Counted, Uncounted
    <3>2. numBatches > 0 => numBatches + ThroughputStart < ends[slot - 1]
      BY <2>2 DEF CountInv
    <3>3. ends[slot] \in Nat /\ ends[slot - 1] \in Nat
      BY <1>b, <2>2
    <3>4. numBatches' > 0 => numBatches' + ThroughputStart < ends[slot]
      <4>1. CASE numBatches' = numBatches
        BY <1>a, <2>2, <3>2, <3>3, <4>1
      <4>2. CASE numBatches' = numBatches + 1 /\ ends[slot] - 1 > ThroughputStart
        BY <1>a, <2>2, <3>2, <3>3, <4>2
      <4>3. QED
        BY <2>1, <4>1, <4>2
    <3>5. QED
      BY <1>a, <2>1, <3>1, <3>4 DEF CountInv
  <2>5. QED
    BY <2>1, <2>3, <2>4
<1>5. CASE BackfillSlot \/ BackfillDone \/ SaveSlot
  <2>1. UNCHANGED <<numBatches, ends, nextNote>> /\ pc \notin Uncounted /\ pc' \notin Uncounted
    BY <1>5 DEF BackfillSlot, BackfillDone, SaveSlot, countVars, rollupVars,
       streamVars, Uncounted
  <2>2. Counted' = Counted
    BY <2>1 DEF Counted
  <2>3. QED
    BY <1>a, <2>1, <2>2 DEF CountInv
<1>6. CASE ~Moves
  <2>1. UNCHANGED <<numBatches, ends, nextNote, slot>>
        /\ (pc' = pc \/ pc' \notin Uncounted)
    BY <1>6, QuietFrame DEF Uncounted
  <2>2. Counted' = Counted \/ Counted' = nextNote - 1
    BY <2>1 DEF Counted
  <2>3. Counted <= nextNote - 1
    BY <1>b DEF Counted
  <2>4. ends[Counted] <= ends[nextNote - 1] /\ ends[nextNote - 1] \in Nat
    BY <1>b, <2>3
  <2>5. QED
    BY <1>a, <1>b, <2>1, <2>2, <2>4 DEF CountInv
<1>7. QED
  BY <1>1, <1>2, <1>3, <1>4, <1>5, <1>6 DEF Moves

\* No version stops later than the run.
LEMMA StopHeightsBounded ==
    ASSUME NEW v \in 1..NumVersions
    PROVE  /\ StopHeight(v, BlocksPerVersion) \in Nat
           /\ StopHeight(v, BlocksPerVersion) <= RollupStopHeight
<1>1. /\ NumVersions \in Nat /\ BlocksPerVersion \in Nat
      /\ v \in Nat /\ NumVersions - v \in Nat
  BY SoakConstants
<1>2. \A a, b \in Nat : a * b \in Nat
  OBVIOUS
<1>3. \A n, m, b \in Nat : n - m \in Nat => n * b = m * b + (n - m) * b
  OBVIOUS
<1>4. NumVersions * BlocksPerVersion = v * BlocksPerVersion + (NumVersions - v) * BlocksPerVersion
  BY <1>1, <1>3
<1>5. /\ v * BlocksPerVersion \in Nat /\ (NumVersions - v) * BlocksPerVersion \in Nat
      /\ NumVersions * BlocksPerVersion \in Nat
  BY <1>1, <1>2
<1>6. v * BlocksPerVersion <= NumVersions * BlocksPerVersion
  BY <1>4, <1>5
<1>7. RollupStopHeight >= NumVersions * BlocksPerVersion
  BY <1>1, <1>5 DEF RollupStopHeight, ExtendedStopHeight, StopHeight
<1>8. QED
  BY <1>1, <1>5, <1>6, <1>7, ThroughputStartFacts
     DEF StopHeight, RollupStopHeight, ExtendedStopHeight

\* Every step keeps the node within its versions and stop heights.
LEMMA RollupStep == LedgerInv /\ RollupInv /\ [Next]_vars => RollupInv'
<1> SUFFICES ASSUME LedgerInv, RollupInv, [Next]_vars PROVE RollupInv'
  OBVIOUS
<1>a. RollupStopHeight \in Nat /\ RollupStopHeight' = RollupStopHeight /\ head \in Nat
      /\ NumVersions \in Nat /\ version \in 1..NumVersions
  BY ThroughputStartFacts, SoakConstants DEF LedgerInv, RollupInv
<1>1. CASE NodeSlot
  <2>1. version' = version /\ ~AtStopHeight
    BY <1>1 DEF NodeSlot
  <2>2. ends[head] < RollupStopHeight
    <3>1. ends[head] \in Nat
      BY <1>a DEF LedgerInv
    <3>2. /\ StopHeight(version, BlocksPerVersion) \in Nat
          /\ StopHeight(version, BlocksPerVersion) <= RollupStopHeight
      BY <1>a, StopHeightsBounded
    <3>3. QED
      BY <1>a, <2>1, <3>1, <3>2 DEF AtStopHeight
  <2>3. \A s \in 0..head' : ends'[s] <= RollupStopHeight
    <3>1. ends'[head + 1] <= RollupStopHeight
      <4>1. ends[head] \in Nat
        BY <1>a DEF LedgerInv
      <4>2. QED
        BY <1>1, <1>a, <2>2, <4>1, NodeSlotFacts
    <3>2. \A s \in 0..head' : s \in 0..head \/ s = head + 1
      BY <1>1, <1>a, NodeSlotFacts
    <3>3. QED
      BY <1>1, <3>1, <3>2, NodeSlotFacts DEF RollupInv
  <2>4. QED
    BY <1>a, <2>1, <2>3 DEF RollupInv
<1>2. CASE NodeStart
  <2>1. head' = head /\ ends' = ends
    BY <1>2 DEF NodeStart
  <2>2. version' = version \/ (version < NumVersions /\ version' = version + 1)
    BY <1>2 DEF NodeStart
  <2>3. version' \in 1..NumVersions
    BY <1>a, <2>2
  <2>4. QED
    BY <1>a, <2>1, <2>3 DEF RollupInv
<1>3. CASE ~NodeSlot /\ ~NodeStart
  <2>1. UNCHANGED <<version, head, ends>>
    <3>1. CASE Rollup \/ StreamDrops \/ Background \/ RequestShutdown \/ Finished
               \/ UNCHANGED vars
      BY <1>3, <3>1 DEF Rollup, NodeStop, ManagerExits, StreamDrops, Background,
         TaskFails, TaskPanics, TaskFinishes, RequestShutdown, Finished, vars, rollupVars
    <3>2. CASE Prepare \/ Select
      BY <3>2 DEF Prepare, ContractsDeployed, SequencerReady, NeverReady, Subscribe,
         SubscribeFails, GiveUp, Select, RollupExited, JoinTask, ReceiveSlot,
         StreamEnds, ShutdownSelected, QueryRollup, rollupVars
    <3>3. CASE HandleSlot \/ Teardown
      BY <3>3 DEF HandleSlot, FetchBatch, FetchBatchFails, FetchReference,
         FetchReferenceFails, BackfillSlot, BackfillFails, BackfillDone, SaveSlot,
         Teardown, AbortTasks, ForceStop, Finish, rollupVars
    <3>4. QED
      BY <3>1, <3>2, <3>3 DEF Next
  <2>2. QED
    BY <1>a, <2>1 DEF RollupInv
<1>4. QED
  BY <1>1, <1>2, <1>3

\* Every step keeps the flags Boolean.
LEMMA FlagStep == FlagType /\ [Next]_vars => FlagType'
<1> SUFFICES ASSUME FlagType, [Next]_vars PROVE FlagType'
  OBVIOUS
<1>1. CASE Rollup \/ StreamDrops \/ RequestShutdown \/ Finished \/ UNCHANGED vars
  BY <1>1 DEF FlagType, Rollup, NodeSlot, NodeStop, NodeStart, ManagerExits,
     StreamDrops, RequestShutdown, Finished, vars, rollupVars, streamVars,
     harnessVars, countVars, resultVars, taskVars
<1>2. CASE Background
  <2>1. UNCHANGED <<up, open, counting, lateError, stopRequested>>
    BY <1>2 DEF Background, TaskFails, TaskPanics, TaskFinishes, rollupVars,
       streamVars, harnessVars, countVars, resultVars
  <2>2. \/ reportable' = reportable \/ reportable' = TRUE
        \/ reportable' = (reportable \/ numBatches + 1 + NearEnd <= Target)
    BY <1>2 DEF Background, TaskFails, TaskPanics, TaskFinishes
  <2>3. reportable' \in BOOLEAN
    BY <2>2 DEF FlagType
  <2>4. QED
    BY <2>1, <2>3 DEF FlagType
<1>3. CASE Prepare \/ Select
  BY <1>3 DEF FlagType, Prepare, ContractsDeployed, SequencerReady, NeverReady,
     Subscribe, SubscribeFails, GiveUp, Select, RollupExited, JoinTask, ReceiveSlot,
     StreamEnds, ShutdownSelected, QueryRollup, Break, rollupVars, streamVars,
     countVars, resultVars, taskVars
<1>4. CASE HandleSlot
  BY <1>4 DEF FlagType, HandleSlot, FetchBatch, FetchBatchFails, FetchReference,
     FetchReferenceFails, BackfillSlot, BackfillFails, BackfillDone, SaveSlot,
     CountBatch, rollupVars, streamVars, countVars, resultVars, taskVars
<1>5. CASE AbortTasks
  <2>1. UNCHANGED <<up, open, counting, reportable, stopRequested>>
    BY <1>5 DEF AbortTasks, rollupVars, streamVars, countVars
  <2>2. lateError' = (\E t \in Tasks : Counts(t))
    BY <1>5 DEF AbortTasks
  <2>3. lateError' \in BOOLEAN
    BY <2>2
  <2>4. QED
    BY <2>1, <2>3 DEF FlagType
<1>6. CASE ForceStop \/ Finish
  BY <1>6 DEF FlagType, ForceStop, Finish, rollupVars, streamVars, harnessVars,
     countVars, resultVars, taskVars
<1>7. QED
  BY <1>1, <1>2, <1>3, <1>4, <1>5, <1>6 DEF Next, Teardown

\* The initial states satisfy the slots' invariant.
LEMMA InitSlots == Init => SlotInv
<1> SUFFICES ASSUME Init PROVE SlotInv
  OBVIOUS
<1>a. /\ NumVersions \in Nat /\ NumVersions > 0
      /\ BlocksPerVersion \in Nat /\ BlocksPerVersion > 0
      /\ mode \in Kinds /\ (mode = "append" => NumVersions > 1)
  BY SoakConstants DEF Init
<1>b. version \in 1..NumVersions
  BY <1>a DEF Init, Kinds
<1>c. \A a, b \in Nat : a * b \in Nat
  OBVIOUS
<1>d. version \in Nat /\ version * BlocksPerVersion \in Nat
  BY <1>a, <1>b, <1>c
<1>e. head \in Nat
  BY <1>d DEF Init
<1>f. ends = [s \in 0..head |-> s]
  BY DEF Init, DenseEnds
<1>g. /\ nextNote = 1 /\ lastNote = 0 /\ slot = 0 /\ numBatches = 0
      /\ firstNew = head + 1 /\ saved = 0..head
      /\ backfillFrom = IF mode = "append" THEN firstNew ELSE None
      /\ pc = IF mode = "genesis" THEN "deploying" ELSE "waiting"
  BY DEF Init
<1>1. LedgerInv
  BY <1>e, <1>f, <1>g DEF LedgerInv, Handling, Uncounted
<1>2. AppendInv
  BY <1>e, <1>g DEF AppendInv, AppendIsContiguous, Handling, Preparing, None
<1>3. CountInv
  BY <1>g DEF CountInv
<1>4. RollupInv
  <2>1. head <= RollupStopHeight /\ RollupStopHeight \in Nat
    <3>1. /\ StopHeight(version, BlocksPerVersion) \in Nat
          /\ StopHeight(version, BlocksPerVersion) <= RollupStopHeight
      BY <1>b, StopHeightsBounded
    <3>2. head = StopHeight(version, BlocksPerVersion) \/ (head = 1 /\ version = 1)
      BY DEF Init, StopHeight
    <3>3. version = 1 => StopHeight(version, BlocksPerVersion) >= 1
      BY <1>a DEF StopHeight
    <3>4. RollupStopHeight \in Nat
      BY <1>a, <1>c DEF RollupStopHeight, ExtendedStopHeight, StopHeight
    <3>5. QED
      BY <3>1, <3>2, <3>3, <3>4
  <2>2. QED
    BY <1>b, <1>e, <1>f, <2>1 DEF RollupInv
<1>5. FlagType
  BY DEF Init, FlagType
<1>6. QED
  BY <1>1, <1>2, <1>3, <1>4, <1>5 DEF SlotInv

\* The slots' invariant holds throughout every run.
THEOREM SlotInvHolds == Spec => []SlotInv
<1>1. VerdictInv /\ SlotInv /\ [Next]_vars => SlotInv'
  BY LedgerStep, AppendStep, CountStep, RollupStep, FlagStep DEF SlotInv, VerdictInv
<1>2. QED
  BY InitSlots, VerdictInvHolds, <1>1, PTL DEF Spec

\* Appended data has no hole, whatever slot the run first observes, and
\* however its backfill, its rollup or its stream fails.
THEOREM AppendedDataIsContiguous == Spec => []AppendIsContiguous
<1>1. LedgerInv /\ AppendInv => AppendIsContiguous
  BY DEF AppendInv, AppendIsContiguous
<1>2. QED
  BY SlotInvHolds, <1>1, PTL DEF SlotInv

\* The state of a run is well typed; in particular no batch is counted twice,
\* for the count stays below the number of batches the run is to produce.
THEOREM SoakTypeCorrect == Spec => []TypeOK
<1>1. ASSUME VerdictInv, SlotInv, [Next]_vars PROVE TypeOK
  <2>a. /\ ThroughputStart \in Nat /\ RollupStopHeight \in Nat /\ numBatches \in Nat
        /\ head \in Nat /\ slot \in 0..(nextNote - 1) /\ lastNote \in 0..head
        /\ nextNote \in 1..(lastNote + 1)
    BY <1>1, ThroughputStartFacts DEF VerdictInv, VerdictType, SlotInv, LedgerInv
  <2>1. ends \in [0..head -> 0..RollupStopHeight]
    <3>1. ends \in [0..head -> Nat] /\ \A s \in 0..head : ends[s] <= RollupStopHeight
      BY <1>1 DEF SlotInv, LedgerInv, RollupInv
    <3>2. QED
      BY <2>a, <3>1
  <2>2. slot \in 0..head /\ nextNote \in 1..(head + 1)
    BY <2>a
  <2>3. numBatches \in 0..SaturatingSub(Target, 1)
    <3>1. CASE numBatches = 0
      BY <2>a, <3>1 DEF Target, SaturatingSub
    <3>2. CASE numBatches > 0
      <4>1. Counted \in 0..head
        BY <1>1, <2>a DEF Counted, SlotInv, LedgerInv, Uncounted, Handling
      <4>2. numBatches + ThroughputStart < RollupStopHeight
        <5>1. ends[Counted] \in 0..RollupStopHeight
          BY <2>1, <4>1
        <5>2. numBatches + ThroughputStart < ends[Counted]
          BY <1>1, <3>2 DEF SlotInv, CountInv
        <5>3. QED
          BY <2>a, <5>1, <5>2
      <4>3. QED
        BY <2>a, <3>2, <4>2 DEF Target, SaturatingSub
    <3>3. QED
      BY <2>a, <3>1, <3>2
  <2>4. QED
    BY <1>1, <2>a, <2>1, <2>2, <2>3
       DEF TypeOK, VerdictInv, VerdictType, SlotInv, LedgerInv, RollupInv, FlagType
<1>2. QED
  BY SlotInvHolds, VerdictInvHolds, <1>1, PTL DEF Spec
=============================================================================
