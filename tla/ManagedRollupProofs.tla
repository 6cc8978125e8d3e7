------------------------- MODULE ManagedRollupProofs -------------------------
(***************************************************************************)
(* Proofs about ManagedRollup, for any number of nodes the manager starts: *)
(* what a run leaves behind, in which order it stops its processes, and    *)
(* what its result says of them.                                           *)
(***************************************************************************)
EXTENDS ManagedRollup, TLAPS

\* The task holds a rollup process, from the spawn to its drop.
Holding == {"early", "soak", "ensure", "sigterm", "graceful", "sigkill", "forced"}

\* The task is stopping the rollup, with a verdict on the run.
Stopping == {"ensure", "sigterm", "graceful", "sigkill", "forced"}

\* Where the manager's process is, as the task goes on.
ManagerInv ==
    /\ task \in {"start", "docker_run", "probe"} => manager = "none"
    /\ manager \in {"forked", "armed", "failed"} => task = "spawn"
    /\ task = "spawn" => manager # "reaped"
    /\ task \in Holding => manager \in {"running", "stopping", "killed", "zombie"}
    /\ main = "killed" => manager # "running"

\* A node runs only under a manager, unless that has crashed; once the rollup was
\* dropped, only under one that has crashed and had been waited for.
NodeInv ==
    /\ manager \in {"none", "forked", "armed", "failed"} => node = "none"
    /\ manager = "killed" => ~NodeAlive
    /\ manager \in {"zombie", "reaped"} /\ exit # "crashed" => ~NodeAlive
    /\ task \in {"drop_postgres", "ended"} =>
          /\ manager \notin {"running", "stopping"}
          /\ NodeAlive => manager = "reaped" /\ exit = "crashed"

\* The container runs from its start until its guard is dropped.
ContainerInv ==
    /\ task \in {"probe", "spawn", "drop_rollup"} \cup Holding => container = "running"
    /\ task = "ended" /\ docker = "up" => container # "running"

\* A success comes from a manager that was waited for and had succeeded.
ResultInv ==
    /\ task \in Stopping => result # "none"
    /\ task \in {"drop_rollup", "drop_postgres", "ended"} /\ result = "ok" =>
          manager = "reaped" /\ exit = "success"
    /\ main = "select" => ~shutdown
    /\ main = "returned" => task = "ended"
    /\ outcome # "none" => main = "returned"
    /\ outcome = "ok" => result = "ok" /\ ~shutdown

Inductive == TypeOK /\ ManagerInv /\ NodeInv /\ ContainerInv /\ ResultInv

\* The steps of the task, in the order in which a run takes them.
Prelude == RemoveStale \/ DockerRun \/ Probe \/ Fork \/ SpawnReturns \/ Early
Soak    == SoakReaps \/ SoakBreaks \/ WaitReaps \/ WaitTimesOut
Signals == Sigterm \/ Sigkill
Drops   == DropRollup \/ DropPostgres \/ Unwind
Main    == MainNext \/ HarnessDies \/ Done \/ UNCHANGED vars
-----------------------------------------------------------------------------
\* A step is one of a process, of the task or of main.
LEMMA StepCases ==
    ASSUME [Next]_vars
    PROVE  Processes \/ Child \/ Prelude \/ Soak \/ Signals \/ Drops \/ Main
BY DEF Next, TaskNext, Prelude, Soak, Signals, Drops, Main

\* The invariant holds initially.
LEMMA InitInductive == Init => Inductive
<1> SUFFICES ASSUME Init PROVE Inductive
  OBVIOUS
<1>1. TypeOK
  <2>1. starts = 0 /\ 0 \in 0..MaxStarts
    BY ManagedRollupConstants DEF Init
  <2>2. container \in {"absent", "created", "running"}
    BY DEF Init
  <2>3. QED
    BY <2>1, <2>2 DEF Init, TypeOK
<1>2. ManagerInv /\ NodeInv
  BY DEF Init, ManagerInv, NodeInv, Holding, NodeAlive
<1>3. ContainerInv /\ ResultInv
  BY DEF Init, ContainerInv, ResultInv, Holding, Stopping
<1>4. QED
  BY <1>1, <1>2, <1>3 DEF Inductive

\* Every step keeps the types, and an ending task its result.
LEMMA TypeStep == TypeOK /\ ResultInv /\ [Next]_vars => TypeOK'
<1> SUFFICES ASSUME TypeOK, ResultInv, [Next]_vars PROVE TypeOK'
  OBVIOUS
<1>1. CASE Processes
  BY <1>1, ManagedRollupConstants DEF TypeOK, ResultInv, Stopping, Processes,
     StartNode, NodeExits, PassSigterm, ManagerExits, ManagerCrashes,
     KilledManagerEnds, DockerFails, NodeAlive, vars, harness, rollup, AtAwait, DockerReturns
<1>2. CASE Child
  BY <1>2 DEF TypeOK, ResultInv, Stopping, Child, ArmDeathSignal,
     CheckParentAndExec, vars, harness, rollup, AtAwait, DockerReturns
<1>3. CASE Prelude
  BY <1>3 DEF TypeOK, ResultInv, Stopping, Prelude, RemoveStale, DockerRun, Probe,
     Fork, SpawnReturns, Early, Remove, Finish, SetTask, vars, harness, rollup, AtAwait, DockerReturns
<1>4. CASE Soak
  BY <1>4 DEF TypeOK, ResultInv, Stopping, Soak, SoakReaps, SoakBreaks, WaitReaps,
     WaitTimesOut, Exited, Finish, SetTask, vars, harness, rollup, AtAwait, DockerReturns
<1>5. CASE Signals
  BY <1>5 DEF TypeOK, ResultInv, Stopping, Signals, Sigterm, Sigkill, SignalGroup,
     SetTask, NodeAlive, vars, harness, rollup, AtAwait, DockerReturns
<1>6. CASE Drops
  BY <1>6 DEF TypeOK, ResultInv, Stopping, Drops, DropRollup, DropPostgres, Unwind,
     SignalGroup, Remove, HasId, Finish, SetTask, NodeAlive, vars, harness, rollup, AtAwait, DockerReturns
<1>7. CASE Main
  BY <1>7 DEF TypeOK, ResultInv, Stopping, Main, MainNext, TakeSignal, Return,
     AbortTask, HarnessDies, Done, vars, harness, rollup, AtAwait, DockerReturns
<1>8. QED
  BY <1>1, <1>2, <1>3, <1>4, <1>5, <1>6, <1>7, StepCases

\* Every step keeps the manager where the task expects it.
LEMMA ManagerStep == TypeOK /\ ManagerInv /\ [Next]_vars => ManagerInv'
<1> SUFFICES ASSUME TypeOK, ManagerInv, [Next]_vars PROVE ManagerInv'
  OBVIOUS
<1>1. CASE Processes
  BY <1>1 DEF TypeOK, ManagerInv, Holding, Processes, StartNode, NodeExits,
     PassSigterm, ManagerExits, ManagerCrashes, KilledManagerEnds, DockerFails,
     NodeAlive, vars, harness, rollup, AtAwait, DockerReturns
<1>2. CASE Child
  BY <1>2 DEF TypeOK, ManagerInv, Holding, Child, ArmDeathSignal,
     CheckParentAndExec, vars, harness, rollup, AtAwait, DockerReturns
<1>3. CASE Prelude
  BY <1>3 DEF TypeOK, ManagerInv, Holding, Prelude, RemoveStale, DockerRun, Probe,
     Fork, SpawnReturns, Early, Remove, Finish, SetTask, vars, harness, rollup, AtAwait, DockerReturns
<1>4. CASE Soak
  BY <1>4 DEF TypeOK, ManagerInv, Holding, Soak, SoakReaps, SoakBreaks, WaitReaps,
     WaitTimesOut, Exited, Finish, SetTask, vars, harness, rollup, AtAwait, DockerReturns
<1>5. CASE Signals
  BY <1>5 DEF TypeOK, ManagerInv, Holding, Signals, Sigterm, Sigkill, SignalGroup,
     SetTask, NodeAlive, vars, harness, rollup, AtAwait, DockerReturns
<1>6. CASE Drops
  BY <1>6 DEF TypeOK, ManagerInv, Holding, Drops, DropRollup, DropPostgres, Unwind,
     SignalGroup, Remove, HasId, Finish, SetTask, NodeAlive, vars, harness, rollup, AtAwait, DockerReturns
<1>7. CASE Main
  BY <1>7 DEF TypeOK, ManagerInv, Holding, Main, MainNext, TakeSignal, Return,
     AbortTask, HarnessDies, Done, vars, harness, rollup, AtAwait, DockerReturns
<1>8. QED
  BY <1>1, <1>2, <1>3, <1>4, <1>5, <1>6, <1>7, StepCases

\* No step leaves a node behind that nobody can stop, the crashed manager's excepted.
LEMMA NodeStep == TypeOK /\ ManagerInv /\ NodeInv /\ [Next]_vars => NodeInv'
<1> SUFFICES ASSUME TypeOK, ManagerInv, NodeInv, [Next]_vars PROVE NodeInv'
  OBVIOUS
<1>1. CASE Processes
  BY <1>1 DEF TypeOK, ManagerInv, NodeInv, Holding, NodeAlive, Processes, StartNode,
     NodeExits, PassSigterm, ManagerExits, ManagerCrashes, KilledManagerEnds,
     DockerFails, vars, harness, rollup, AtAwait, DockerReturns
<1>2. CASE Child
  BY <1>2 DEF TypeOK, ManagerInv, NodeInv, Holding, NodeAlive, Child,
     ArmDeathSignal, CheckParentAndExec, vars, harness, rollup, AtAwait, DockerReturns
<1>3. CASE Prelude
  BY <1>3 DEF TypeOK, ManagerInv, NodeInv, Holding, NodeAlive, Prelude, RemoveStale,
     DockerRun, Probe, Fork, SpawnReturns, Early, Remove, Finish, SetTask, vars, AtAwait, DockerReturns,
     harness, rollup, AtAwait, DockerReturns
<1>4. CASE Soak
  BY <1>4 DEF TypeOK, ManagerInv, NodeInv, Holding, NodeAlive, Soak, SoakReaps,
     SoakBreaks, WaitReaps, WaitTimesOut, Exited, Finish, SetTask, vars, harness, AtAwait, DockerReturns,
     rollup
<1>5. CASE Signals
  BY <1>5 DEF TypeOK, ManagerInv, NodeInv, Holding, NodeAlive, Signals, Sigterm,
     Sigkill, SignalGroup, SetTask, vars, harness, rollup, AtAwait, DockerReturns
<1>6. CASE Drops
  BY <1>6 DEF TypeOK, ManagerInv, NodeInv, Holding, NodeAlive, Drops, DropRollup,
     DropPostgres, Unwind, SignalGroup, Remove, HasId, Finish, SetTask, vars, AtAwait, DockerReturns,
     harness, rollup, AtAwait, DockerReturns
<1>7. CASE Main
  BY <1>7 DEF TypeOK, ManagerInv, NodeInv, Holding, NodeAlive, Main, MainNext,
     TakeSignal, Return, AbortTask, HarnessDies, Done, vars, harness, rollup, AtAwait, DockerReturns
<1>8. QED
  BY <1>1, <1>2, <1>3, <1>4, <1>5, <1>6, <1>7, StepCases

\* Every step keeps the container as long as the rollup, and no longer.
LEMMA ContainerStep == TypeOK /\ ContainerInv /\ [Next]_vars => ContainerInv'
<1> SUFFICES ASSUME TypeOK, ContainerInv, [Next]_vars PROVE ContainerInv'
  OBVIOUS
<1>1. CASE Processes
  BY <1>1 DEF TypeOK, ContainerInv, Holding, Processes, StartNode, NodeExits,
     PassSigterm, ManagerExits, ManagerCrashes, KilledManagerEnds, DockerFails,
     NodeAlive, vars, harness, rollup, AtAwait, DockerReturns
<1>2. CASE Child
  BY <1>2 DEF TypeOK, ContainerInv, Holding, Child, ArmDeathSignal,
     CheckParentAndExec, vars, harness, rollup, AtAwait, DockerReturns
<1>3. CASE Prelude
  BY <1>3 DEF TypeOK, ContainerInv, Holding, Prelude, RemoveStale, DockerRun, Probe,
     Fork, SpawnReturns, Early, Remove, Finish, SetTask, vars, harness, rollup, AtAwait, DockerReturns
<1>4. CASE Soak
  BY <1>4 DEF TypeOK, ContainerInv, Holding, Soak, SoakReaps, SoakBreaks, WaitReaps,
     WaitTimesOut, Exited, Finish, SetTask, vars, harness, rollup, AtAwait, DockerReturns
<1>5. CASE Signals
  BY <1>5 DEF TypeOK, ContainerInv, Holding, Signals, Sigterm, Sigkill, SignalGroup,
     SetTask, NodeAlive, vars, harness, rollup, AtAwait, DockerReturns
<1>6. CASE Drops
  BY <1>6 DEF TypeOK, ContainerInv, Holding, Drops, DropRollup, DropPostgres,
     Unwind, SignalGroup, Remove, HasId, Finish, SetTask, NodeAlive, vars, harness, AtAwait, DockerReturns,
     rollup
<1>7. CASE Main
  BY <1>7 DEF TypeOK, ContainerInv, Holding, Main, MainNext, TakeSignal, Return,
     AbortTask, HarnessDies, Done, vars, harness, rollup, AtAwait, DockerReturns
<1>8. QED
  BY <1>1, <1>2, <1>3, <1>4, <1>5, <1>6, <1>7, StepCases

\* Every step keeps the result true to the manager's exit.
LEMMA ResultStep == TypeOK /\ ManagerInv /\ ResultInv /\ [Next]_vars => ResultInv'
<1> SUFFICES ASSUME TypeOK, ManagerInv, ResultInv, [Next]_vars PROVE ResultInv'
  OBVIOUS
<1>1. CASE Processes
  BY <1>1 DEF TypeOK, ManagerInv, ResultInv, Holding, Stopping, Processes,
     StartNode, NodeExits, PassSigterm, ManagerExits, ManagerCrashes,
     KilledManagerEnds, DockerFails, NodeAlive, vars, harness, rollup, AtAwait, DockerReturns
<1>2. CASE Child
  BY <1>2 DEF TypeOK, ManagerInv, ResultInv, Holding, Stopping, Child,
     ArmDeathSignal, CheckParentAndExec, vars, harness, rollup, AtAwait, DockerReturns
<1>3. CASE Prelude
  BY <1>3 DEF TypeOK, ManagerInv, ResultInv, Holding, Stopping, Prelude,
     RemoveStale, DockerRun, Probe, Fork, SpawnReturns, Early, Remove, Finish,
     SetTask, vars, harness, rollup, AtAwait, DockerReturns
<1>4. CASE Soak
  <2>1. CASE SoakReaps \/ SoakBreaks
    BY <2>1 DEF TypeOK, ManagerInv, ResultInv, Holding, Stopping, SoakReaps,
       SoakBreaks, Exited, Finish, SetTask, rollup, AtAwait
  <2>2. CASE WaitReaps
    BY <2>2 DEF TypeOK, ManagerInv, ResultInv, Holding, Stopping, WaitReaps,
       AtAwait, Exited, Finish
  <2>3. CASE WaitTimesOut
    <3>1. UNCHANGED <<main, shutdown, aborted, outcome, manager, exit>>
      BY <2>3 DEF WaitTimesOut, rollup
    <3>2. \/ task' \in {"sigterm", "sigkill"} /\ result' = result
          \/ task' = "drop_rollup" /\ result' = "error"
      BY <2>3 DEF WaitTimesOut, AtAwait, SetTask, Finish
    <3>3. task \in Stopping /\ result # "none"
      BY <2>3 DEF WaitTimesOut, AtAwait, ResultInv, Stopping
    <3>4. QED
      BY <3>1, <3>2, <3>3 DEF ResultInv, Stopping
  <2>4. QED
    BY <1>4, <2>1, <2>2, <2>3 DEF Soak
<1>5. CASE Signals
  BY <1>5 DEF TypeOK, ManagerInv, ResultInv, Holding, Stopping, Signals, Sigterm,
     Sigkill, SignalGroup, SetTask, NodeAlive, vars, harness, rollup, AtAwait, DockerReturns
<1>6. CASE Drops
  BY <1>6 DEF TypeOK, ManagerInv, ResultInv, Holding, Stopping, Drops, DropRollup,
     DropPostgres, Unwind, SignalGroup, Remove, HasId, Finish, SetTask, NodeAlive,
     vars, harness, rollup, AtAwait, DockerReturns
<1>7. CASE Main
  BY <1>7 DEF TypeOK, ManagerInv, ResultInv, Holding, Stopping, Main, MainNext,
     TakeSignal, Return, AbortTask, HarnessDies, Done, vars, harness, rollup, AtAwait, DockerReturns
<1>8. QED
  BY <1>1, <1>2, <1>3, <1>4, <1>5, <1>6, <1>7, StepCases
-----------------------------------------------------------------------------
\* The invariant holds throughout every run.
THEOREM ManagedRollupInvHolds == Spec => []Inductive
<1>1. Inductive /\ [Next]_vars => Inductive'
  BY TypeStep, ManagerStep, NodeStep, ContainerStep, ResultStep DEF Inductive
<1>2. QED
  BY InitInductive, <1>1, PTL DEF Spec

\* Type correctness: the processes and the task are always well typed, and a task
\* that is ending has its result.
THEOREM ManagedRollupTypeCorrect == Spec => []TypeOK
<1>1. Inductive => TypeOK
  BY DEF Inductive
<1>2. QED
  BY ManagedRollupInvHolds, <1>1, PTL

\* A run that has returned leaves no process behind, but the node of a manager that
\* crashed and had been waited for.
THEOREM NoSurvivorsAreLeft == Spec => []NoSurvivors
<1>1. Inductive => NoSurvivors
  BY DEF Inductive, ManagerInv, NodeInv, ResultInv, NoSurvivors
<1>2. QED
  BY ManagedRollupInvHolds, <1>1, PTL

\* While the harness lives, the database outlives every node it was started for.
THEOREM NodesHaveTheirDatabase == Spec => []PostgresOutlivesNode
<1>1. Inductive => PostgresOutlivesNode
  BY DEF Inductive, TypeOK, ManagerInv, NodeInv, ContainerInv,
     Holding, NodeAlive, PostgresOutlivesNode
<1>2. QED
  BY ManagedRollupInvHolds, <1>1, PTL

\* A run that has returned leaves no container running, if docker answered.
THEOREM ContainerIsRemoved == Spec => []ContainerRemoved
<1>1. Inductive => ContainerRemoved
  BY DEF Inductive, ContainerInv, ResultInv, ContainerRemoved
<1>2. QED
  BY ManagedRollupInvHolds, <1>1, PTL

\* However the harness dies, it leaves no manager that was not asked to stop.
THEOREM DeathStopsManager == Spec => []DeathReachesManager
<1>1. Inductive => DeathReachesManager
  BY DEF Inductive, ManagerInv, DeathReachesManager
<1>2. QED
  BY ManagedRollupInvHolds, <1>1, PTL

\* A success is a rollup that has ended with status 0, and no signal's doing.
THEOREM SuccessMeansCleanEnd == Spec => []SuccessIsClean
<1>1. Inductive => SuccessIsClean
  BY DEF Inductive, NodeInv, ResultInv, SuccessIsClean
<1>2. QED
  BY ManagedRollupInvHolds, <1>1, PTL
=============================================================================
