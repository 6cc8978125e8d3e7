---------------------------- MODULE ManagedRollup ----------------------------
(***************************************************************************)
(* The processes of a run: the harness (main waits for a signal beside the *)
(* task that does the run), the rollup manager it spawns in a process      *)
(* group of its own, the node the manager starts in that group, and the    *)
(* container of the database the node uses.                                *)
(*                                                                         *)
(* run_until_shutdown_signal, PostgresContainerGuard and                   *)
(* ManagedRollupProcess are in lib.rs, spawn_rollup_manager in             *)
(* versioned_setup.rs (on Linux).  The manager and the node are outside    *)
(* the repository.  Time is not measured: a timeout may end its wait at    *)
(* any moment.                                                             *)
(***************************************************************************)
EXTENDS Integers

CONSTANT MaxStarts    \* bound: nodes the manager starts, one per version

ASSUME ManagedRollupConstants == MaxStarts \in Nat

VARIABLES
    main,        \* run_until_shutdown_signal; "killed" when the harness died
    shutdown,    \* the shutdown request on the watch channel
    task,        \* where the run's task is
    aborted,     \* run_handle.abort() was called
    result,      \* how the task ends: "none", "ok", "error", "cancelled" or "panicked"
    outcome,     \* what the harness returns
    manager,     \* the manager's process
    exit,        \* how it ended
    node,        \* the node's process
    starts,      \* nodes started
    container,   \* the database's container
    docker       \* "up", "down" (its calls fail) or "hung" (they never return)

harness == <<main, shutdown, task, aborted, result, outcome>>
rollup  == <<manager, exit, node, starts>>
vars    == <<harness, rollup, container, docker>>

NodeAlive == node \in {"running", "stopping"}

\* Child::id: None once the child has been waited for.
HasId == manager \notin {"none", "reaped"}
Exited == manager = "zombie"

SetTask(label) == task' = label
-----------------------------------------------------------------------------
\* The manager waits for its node before it exits, and passes a SIGTERM on; it may crash.
StartNode ==
    /\ manager = "running" /\ node \in {"none", "dead"} /\ starts < MaxStarts
    /\ node' = "running" /\ starts' = starts + 1
    /\ UNCHANGED <<harness, manager, exit, container, docker>>

NodeExits ==
    /\ NodeAlive
    /\ node' = "dead"
    /\ UNCHANGED <<harness, manager, exit, starts, container, docker>>

PassSigterm ==
    /\ manager = "stopping" /\ node = "running"
    /\ node' = "stopping"
    /\ UNCHANGED <<harness, manager, exit, starts, container, docker>>

ManagerExits ==
    /\ manager \in {"running", "stopping"} /\ ~NodeAlive
    /\ manager' = "zombie"
    /\ exit' \in {"success", "failure"}
    /\ UNCHANGED <<harness, node, starts, container, docker>>

ManagerCrashes ==
    /\ manager \in {"running", "stopping"}
    /\ manager' = "zombie" /\ exit' = "crashed"
    /\ UNCHANGED <<harness, node, starts, container, docker>>

\* A killed process is gone once the kernel lets go of it.
KilledManagerEnds ==
    /\ manager = "killed"
    /\ manager' = "zombie" /\ exit' = "failure"
    /\ UNCHANGED <<harness, node, starts, container, docker>>

DockerFails ==
    /\ docker = "up" /\ docker' \in {"down", "hung"}
    /\ UNCHANGED <<harness, rollup, container>>

\* Mutant: only the leader is signalled.
SignalLeader(sig) ==
    /\ manager' = IF manager \notin {"running", "stopping"} THEN manager
                  ELSE IF sig = "SIGTERM" THEN "stopping" ELSE "killed"
    /\ UNCHANGED <<exit, node, starts>>
-----------------------------------------------------------------------------
(***************************************************************************)
(* The spawn of the manager: in the forked child, before its exec, the     *)
(* death of the parent is armed as a SIGTERM, then the parent is looked    *)
(* for.  spawn returns when the exec has happened or failed.               *)
(***************************************************************************)
Fork ==
    /\ task = "spawn" /\ manager = "none" /\ main # "killed"
    /\ manager' = "forked"
    /\ UNCHANGED <<harness, exit, node, starts, container, docker>>

\* send_rollup_process_group_signal: every process of the group has it, also when the
\* leader is a zombie; a group that is gone is no error.
SignalGroup(sig) ==
    /\ manager' = IF manager \notin {"running", "stopping"} THEN manager
                  ELSE IF sig = "SIGTERM" THEN "stopping" ELSE "killed"
    /\ node' = IF ~NodeAlive THEN node ELSE IF sig = "SIGTERM" THEN "stopping" ELSE "dead"
    /\ UNCHANGED <<exit, starts>>

ArmDeathSignal ==
    /\ manager = "forked"
    /\ manager' = "armed"
    /\ UNCHANGED <<harness, exit, node, starts, container, docker>>

\* Mutant: the parent is not looked for.
ExecBlindly ==
    /\ manager = "armed"
    /\ manager' = "running" /\ UNCHANGED exit
    /\ UNCHANGED <<harness, node, starts, container, docker>>

CheckParentAndExec ==
    /\ manager = "armed"
    /\ \/ main # "killed" /\ manager' = "running" /\ UNCHANGED exit
       \/ manager' = "failed" /\ exit' = "failure"    \* the parent is gone, or exec fails
    /\ UNCHANGED <<harness, node, starts, container, docker>>

SpawnReturns ==
    /\ task = "spawn"
    /\ \/ /\ manager = "failed"
          /\ manager' = "reaped"
          /\ SetTask("drop_postgres") /\ result' = "error"
       \/ /\ manager \notin {"none", "forked", "armed", "failed"}
          /\ SetTask("early") /\ UNCHANGED <<manager, result>>
    /\ UNCHANGED <<main, shutdown, aborted, outcome, exit, node, starts, container, docker>>
-----------------------------------------------------------------------------
\* docker_output waits for the command without a timeout: nothing, not even an abort,
\* ends a call that docker does not answer.
DockerReturns == docker # "hung"

\* cleanup_postgres_container: docker rm -f.
Remove == container' = IF docker = "up" THEN "absent" ELSE container

RemoveStale ==
    /\ task = "start" /\ DockerReturns
    /\ Remove
    /\ IF docker = "up" THEN SetTask("docker_run") /\ UNCHANGED result
                        ELSE SetTask("ended") /\ result' = "error"
    /\ UNCHANGED <<main, shutdown, aborted, outcome, rollup, docker>>

\* docker run may fail after it has created the container, which nothing removes.
DockerRun ==
    /\ task = "docker_run" /\ DockerReturns
    /\ \/ /\ docker = "up"
          /\ container' = "running" /\ SetTask("probe") /\ UNCHANGED result
       \/ /\ container' \in {"absent"} \cup (IF docker = "up" THEN {"created"} ELSE {})
          /\ SetTask("ended") /\ result' = "error"
    /\ UNCHANGED <<main, shutdown, aborted, outcome, rollup, docker>>

\* Mutant: the readiness wait leaves the container when it runs out.
ProbeOnly ==
    /\ task = "probe" /\ DockerReturns
    /\ \/ docker = "up" /\ SetTask("spawn") /\ UNCHANGED result
       \/ SetTask("ended") /\ result' = "error"
    /\ UNCHANGED <<main, shutdown, aborted, outcome, rollup, container, docker>>

\* The probes of pg_isready: ready, not in time, or docker does not run.
Probe ==
    /\ task = "probe" /\ DockerReturns
    /\ \/ /\ docker = "up"
          /\ SetTask("spawn") /\ UNCHANGED <<result, container>>
       \/ /\ docker = "up" /\ Remove
          /\ SetTask("ended") /\ result' = "error"
       \/ /\ docker = "down"
          /\ SetTask("ended") /\ result' = "error" /\ UNCHANGED container
    /\ UNCHANGED <<main, shutdown, aborted, outcome, rollup, docker>>

\* A task that was aborted is not resumed at its next await: it is cancelled there.
AtAwait(labels) == task \in labels /\ ~aborted

\* The resync or the manual setup; it does not look at the manager's process.
Early ==
    /\ AtAwait({"early"})
    /\ \/ SetTask("soak") /\ UNCHANGED result
       \/ SetTask("drop_rollup") /\ result' = "error"
    /\ UNCHANGED <<main, shutdown, aborted, outcome, rollup, container, docker>>

\* Mutant: what ended the run is not kept.
FinishSilently(verdict) == SetTask("drop_rollup") /\ UNCHANGED result

Finish(verdict) == SetTask("drop_rollup") /\ result' = verdict

\* run_soak sees the rollup's exit (rollup.wait, try_wait): a failed exit is its error, and
\* with either there is nothing left to stop.
SoakReaps ==
    /\ AtAwait({"soak"}) /\ Exited
    /\ manager' = "reaped"
    /\ Finish(IF exit = "success" THEN "ok" ELSE "error")
    /\ UNCHANGED <<main, shutdown, aborted, outcome, exit, node, starts, container, docker>>

\* It breaks with an error, the shutdown request one of them, or without one.
SoakBreaks ==
    /\ AtAwait({"soak"})
    /\ \/ SetTask("sigterm") /\ result' = "error"
       \/ ~shutdown /\ SetTask("ensure") /\ result' = "ok"
    /\ UNCHANGED <<main, shutdown, aborted, outcome, rollup, container, docker>>

\* wait_for_exit, in ensure_stopped and after each signal of shutdown.
WaitReaps ==
    /\ AtAwait({"ensure", "graceful", "forced"}) /\ Exited
    /\ manager' = "reaped"
    /\ Finish(IF exit = "success" THEN result ELSE "error")
    /\ UNCHANGED <<main, shutdown, aborted, outcome, exit, node, starts, container, docker>>

WaitTimesOut ==
    /\ AtAwait({"ensure", "graceful", "forced"}) /\ ~Exited
    /\ CASE task = "ensure"   -> SetTask("sigterm") /\ UNCHANGED result
         [] task = "graceful" -> SetTask("sigkill") /\ UNCHANGED result
         [] task = "forced"   -> Finish("error")
    /\ UNCHANGED <<main, shutdown, aborted, outcome, rollup, container, docker>>

Sigterm ==
    /\ task = "sigterm"
    /\ SignalGroup("SIGTERM")
    /\ SetTask("graceful")
    /\ UNCHANGED <<main, shutdown, aborted, result, outcome, container, docker>>

Sigkill ==
    /\ task = "sigkill"
    /\ SignalGroup("SIGKILL")
    /\ SetTask("forced")
    /\ UNCHANGED <<main, shutdown, aborted, result, outcome, container, docker>>

\* Mutant: the guards are dropped in the order they were made.
DropGuardFirst ==
    /\ task = "drop_rollup"
    /\ Remove
    /\ SetTask("drop_postgres")
    /\ UNCHANGED <<main, shutdown, aborted, result, outcome, rollup, docker>>

\* Drop of ManagedRollupProcess: a manager not waited for is killed, with its group.
DropRollup ==
    /\ task = "drop_rollup"
    /\ IF HasId THEN SignalGroup("SIGKILL") ELSE UNCHANGED rollup
    /\ SetTask("drop_postgres")
    /\ UNCHANGED <<main, shutdown, aborted, result, outcome, container, docker>>

\* Drop of PostgresContainerGuard, whose failure is logged.
DropPostgres ==
    /\ task = "drop_postgres" /\ DockerReturns
    /\ Remove
    /\ SetTask("ended")
    /\ UNCHANGED <<main, shutdown, aborted, result, outcome, rollup, docker>>

\* An abort ends the task at an await, a panic where it is; both drop what it holds.
Unwind ==
    /\ task \in {"early", "soak", "ensure", "graceful", "forced"}
    /\ \/ aborted /\ Finish("cancelled")
       \/ task \in {"early", "soak"} /\ Finish("panicked")
    /\ UNCHANGED <<main, shutdown, aborted, outcome, rollup, container, docker>>

TaskNext ==
    /\ main # "killed"
    /\ \/ RemoveStale \/ DockerRun \/ Probe \/ Fork \/ SpawnReturns
       \/ Early \/ SoakReaps \/ SoakBreaks \/ WaitReaps \/ WaitTimesOut \/ Sigterm \/ Sigkill
       \/ DropRollup \/ DropPostgres \/ Unwind
-----------------------------------------------------------------------------
\* One of the four signals; main takes the first, further ones change nothing.
TakeSignal ==
    /\ main = "select"
    /\ main' = "grace" /\ shutdown' = TRUE
    /\ UNCHANGED <<task, aborted, result, outcome, rollup, container, docker>>

\* Mutant: the task's result counts, signal or not.
ReturnResult ==
    /\ main \in {"select", "grace", "aborting"} /\ task = "ended"
    /\ main' = "returned"
    /\ outcome' = IF result = "ok" THEN "ok" ELSE "error"
    /\ UNCHANGED <<shutdown, task, aborted, result, rollup, container, docker>>

\* The task's result, which is an error after a signal.
Return ==
    /\ main \in {"select", "grace", "aborting"} /\ task = "ended"
    /\ main' = "returned"
    /\ outcome' = IF result = "ok" /\ main = "select" THEN "ok" ELSE "error"
    /\ UNCHANGED <<shutdown, task, aborted, result, rollup, container, docker>>

\* Mutant: the wait runs out, and the task is waited for as it is.
AbortForgotten ==
    /\ main = "grace" /\ task # "ended"
    /\ main' = "aborting"
    /\ UNCHANGED <<shutdown, task, aborted, result, outcome, rollup, container, docker>>

\* The wait for the task runs out; it is aborted, then waited for without a timeout.
AbortTask ==
    /\ main = "grace" /\ task # "ended"
    /\ main' = "aborting" /\ aborted' = TRUE
    /\ UNCHANGED <<shutdown, task, result, outcome, rollup, container, docker>>

\* The harness dies without running its destructors; the kernel delivers the armed signal.
HarnessDies ==
    /\ main \in {"select", "grace", "aborting"}
    /\ main' = "killed"
    /\ manager' = IF manager = "running" THEN "stopping"
                  ELSE IF manager = "armed" THEN "failed" ELSE manager
    /\ exit' = IF manager = "armed" THEN "failure" ELSE exit
    /\ UNCHANGED <<shutdown, task, aborted, result, outcome, node, starts, container, docker>>

MainNext == TakeSignal \/ Return \/ AbortTask

Processes ==
    \/ StartNode \/ NodeExits \/ PassSigterm \/ ManagerExits \/ ManagerCrashes
    \/ KilledManagerEnds \/ DockerFails

Child == ArmDeathSignal \/ CheckParentAndExec

Done == main \in {"returned", "killed"} /\ UNCHANGED vars

\* A container of an interrupted run may still be there.
Init ==
    /\ main = "select" /\ shutdown = FALSE /\ task = "start" /\ aborted = FALSE
    /\ result = "none" /\ outcome = "none"
    /\ manager = "none" /\ exit = "none" /\ node = "none" /\ starts = 0
    /\ container \in {"absent", "running"} /\ docker = "up"

Next == MainNext \/ TaskNext \/ Child \/ Processes \/ HarnessDies \/ Done

Spec == Init /\ [][Next]_vars

\* What the task does by itself: its preparation, the waits of its teardown, which have
\* timeouts, the drops, and the end of a task that was aborted.
TaskProgress ==
    /\ main # "killed"
    /\ \/ RemoveStale \/ DockerRun \/ Probe \/ Fork \/ SpawnReturns
       \/ WaitReaps \/ WaitTimesOut \/ Sigterm \/ Sigkill \/ DropRollup \/ DropPostgres
       \/ aborted /\ Unwind

\* The runtime polls main and the task, and a forked child gets to its exec. Nothing is
\* assumed of the manager, the node, docker, or the requests that the resync, the manual
\* setup and the soak wait for.
FairSpec ==
    /\ Spec
    /\ WF_vars(Return \/ AbortTask) /\ WF_vars(TaskProgress) /\ WF_vars(Child)
-----------------------------------------------------------------------------
\* The variables have their types, and a task that is ending has its result.
TypeOK ==
    /\ main \in {"select", "grace", "aborting", "returned", "killed"}
    /\ shutdown \in BOOLEAN /\ aborted \in BOOLEAN
    /\ task \in {"start", "docker_run", "probe", "spawn", "early", "soak", "ensure", "sigterm",
                 "graceful", "sigkill", "forced", "drop_rollup", "drop_postgres", "ended"}
    /\ result \in {"none", "ok", "error", "cancelled", "panicked"}
    /\ task \in {"drop_rollup", "drop_postgres", "ended"} => result # "none"
    /\ outcome \in {"none", "ok", "error"}
    /\ manager \in {"none", "forked", "armed", "failed", "running", "stopping", "killed",
                    "zombie", "reaped"}
    /\ exit \in {"none", "success", "failure", "crashed"}
    /\ node \in {"none", "running", "stopping", "dead"} /\ starts \in 0..MaxStarts
    /\ container \in {"absent", "created", "running"} /\ docker \in {"up", "down", "hung"}

\* A run that has returned leaves no process of the group behind, except the node of a
\* manager that crashed and had been waited for: its group can no longer be signalled.
NoSurvivors ==
    main = "returned" =>
        /\ manager \notin {"running", "stopping"}
        /\ NodeAlive => manager = "reaped" /\ exit = "crashed"

\* While the harness lives, a node never runs without its database, the node of a crashed
\* manager excepted: the container is removed last.
PostgresOutlivesNode ==
    NodeAlive /\ main # "killed" /\ exit # "crashed" => container = "running"

\* A run that has returned leaves no container running, if docker answered.
ContainerRemoved == main = "returned" /\ docker = "up" => container # "running"

\* However the harness dies, a manager it was about to start does not start, and one that
\* runs is asked to stop.
DeathReachesManager == main = "killed" => manager # "running"

\* A success is a rollup that has ended by itself or on request, with status 0.
SuccessIsClean == outcome = "ok" => exit = "success" /\ ~NodeAlive /\ ~shutdown

\* A signal ends the harness, wherever the run is and whatever it waits for; only a call
\* of docker that never returns can hold it up.
SignalEndsRun ==
    shutdown ~> \/ main \in {"returned", "killed"}
                \/ ~DockerReturns /\ task \in {"start", "docker_run", "probe", "drop_postgres"}

\* The process group lets cleanup always terminate the manager's whole subtree: no node is
\* left running, with nobody having asked it to stop, when the run returns.
NoNodeIsOrphaned == main = "returned" => node # "running"
=============================================================================
