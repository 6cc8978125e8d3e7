---------------------------- MODULE DataLifecycle ----------------------------
(***************************************************************************)
(* The recorded data of the acceptance test on disk, across successive     *)
(* setups and tests: the snapshots, the working and the durable MockDA     *)
(* database with its -wal file, the rollup state directory and the         *)
(* throughput baseline.                                                    *)
(*                                                                         *)
(* Sources: prepare_setup_run, run_setup and save_mock_data (bin/setup.rs),*)
(* prepare_test_run and run_test (main.rs), prepare_rollup_state_dir       *)
(* (config.rs), copy_persistent_mock_data (lib.rs).  Runs follow each      *)
(* other; each may fail or be killed between any two of its steps, and     *)
(* leaves the files as they are then.                                      *)
(*                                                                         *)
(* A database is the sequence of its blocks, one per slot; a slot is       *)
(* stamped with the run that produced it, holds the cumulative batch count *)
(* after it, and may be the one whose batch creates the manual setup's     *)
(* token.  A resync is one step here, a soak one step per slot:            *)
(* ResyncVerify and SoakRun have them in detail.                           *)
(***************************************************************************)
EXTENDS Integers, Sequences, FiniteSets, FiniteSetsExt, RunPlan

CONSTANTS
    BlocksPerVersion,
    MaxVersions,   \* bound: versions the spec grows to
    MaxRuns,       \* bound: runs that get past their preparation
    MaxEmpty,      \* bound: slots without a batch in a database
    MaxUnsaved,    \* slots a successful run may end without having saved
    NoFile,        \* a file that does not exist
    Torn           \* a file whose writing was cut short

ASSUME DataConstants ==
    /\ BlocksPerVersion \in Nat \ {0} /\ MaxVersions \in Nat \ {0}
    /\ MaxRuns \in Nat /\ MaxEmpty \in Nat /\ MaxUnsaved \in Nat

VARIABLES
    explicitDir,  \* --rollup-state-dir is given: never cleaned up
    versions,     \* versions of versions.yaml
    \* the files
    base, wal,    \* mock_da.sqlite and its -wal
    pbase, pwal,  \* persistent_mock_da.sqlite and its -wal
    dirty,        \* the rollup state directory is not empty
    snap,         \* the snapshot of each slot that has one
    baseline,     \* setup throughput file
    \* the current run, or the last one
    run, mode,
    da,           \* the blocks of the MockDA the run has open
    savedTo,      \* the slots up to it are not saved any more by this run
    pc, result,
    \* history
    best          \* the best throughput of the setups since the file was lost

users    == <<explicitDir, versions>>
working  == <<base, wal>>
durable  == <<pbase, pwal>>
reports  == <<baseline, best>>
current  == <<run, mode, da>>
vars     == <<users, working, durable, dirty, snap, reports, current, savedTo, pc,
              result>>

Slot    == [run : 0..MaxRuns, end : Nat, token : BOOLEAN]
Results == {"none", "ok", "refused", "mismatch", "failed"}
Labels  == {"idle", "removing", "copying_base", "copying_wal", "spawning",
            "manual", "resyncing", "soaking", "baseline", "saving_base",
            "saving_wal", "checking", "cleaning"}
Throughputs == {1, 2}

\* A missing file is no database, and neither mark is a throughput.
ASSUME MarksAreNoValues == NoFile # <<>> /\ {NoFile, Torn} \cap Throughputs = {}
-----------------------------------------------------------------------------
(* Databases and snapshots. *)

End(d) == IF d = <<>> THEN 0 ELSE d[Len(d)].end

Carries(d, s) == d[s].end # IF s = 1 THEN 0 ELSE d[s - 1].end

\* The supply of the manual setup's token is zero.
NoToken(d) == \A s \in DOMAIN d : ~d[s].token

\* A -wal file holds the pages written over the base file it was opened with.
Wal(over, full) == [over |-> over, full |-> full]

\* What a database yields when it is opened: the pages of a foreign -wal file
\* overlay those of the base file and leave nothing readable.
Garbled == <<[run |-> 0, end |-> 0, token |-> FALSE]>>
Opened(b, w) ==
    IF b = NoFile THEN <<>>
    ELSE IF w = NoFile THEN b
    ELSE IF w.full = b THEN b
    ELSE IF w.over = b THEN w.full
    ELSE Garbled

\* recorded_data_bounds.
HasSnapshots == DOMAIN snap # {}
LastRecorded == Max(DOMAIN snap)
Readable     == HasSnapshots /\ snap[LastRecorded] # Torn
EndHeight    == snap[LastRecorded].end

\* The slots of d are those of the snapshots.
Agrees(d) == HasSnapshots /\ \A s \in DOMAIN snap : s <= Len(d) /\ snap[s] = d[s]
-----------------------------------------------------------------------------
(* Preparation: prepare_setup_run and prepare_test_run. *)

ModeOf(kind) ==
    IF kind = "test" THEN "test"
    ELSE IF pbase # NoFile /\ versions > 1 THEN "append" ELSE "genesis"

\* --on-existing-rollup-state.  With "ignore" the node decides what to do with
\* a ledger of another MockDA: not modelled.
Policies == {"error", "clobber"}
StateDirRefused(policy) == policy = "error" /\ dirty

\* A setup without a durable MockDA ignores the snapshots it finds.
BoundsRead(kind) == kind = "test" \/ pbase # NoFile

PlanRefused(kind) ==
    /\ BoundsRead(kind) /\ HasSnapshots
    /\ Readable => ~PlanAccepts(EndHeight, versions, BlocksPerVersion)

\* Mutant: an append is not checked against the fork boundary.
AppendNeverRefused(kind) == FALSE

AppendRefused(kind) ==
    /\ ModeOf(kind) = "append"
    /\ Readable => AppendBoundary(EndHeight, versions, BlocksPerVersion) # "ok"

\* The state directory is prepared first, and stays cleared when the run is
\* refused after that.
Refuse(kind, policy) ==
    /\ pc = "idle"
    /\ \/ StateDirRefused(policy) /\ UNCHANGED dirty
       \/ /\ ~StateDirRefused(policy)
          /\ PlanRefused(kind) \/ AppendRefused(kind)
          /\ dirty' = FALSE
    /\ result' = "refused"
    /\ UNCHANGED <<users, working, durable, snap, reports, current, savedTo, pc>>

\* Only the modes that replay recorded data restore the durable MockDA.
Prepare(kind, policy) ==
    /\ pc = "idle" /\ run < MaxRuns
    /\ ~StateDirRefused(policy) /\ ~PlanRefused(kind) /\ ~AppendRefused(kind)
    /\ run' = run + 1 /\ mode' = ModeOf(kind)
    /\ dirty' = FALSE
    /\ da' = <<>> /\ savedTo' = 0 /\ result' = "none"
    /\ pc' = IF ModeOf(kind) = "genesis" THEN "spawning" ELSE "removing"
    /\ UNCHANGED <<users, working, durable, snap, reports>>
-----------------------------------------------------------------------------
(* copy_persistent_mock_data. *)

\* Mutant: only the base file is removed; a copy does not replace a -wal file.
RemoveStaleBase ==
    /\ pc = "removing"
    /\ base' = NoFile /\ UNCHANGED wal
    /\ pc' = "copying_base"
    /\ UNCHANGED <<users, durable, dirty, snap, reports, current, savedTo, result>>

RemoveStale ==
    /\ pc = "removing"
    /\ base' = NoFile /\ wal' = NoFile
    /\ pc' = "copying_base"
    /\ UNCHANGED <<users, durable, dirty, snap, reports, current, savedTo, result>>

CopyBase ==
    /\ pc = "copying_base" /\ pbase # NoFile
    /\ base' = pbase
    /\ pc' = "copying_wal"
    /\ UNCHANGED <<users, wal, durable, dirty, snap, reports, current, savedTo, result>>

\* The -wal file is copied only if there is one.
CopySidecars ==
    /\ pc = "copying_wal"
    /\ wal' = IF pwal = NoFile THEN wal ELSE pwal
    /\ pc' = "spawning"
    /\ UNCHANGED <<users, base, durable, dirty, snap, reports, current, savedTo, result>>
-----------------------------------------------------------------------------
(* The run proper. *)

\* Mutant: mode=rw, which does not create the database.
SpawnWithoutCreating ==
    /\ pc = "spawning"
    /\ da' = IF base = NoFile THEN NoFile ELSE Opened(base, wal)
    /\ dirty' = TRUE
    /\ pc' = IF mode = "genesis" THEN "manual" ELSE "resyncing"
    /\ UNCHANGED <<users, working, durable, snap, reports, run, mode, savedTo, result>>

\* The node opens mock_da.sqlite, creating it when missing (mode=rwc).
Spawn ==
    /\ pc = "spawning"
    /\ base' = IF base = NoFile THEN <<>> ELSE base
    /\ da' = Opened(base, wal)
    /\ dirty' = TRUE
    /\ pc' = IF mode = "genesis" THEN "manual" ELSE "resyncing"
    /\ UNCHANGED <<users, wal, durable, snap, reports, run, mode, savedTo, result>>

\* How the node leaves its database: closed, or with its writes in the -wal.
CloseDatabase ==
    \/ base' = da /\ wal' = NoFile
    \/ da # base /\ UNCHANGED base /\ wal' = Wal(base, da)

Abort(why) == pc' = "idle" /\ result' = why /\ CloseDatabase

\* do_manual_setup up to its first transaction: of what the node replayed, only
\* the supply of the token it is about to create is looked at; batches without
\* its transactions pass.  Slots are saved from its subscription on (those that
\* the node adds to the replayed ones before it are not told apart from them).
ManualSetup ==
    /\ pc = "manual"
    /\ IF NoToken(da)
       THEN pc' = "soaking" /\ savedTo' = Len(da) /\ UNCHANGED <<working, result>>
       ELSE Abort("failed") /\ UNCHANGED savedTo
    /\ UNCHANGED <<users, durable, dirty, snap, reports, current>>

\* Mutant: the replayed slots are not compared with their snapshots.
ResyncUnchecked ==
    /\ pc = "resyncing" /\ HasSnapshots
    /\ pc' = "soaking" /\ savedTo' = LastRecorded
    /\ UNCHANGED <<users, working, durable, dirty, snap, reports, current, result>>

\* resync_and_verify_slots compares every snapshot with the slot the node
\* replayed; first_new_slot follows the last one.
Resync ==
    /\ pc = "resyncing"
    /\ IF Agrees(da)
       THEN pc' = "soaking" /\ savedTo' = LastRecorded /\ UNCHANGED <<working, result>>
       ELSE Abort("mismatch") /\ UNCHANGED savedTo
    /\ UNCHANGED <<users, durable, dirty, snap, reports, current>>

StopAt ==
    IF mode = "test"
    THEN ExtendedStopHeight(versions, BlocksPerVersion, BlocksPerVersion)
    ELSE StopHeight(versions, BlocksPerVersion)

\* The rollup produces a slot, with a batch or without.  A batch may be empty:
\* only one of the manual setup's, on a ledger without it, creates the token.
Produce ==
    /\ pc = "soaking" /\ End(da) < StopAt
    /\ \E batch \in {0, 1}, token \in BOOLEAN :
          /\ batch = 0 => Len(da) - End(da) < MaxEmpty
          /\ token => batch = 1 /\ mode = "genesis" /\ NoToken(da)
          /\ da' = Append(da, [run |-> run, end |-> End(da) + batch, token |-> token])
    /\ UNCHANGED <<users, working, durable, dirty, snap, reports, run, mode, savedTo,
                   pc, result>>

WithSnapshot(s, content) ==
    [t \in DOMAIN snap \cup {s} |-> IF t = s THEN content ELSE snap[t]]

\* save_slot_snapshot replaces the slot's file.
SaveSnapshot ==
    /\ pc = "soaking" /\ mode # "test" /\ savedTo < Len(da)
    /\ savedTo' = savedTo + 1
    /\ snap' = WithSnapshot(savedTo + 1, da[savedTo + 1])
    /\ UNCHANGED <<users, working, durable, dirty, reports, current, pc, result>>

\* run_soak succeeded and the rollup has stopped; the manual setup before it had
\* seen, and saved, the slot with its first batch.
SoakEnds ==
    /\ pc = "soaking" /\ End(da) >= StopAt
    /\ mode # "test" => Len(da) - savedTo <= MaxUnsaved
    /\ mode = "genesis" => \E s \in 1..savedTo : da[s].token
    /\ CloseDatabase
    /\ pc' = IF mode = "test" THEN "checking" ELSE "baseline"
    /\ UNCHANGED <<users, durable, dirty, snap, reports, current, savedTo, result>>
-----------------------------------------------------------------------------
(* The end of run_setup and of run_test. *)

\* Mutant: the latest report always becomes the baseline.
OverwriteAlways(new) == TRUE

\* should_overwrite_throughput.
ShouldOverwrite(new) == baseline \in {NoFile, Torn} \/ new > baseline

WriteBaseline ==
    /\ pc = "baseline"
    /\ \E new \in Throughputs :
          /\ baseline' = IF ShouldOverwrite(new) THEN new ELSE baseline
          /\ best' = IF new > best THEN new ELSE best
    /\ pc' = "saving_base"
    /\ UNCHANGED <<users, working, durable, dirty, snap, current, savedTo, result>>

\* save_mock_data renames the base file first.
SaveBase ==
    /\ pc = "saving_base"
    /\ pbase' = base /\ base' = NoFile
    /\ pc' = "saving_wal"
    /\ UNCHANGED <<users, wal, pwal, dirty, snap, reports, current, savedTo, result>>

\* A -wal file that cannot be renamed, because there is none, is ignored.
SaveSidecars ==
    /\ pc = "saving_wal"
    /\ IF wal = NoFile THEN UNCHANGED <<wal, pwal>> ELSE pwal' = wal /\ wal' = NoFile
    /\ pc' = "cleaning"
    /\ UNCHANGED <<users, base, pbase, dirty, snap, reports, current, savedTo, result>>

\* throughput_regression_min_ratio, in tenths, of the full and the short profile.
MinRatios == {9, 7}

\* The test's throughput may be that much below the baseline's, which must be
\* readable; --no-throughput-check skips the comparison.
CheckBaseline ==
    /\ pc = "checking"
    /\ \E new \in Throughputs, check \in BOOLEAN, ratio \in MinRatios :
          IF check => baseline \in Throughputs /\ 10 * new >= ratio * baseline
          THEN pc' = "cleaning" /\ UNCHANGED result
          ELSE pc' = "idle" /\ result' = "failed"
    /\ UNCHANGED <<users, working, durable, dirty, snap, reports, current, savedTo>>

Cleanup ==
    /\ pc = "cleaning"
    /\ dirty' = explicitDir
    /\ pc' = "idle" /\ result' = "ok"
    /\ UNCHANGED <<users, working, durable, snap, reports, current, savedTo>>
-----------------------------------------------------------------------------
(* A step fails, or the process is killed; writing a file is not atomic. *)

NodeRuns == pc \in {"manual", "resyncing", "soaking"}

FailWithNode ==
    /\ NodeRuns
    /\ Abort("failed")
    /\ \/ UNCHANGED snap
       \/ /\ pc = "soaking" /\ mode # "test" /\ savedTo < Len(da)
          /\ snap' = WithSnapshot(savedTo + 1, Torn)
    /\ UNCHANGED <<users, durable, dirty, reports, current, savedTo>>

FailWithoutNode ==
    /\ pc # "idle" /\ ~NodeRuns
    /\ pc' = "idle" /\ result' = "failed"
    /\ \/ UNCHANGED reports
       \/ pc = "baseline" /\ baseline' = Torn /\ best' = 0
    /\ UNCHANGED <<users, working, durable, dirty, snap, current, savedTo>>
-----------------------------------------------------------------------------
(* The users of the test, between runs. *)

\* A hard fork adds a version to versions.yaml.
GrowSpec ==
    /\ pc = "idle" /\ versions < MaxVersions
    /\ versions' = versions + 1
    /\ result' = "none"
    /\ UNCHANGED <<explicitDir, working, durable, dirty, snap, reports, current,
                   savedTo, pc>>

NoSnapshots == [s \in {} |-> Torn]

\* rm -r acceptance-test-data acceptance-throughput.
ClearData ==
    /\ pc = "idle"
    /\ base' = NoFile /\ wal' = NoFile /\ pbase' = NoFile /\ pwal' = NoFile
    /\ snap' = NoSnapshots
    /\ dirty' = (dirty /\ explicitDir)
    /\ baseline' = NoFile /\ best' = 0
    /\ result' = "none"
    /\ UNCHANGED <<users, current, savedTo, pc>>
-----------------------------------------------------------------------------
Init ==
    /\ explicitDir \in BOOLEAN
    /\ versions = 1
    /\ base = NoFile /\ wal = NoFile /\ pbase = NoFile /\ pwal = NoFile
    /\ dirty = FALSE /\ snap = NoSnapshots /\ baseline = NoFile
    /\ run = 0 /\ mode = "genesis" /\ da = <<>> /\ savedTo = 0
    /\ pc = "idle" /\ result = "none" /\ best = 0

Start ==
    \E kind \in {"setup", "test"}, policy \in Policies :
        Refuse(kind, policy) \/ Prepare(kind, policy)

Restore == RemoveStale \/ CopyBase \/ CopySidecars

Generate == Spawn \/ ManualSetup \/ Resync \/ Produce \/ SaveSnapshot \/ SoakEnds

Conclude == WriteBaseline \/ SaveBase \/ SaveSidecars \/ CheckBaseline \/ Cleanup

Next ==
    \/ Start \/ Restore \/ Generate \/ Conclude
    \/ FailWithNode \/ FailWithoutNode
    \/ GrowSpec \/ ClearData

Spec == Init /\ [][Next]_vars
-----------------------------------------------------------------------------
IsDatabase(b) == b = NoFile \/ b \in Seq(Slot)
IsWal(w)      == w = NoFile \/ w \in [over : Seq(Slot), full : Seq(Slot)]

TypeOK ==
    /\ explicitDir \in BOOLEAN /\ versions \in 1..MaxVersions
    /\ IsDatabase(base) /\ IsDatabase(pbase) /\ IsWal(wal) /\ IsWal(pwal)
    /\ dirty \in BOOLEAN
    /\ DOMAIN snap \subseteq Nat /\ \A s \in DOMAIN snap : snap[s] \in Slot \cup {Torn}
    /\ baseline \in Throughputs \cup {NoFile, Torn} /\ best \in Throughputs \cup {0}
    /\ run \in 0..MaxRuns /\ mode \in {"genesis", "append", "test"}
    /\ da \in Seq(Slot) /\ savedTo \in Nat
    /\ pc \in Labels /\ result \in Results

Verified == pc \in {"soaking", "baseline", "checking"} \/ result = "ok"

\* The verdict of a test is about the recorded data and nothing else: whatever
\* earlier runs left in the working files, it gets past the resync only if the
\* snapshots are those of the durable MockDA, and reports a mismatch only if
\* they are not.
TestJudgesRecordedData ==
    mode = "test" =>
        /\ Verified => Agrees(Opened(pbase, pwal))
        /\ result = "mismatch" => ~Agrees(Opened(pbase, pwal))

\* A successful setup leaves data that ends at its versions' stop height and holds
\* the recorded slot of a manual setup.  All batches of the last version are its
\* own when it appends; from genesis, all but such as precede the manual setup.
OkSetupGeneratesItsVersions ==
    result = "ok" /\ mode # "test" =>
        /\ End(da) = StopHeight(versions, BlocksPerVersion)
        /\ \E s \in DOMAIN snap : s \in DOMAIN da /\ da[s].token
        /\ \A s \in DOMAIN da :
              da[s].run # run => IF mode = "append"
                                 THEN da[s].end <= StopHeight(versions - 1, BlocksPerVersion)
                                 ELSE ~da[s].token

\* A successful append leaves the snapshots of its MockDA, of the old versions
\* and of the new one, whatever the runs between the setups left.
OkAppendMatchesSnapshots == result = "ok" /\ mode = "append" => Agrees(da)

\* The baseline is the best throughput of the setups since it was created,
\* torn or removed: a slower setup does not lower the bar for the tests.  A
\* setup that succeeds leaves one, whatever it found.
BaselineIsBest ==
    /\ baseline \in Throughputs => baseline = best
    /\ result = "ok" /\ mode # "test" => baseline \in Throughputs

\* A setup that regenerates everything from genesis starts on an empty MockDA.
GenesisStartsEmpty == pc = "manual" => da = <<>>
=============================================================================
