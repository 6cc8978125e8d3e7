------------------------------ MODULE RunPlan ------------------------------
(***************************************************************************)
(* The arithmetic of an acceptance run plan: rollup heights at which each  *)
(* version starts and stops, the check that recorded data fits the version *)
(* spec, the counts at which a database migration runs, and the split of   *)
(* the soak workers' salts between versions.                               *)
(*                                                                         *)
(* Source: scripts/acceptance-test/src/versioned_setup.rs and              *)
(* scripts/acceptance-test/src/bin/setup.rs.  Heights are u64 in the code  *)
(* and stay far below 2^64, so they are naturals here; saturating_sub is   *)
(* kept, because the code relies on it at zero.                            *)
(*                                                                         *)
(* n is the number of versions of the spec, bpv the blocks per version.    *)
(* Versions are numbered 1..n (the code's idx is the number minus one).    *)
(***************************************************************************)
EXTENDS Integers

SaturatingSub(a, b) == IF a >= b THEN a - b ELSE 0

\* The height at which the manager stops version v.
StopHeight(v, bpv) == v * bpv

\* The height at which version v starts; the first one starts at genesis,
\* which the code writes as None and run_setup reads as "no start height".
StartHeight(v, bpv) == IF v = 1 THEN 0 ELSE (v - 1) * bpv + 1

\* The last stop height of an acceptance test, which runs one more span.
ExtendedStopHeight(n, bpv, extra) == StopHeight(n, bpv) + extra

\* Recorded data that ends at rollup height end is usable with n versions.
PlanAccepts(end, n, bpv) ==
    /\ end % bpv = 0
    /\ end \div bpv >= SaturatingSub(n, 1)
    /\ end \div bpv <= n

\* Batch numbers lag the rollup height by one: genesis carries no batch.
ExpectedSetupBatches(end) == SaturatingSub(end, 1)

\* Mutant: the last version's stop height is counted as a handover as well.
MigrationBoundaryCountsInclusive(n, bpv) == {k * bpv : k \in 1..n}

\* Cumulative batch counts at which a version handover runs its migration.
MigrationBoundaryCounts(n, bpv) == {k * bpv : k \in 1..(n - 1)}

NoBatch == -1

\* How existing data relates to the fork boundary of an append.
ClassifyAppendBoundary(maxBatch, prevStopHeight) ==
    LET expected == SaturatingSub(prevStopHeight, 1)
    IN  IF maxBatch = NoBatch THEN "no_snapshots"
        ELSE IF maxBatch < expected THEN "incomplete"
        ELSE IF maxBatch = expected THEN "ok"
        ELSE "already_contains_last_version"

\* The verdict on data that ends at height end, for an append onto n versions.
AppendBoundary(end, n, bpv) ==
    ClassifyAppendBoundary(SaturatingSub(end, 1), StopHeight(n - 1, bpv))

\* The salts of the workers that generate version v of a from-genesis run,
\* and of the one segment an append generates (the last version's).
SoakSalts(v, base, workers) ==
    {base + workers * (v - 1) + w : w \in 0..(workers - 1)}
LastVersionSoakSalts(n, base, workers) ==
    {base + workers * SaturatingSub(n, 1) + w : w \in 0..(workers - 1)}
=============================================================================
