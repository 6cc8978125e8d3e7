---------------------------- MODULE ResyncVerify ----------------------------
(***************************************************************************)
(* resync_and_verify_slots (scripts/acceptance-test/src/lib.rs): a rollup  *)
(* node replays recorded DA data, version after version, while the harness *)
(* follows its slot subscription and compares every replayed slot with the *)
(* snapshot recorded for it.                                               *)
(*                                                                         *)
(* Two processes run concurrently.                                         *)
(*  - The node, started and replaced by the external rollup manager: it    *)
(*    replays slots, stops at its version's stop height, has its last slot *)
(*    patched by the next version's database migration, and may crash.     *)
(*  - The harness: it waits for the node's API, subscribes, and walks the  *)
(*    snapshots up to each slot it is notified of.                         *)
(* A step of the harness is one await: a notification, one slot fetched    *)
(* and compared, one API probe.  The node moves between any two of them.   *)
(***************************************************************************)
EXTENDS Integers, FiniteSets, RunPlan

CONSTANTS
    NumVersions,         \* versions of the spec (plan.manager_versions.len())
    BlocksPerVersion,    \* plan.blocks_per_version
    IgnoreMissingBelow,  \* missing snapshots below this slot are ignored; 10
    Recordings,          \* the recorded data sets a run may start from
    NewSlots,            \* bound: slots past the recorded data told apart
    MaxBadBodies         \* bound: slots whose replayed content is wrong

(***************************************************************************)
(* A recording: the last recorded slot, the cumulative batch count at the  *)
(* end of each slot (batch_range.end), and the slots with a snapshot on    *)
(* disk.  recorded_data_bounds takes the highest-numbered snapshot as the  *)
(* last slot, so that one exists.  Each version was stopped precisely at   *)
(* its stop height, so some slot's batches end at each version boundary.   *)
(* Its last field is of the run and not of the data: whether the node that *)
(* replays them may crash and its requests and streams may fail.           *)
(***************************************************************************)
Carries(r, s) == s > 0 /\ r.end[s] # r.end[s - 1]

IsRecording(r) ==
    /\ r.last \in Nat
    /\ r.end \in [0..r.last -> Nat]
    /\ r.saved \subseteq 0..r.last
    /\ r.last \in r.saved
    /\ r.end[0] = 0
    /\ \A s, t \in 0..r.last : s <= t => r.end[s] <= r.end[t]
    /\ \A c \in MigrationBoundaryCounts(NumVersions, BlocksPerVersion) :
          \E s \in 0..r.last : Carries(r, s) /\ r.end[s] = c
    /\ PlanAccepts(r.end[r.last], NumVersions, BlocksPerVersion)
    /\ r.mayCrash \in BOOLEAN

ASSUME ConstantsAssumption ==
    /\ NumVersions \in Nat \ {0}
    /\ BlocksPerVersion \in Nat \ {0}
    /\ IgnoreMissingBelow \in Nat
    /\ NewSlots \in Nat \ {0}
    /\ MaxBadBodies \in Nat

ASSUME RecordingsAssumption == \A r \in Recordings : IsRecording(r)

VARIABLES
    rec,           \* the recording this run replays, chosen at the start
    \* the node and its manager
    up,            \* the node process runs and its ledger API answers
    version,       \* the version the manager runs, 1..NumVersions
    head,          \* the highest slot the node's ledger holds
    root,          \* the state root of each slot of the ledger, abstracted
    badBody,       \* slots whose replayed content differs otherwise
    \* the slot subscription
    open,          \* the harness's current subscription is alive
    nextNote,      \* the next slot number it delivers
    lastNote,      \* the last slot number put on it
    \* the harness
    pc,
    checked,       \* the last notification whose snapshots were all compared
    cursor,        \* the slot the snapshot walk is at
    target,        \* the slot number of the notification being handled
    latestBatch,   \* latest_batch_num
    lastReconnect, \* last_reconnect_at: a slot number, or Never
    verified,      \* slots whose snapshot was compared and matched
    fresh,         \* a slot was compared for the first time since reconnecting
    stopRequested, \* the shutdown signal has been sent
    outcome,       \* how the function returned
    firstNew       \* the returned first_new_slot

nodeVars    == <<up, version, head, root, badBody>>
streamVars  == <<open, nextNote, lastNote>>
walkVars    == <<checked, cursor, target, latestBatch, verified>>
resultVars  == <<outcome, firstNew>>
harnessVars == <<pc, walkVars, lastReconnect, fresh, resultVars>>
vars        == <<rec, nodeVars, streamVars, harnessVars, stopRequested>>

Never    == -1
Roots    == {"recorded", "patched", "divergent"}
Outcomes == {"running", "ok", "missing_snapshot", "too_few_batches", "mismatch",
             "no_progress", "api_timeout", "subscribe_failed", "shutdown"}
Labels   == {"starting", "subscribing", "tailing", "verifying",
             "reconnecting", "done"}

\* Slots past the recorded data are told apart up to this one, which then
\* stands for every later slot.
MaxSlot == rec.last + NewSlots

\* batch_range.end of a replayed slot; slots past the data carry no batch.
BatchEnd(s) == IF s <= rec.last THEN rec.end[s] ELSE rec.end[rec.last]

MayCrash == rec.mayCrash

LastRecordedSlot == rec.last
ExpectedBatches  == ExpectedSetupBatches(rec.end[rec.last])

\* Mutant: no slot is exempt from the comparison of state roots.
NoMigrationBoundary(s) == FALSE

\* The boundary slot is the one that carries the boundary batch.
IsMigrationBoundary(s) ==
    /\ Carries(rec, s)
    /\ rec.end[s] \in MigrationBoundaryCounts(NumVersions, BlocksPerVersion)

\* compare_against_snapshot: the content is compared strictly, the state
\* root everywhere but at a migration boundary.
Matches(s) ==
    /\ s \notin badBody
    /\ IsMigrationBoundary(s) \/ root[s] = "recorded"
-----------------------------------------------------------------------------
(* The node and the rollup manager, external to this repository.  *)

\* The manager stops a version at its stop height.  The last version's is
\* beyond the data: an append has not generated it yet, and an acceptance
\* test extends it by one span.
AtStopHeight ==
    /\ version < NumVersions
    /\ BatchEnd(head) >= StopHeight(version, BlocksPerVersion)

\* The state root of slot s chains from the one before it: a divergence is
\* inherited, and a defect of the replaying version can start one.
ReplayedRoots ==
    IF root[head] = "divergent" THEN {"divergent"} ELSE {"recorded", "divergent"}

NodeReplay ==
    /\ up /\ ~AtStopHeight /\ head < MaxSlot
    /\ head' = head + 1
    /\ \E r \in ReplayedRoots :
          root' = [s \in 0..(head + 1) |-> IF s = head + 1 THEN r ELSE root[s]]
    /\ \/ UNCHANGED badBody
       \/ /\ Cardinality(badBody) < MaxBadBodies
          /\ badBody' = badBody \cup {head + 1}
    /\ lastNote' = IF open THEN head + 1 ELSE lastNote
    /\ UNCHANGED <<rec, up, version, open, nextNote, harnessVars, stopRequested>>

\* DA keeps producing blocks: a slot past MaxSlot is notified as MaxSlot.
NodeNewSlot ==
    /\ up /\ open /\ head = MaxSlot /\ nextNote > lastNote
    /\ nextNote' = MaxSlot
    /\ lastNote' = MaxSlot
    /\ UNCHANGED <<rec, nodeVars, open, harnessVars, stopRequested>>

\* Its API and its streams end together.
NodeStop ==
    /\ up /\ AtStopHeight
    /\ up' = FALSE
    /\ open' = FALSE
    /\ UNCHANGED <<rec, version, head, root, badBody, nextNote, lastNote,
                   harnessVars, stopRequested>>

\* The next version's migration, when it has one, rewrites the state root of
\* the slot the previous version stopped at; a defect makes the new root wrong.
Handover ==
    /\ ~up /\ AtStopHeight
    /\ version' = version + 1
    /\ \E r \in Roots :
          /\ root[head] = "divergent" => r = "divergent"
          /\ root' = [root EXCEPT ![head] = r]
    /\ UNCHANGED <<rec, up, head, badBody, streamVars, harnessVars, stopRequested>>

NodeStart ==
    /\ ~up /\ ~AtStopHeight
    /\ up' = TRUE
    /\ UNCHANGED <<rec, version, head, root, badBody, streamVars, harnessVars,
                   stopRequested>>

\* The process dies; NodeStart restarts it on the same ledger.
NodeCrash ==
    /\ MayCrash /\ up /\ ~AtStopHeight
    /\ up' = FALSE
    /\ open' = FALSE
    /\ UNCHANGED <<rec, version, head, root, badBody, nextNote, lastNote,
                   harnessVars, stopRequested>>

\* The subscription fails although the node runs on.
StreamDrops ==
    /\ MayCrash /\ open
    /\ open' = FALSE
    /\ UNCHANGED <<rec, nodeVars, nextNote, lastNote, harnessVars, stopRequested>>

RequestShutdown ==
    /\ ~stopRequested
    /\ stopRequested' = TRUE
    /\ UNCHANGED <<rec, nodeVars, streamVars, harnessVars>>
-----------------------------------------------------------------------------
(* The harness. *)

Fail(why) ==
    /\ pc' = "done"
    /\ outcome' = why
    /\ UNCHANGED <<firstNew, lastReconnect, fresh>>

\* Mutant: the slot after the last notification handled is returned.
SucceedAfterChecked(slot) ==
    /\ pc' = "done"
    /\ outcome' = "ok"
    /\ firstNew' = checked + 1
    /\ UNCHANGED <<lastReconnect, fresh>>

Succeed(slot) ==
    /\ pc' = "done"
    /\ outcome' = "ok"
    /\ firstNew' = slot
    /\ UNCHANGED <<lastReconnect, fresh>>

\* Mutant: interruptions are bridged however often they repeat.
BeginReconnectForever ==
    /\ lastReconnect' = checked
    /\ fresh' = FALSE
    /\ pc' = "reconnecting"
    /\ UNCHANGED resultVars

\* reconnect_after_handover up to its first await: the no-progress guard.
BeginReconnect ==
    IF lastReconnect = checked
    THEN Fail("no_progress")
    ELSE /\ lastReconnect' = checked
         /\ fresh' = FALSE
         /\ pc' = "reconnecting"
         /\ UNCHANGED resultVars

\* wait_for_endpoint: a probe succeeds as soon as the node is up; the deadline
\* and the shutdown signal are only looked at after a probe that failed.
ApiUp ==
    /\ pc \in {"starting", "reconnecting"} /\ up
    /\ pc' = "subscribing"
    /\ UNCHANGED <<rec, nodeVars, streamVars, walkVars, lastReconnect, fresh,
                   resultVars, stopRequested>>

ApiTimeout ==
    /\ pc \in {"starting", "reconnecting"} /\ ~up
    /\ Fail("api_timeout")
    /\ UNCHANGED <<rec, nodeVars, streamVars, walkVars, stopRequested>>

ShutdownWhileWaiting ==
    /\ pc \in {"starting", "reconnecting"} /\ ~up /\ stopRequested
    /\ Fail("shutdown")
    /\ UNCHANGED <<rec, nodeVars, streamVars, walkVars, stopRequested>>

\* A new subscription starts after the node's head.
Subscribe ==
    /\ pc = "subscribing" /\ up
    /\ open' = TRUE
    /\ nextNote' = head + 1
    /\ lastNote' = head
    /\ pc' = "tailing"
    /\ UNCHANGED <<rec, nodeVars, walkVars, lastReconnect, fresh, resultVars,
                   stopRequested>>

\* The subscription call itself is not retried.
SubscribeFails ==
    /\ pc = "subscribing" /\ ~up
    /\ Fail("subscribe_failed")
    /\ UNCHANGED <<rec, nodeVars, streamVars, walkVars, stopRequested>>

ReceiveSlot ==
    /\ pc = "tailing" /\ nextNote <= lastNote
    /\ nextNote' = nextNote + 1
    /\ target' = nextNote
    /\ cursor' = checked
    /\ pc' = "verifying"
    /\ UNCHANGED <<rec, nodeVars, open, lastNote, checked, latestBatch, verified,
                   lastReconnect, fresh, resultVars, stopRequested>>

\* The stream ended or failed; what it still held may be lost with it.
StreamInterrupted ==
    /\ pc = "tailing" /\ ~open
    /\ BeginReconnect
    /\ UNCHANGED <<rec, nodeVars, streamVars, walkVars, stopRequested>>

ShutdownWhileTailing ==
    /\ pc = "tailing" /\ stopRequested
    /\ Fail("shutdown")
    /\ UNCHANGED <<rec, nodeVars, streamVars, walkVars, stopRequested>>
-----------------------------------------------------------------------------
(* The snapshot walk: one slot of  checked..=slot.number  per step. *)

AtSlot == pc = "verifying" /\ cursor <= target

Advance == cursor' = cursor + 1 /\ pc' = pc

\* Mutant: a slot skipped for want of a snapshot is counted as compared.
SkipMissingAsVerified ==
    /\ AtSlot /\ cursor \notin rec.saved /\ cursor < IgnoreMissingBelow
    /\ Advance
    /\ verified' = verified \cup {cursor}
    /\ UNCHANGED <<rec, nodeVars, streamVars, checked, target, latestBatch,
                   lastReconnect, fresh, resultVars, stopRequested>>

SkipMissing ==
    /\ AtSlot /\ cursor \notin rec.saved /\ cursor < IgnoreMissingBelow
    /\ Advance
    /\ UNCHANGED <<rec, nodeVars, streamVars, checked, target, latestBatch,
                   verified, lastReconnect, fresh, resultVars, stopRequested>>

\* Mutant: any missing snapshot ends the resync.
FinishAtAnyMissing ==
    /\ AtSlot /\ cursor \notin rec.saved /\ cursor >= IgnoreMissingBelow
    /\ Succeed(cursor)
    /\ UNCHANGED <<rec, nodeVars, streamVars, walkVars, stopRequested>>

FinishAtMissing ==
    /\ AtSlot /\ cursor \notin rec.saved /\ cursor >= IgnoreMissingBelow
    /\ IF latestBatch < ExpectedBatches
       THEN Fail("missing_snapshot")
       ELSE Succeed(cursor)
    /\ UNCHANGED <<rec, nodeVars, streamVars, walkVars, stopRequested>>

\* latest_batch_num is taken from the snapshot before the slot is fetched.
SnapshotBatch == SaturatingSub(rec.end[cursor], 1)

\* Mutant: the walk is not repeated from the last slot that was compared.
FetchFailsAdvancing ==
    /\ AtSlot /\ cursor \in rec.saved /\ (~up \/ MayCrash)
    /\ latestBatch' = SnapshotBatch
    /\ checked' = target
    /\ BeginReconnect
    /\ UNCHANGED <<rec, nodeVars, streamVars, cursor, target, verified, stopRequested>>

\* Mutant: the interrupted subscription is kept.
FetchFailsKeepingStream ==
    /\ AtSlot /\ cursor \in rec.saved /\ (~up \/ MayCrash)
    /\ latestBatch' = SnapshotBatch
    /\ lastReconnect' = checked
    /\ fresh' = FALSE
    /\ pc' = "tailing"
    /\ UNCHANGED <<rec, nodeVars, streamVars, checked, cursor, target, verified,
                   resultVars, stopRequested>>

\* get_slot_by_id failed: checked is unchanged, so the slots compared for
\* this notification are compared again.
FetchFails ==
    /\ AtSlot /\ cursor \in rec.saved /\ (~up \/ MayCrash)
    /\ latestBatch' = SnapshotBatch
    /\ BeginReconnect
    /\ UNCHANGED <<rec, nodeVars, streamVars, checked, cursor, target, verified,
                   stopRequested>>

\* After a match: the last recorded slot ends the resync, any other one is
\* followed by the next.
AfterMatch ==
    IF cursor = LastRecordedSlot
    THEN /\ UNCHANGED cursor
         /\ IF SnapshotBatch < ExpectedBatches
            THEN Fail("too_few_batches")
            ELSE Succeed(cursor + 1)
    ELSE /\ Advance
         /\ fresh' = (fresh \/ cursor \notin verified)
         /\ UNCHANGED <<lastReconnect, resultVars>>

VerifySlot ==
    /\ AtSlot /\ cursor \in rec.saved /\ up
    /\ latestBatch' = SnapshotBatch
    /\ IF Matches(cursor)
       THEN verified' = verified \cup {cursor} /\ AfterMatch
       ELSE Fail("mismatch") /\ UNCHANGED <<verified, cursor>>
    /\ UNCHANGED <<rec, nodeVars, streamVars, checked, target, stopRequested>>

\* checked = slot.number, once the walk has reached the notified slot.
WalkDone ==
    /\ pc = "verifying" /\ cursor > target
    /\ checked' = target
    /\ pc' = "tailing"
    /\ UNCHANGED <<rec, nodeVars, streamVars, cursor, target, latestBatch,
                   verified, lastReconnect, fresh, resultVars, stopRequested>>
-----------------------------------------------------------------------------
Init ==
    /\ rec \in Recordings
    /\ up = FALSE /\ version = 1 /\ head = 0
    /\ root = [s \in {0} |-> "recorded"] /\ badBody = {}
    /\ open = FALSE /\ nextNote = 1 /\ lastNote = 0
    /\ pc = "starting"
    /\ checked = 0 /\ cursor = 0 /\ target = 0 /\ latestBatch = 0
    /\ lastReconnect = Never /\ verified = {} /\ fresh = FALSE
    /\ stopRequested = FALSE
    /\ outcome = "running" /\ firstNew = 0

Node == NodeReplay \/ NodeNewSlot \/ NodeStop \/ Handover \/ NodeStart

Wait == ApiUp \/ ApiTimeout \/ ShutdownWhileWaiting \/ Subscribe \/ SubscribeFails

Follow == ReceiveSlot \/ StreamInterrupted \/ ShutdownWhileTailing

Walk == SkipMissing \/ FinishAtMissing \/ FetchFails \/ VerifySlot \/ WalkDone

\* The function has returned.
Returned == pc = "done" /\ UNCHANGED vars

Next ==
    \/ Node \/ NodeCrash \/ StreamDrops \/ RequestShutdown
    \/ Wait \/ Follow \/ Walk
    \/ Returned

Spec == Init /\ [][Next]_vars

(***************************************************************************)
(* The node keeps replaying and DA keeps producing blocks, the manager     *)
(* carries a handover through, and the runtime polls the harness.  Nothing *)
(* is assumed of a crashed node: neither that it is restarted, nor that it *)
(* stops crashing.                                                         *)
(***************************************************************************)
Fairness ==
    /\ WF_vars(NodeReplay) /\ WF_vars(NodeNewSlot)
    /\ WF_vars(NodeStop) /\ WF_vars(Handover)
    /\ WF_vars(Wait \/ Follow \/ Walk)

FairSpec == Spec /\ Fairness
-----------------------------------------------------------------------------
NodeType ==
    /\ up \in BOOLEAN
    /\ version \in 1..NumVersions
    /\ head \in 0..MaxSlot
    /\ root \in [0..head -> Roots]
    /\ badBody \subseteq 0..head

StreamType ==
    /\ open \in BOOLEAN
    /\ nextNote \in Nat
    /\ lastNote \in 0..head

WalkType ==
    /\ checked \in Nat
    /\ cursor \in Nat
    /\ target \in 0..head
    /\ latestBatch \in Nat
    /\ verified \subseteq rec.saved

ControlType ==
    /\ pc \in Labels
    /\ lastReconnect \in Nat \cup {Never}
    /\ fresh \in BOOLEAN
    /\ stopRequested \in BOOLEAN
    /\ outcome \in Outcomes
    /\ firstNew \in Nat

TypeOK ==
    /\ rec \in Recordings
    /\ NodeType /\ StreamType /\ WalkType /\ ControlType

\* Every snapshot below the point the walk has reached has been compared:
\* neither an interruption nor a reconnect makes the walk jump over one.
NoSnapshotSkipped ==
    \A s \in rec.saved :
        (s < checked \/ (pc = "verifying" /\ s < cursor)) => s \in verified

\* A successful resync has compared every slot of the data that carries a
\* batch, apart from those among the first few that have no snapshot, and
\* reports the last recorded batch.
OkCoversEveryBatch ==
    outcome = "ok" =>
        /\ latestBatch = ExpectedBatches
        /\ \A s \in 0..rec.last :
              Carries(rec, s) /\ s >= IgnoreMissingBelow => s \in verified

\* first_new_slot is where the data ends: every snapshot below it has been
\* compared, and no batch was recorded at or after it.
FirstNewSlotEndsData ==
    outcome = "ok" =>
        /\ \A s \in rec.saved : s < firstNew => s \in verified
        /\ \A s \in 0..rec.last : s >= firstNew => ~Carries(rec, s)

\* A slot's replay is faithful: it chains from the recorded history (patched
\* by migrations), and what is compared of its content is as recorded.
Faithful(s) == root[s] # "divergent" /\ (s \in rec.saved => s \notin badBody)

\* The resync succeeds only if every slot up to the last snapshot compared was
\* replayed faithfully, the boundary slots, whose roots are not compared, and
\* the slots without a snapshot included.
OkMeansFaithfulReplay ==
    outcome = "ok" =>
        \A s \in 0..(firstNew - 1) :
            (\E t \in rec.saved : s <= t /\ t < firstNew) => Faithful(s)

\* A mismatch is reported only for a replay that really diverged: the legal
\* races of the migration with the comparison raise no false alarm.
MismatchMeansDivergence ==
    outcome = "mismatch" => badBody # {} \/ \E s \in 0..head : root[s] = "divergent"

\* Without crashes, once the harness has subscribed and lost that subscription
\* to a handover, it subscribes to the next version: the old version's stop is
\* never taken for a crash loop, and the second subscription does not fail.  (A
\* version that stops between the first probe of its API and the first
\* subscription does end the resync: the call to subscribe is not retried.)
FollowedHandoverIsBridged ==
    ~MayCrash => /\ outcome # "no_progress"
                 /\ outcome = "subscribe_failed" => lastReconnect = Never

\* The no-progress error is raised only when no further slot was compared
\* since the previous reconnect.
NoProgressMeansNothingCompared == outcome = "no_progress" => ~fresh

\* The resync returns, even if the node crashes over and over or never
\* comes back.
Terminates == <>(pc = "done")
-----------------------------------------------------------------------------
(* The contract: the slots compared, the verdict and the slot returned. *)

Verdict == IF outcome \in {"running", "ok"} THEN outcome ELSE "failed"

Contract == INSTANCE ResyncContract WITH matched <- verified, verdict <- Verdict

\* With its interruptions, races and reconnects, the resync does what its callers
\* count on: no snapshot passed over or taken out of order, no early success.
ImplementsContract == Contract!Spec
=============================================================================
