------------------------- MODULE ResyncVerifyProofs -------------------------
(***************************************************************************)
(* Proofs about ResyncVerify, for every recording, number of versions and  *)
(* span.  The inductive invariant is Inductive: the type invariant and     *)
(* named parts, each proved to be preserved by a lemma of its own.  OkInv  *)
(* is kept apart, because it alone needs more than one block per version.  *)
(***************************************************************************)
EXTENDS ResyncVerify, TLAPS

\* A slot below the point up to which the walk has gone.
Walked(s) == s < checked \/ (pc = "verifying" /\ s < cursor)

\* A version replays nothing past the slot at which it stops.
StopInv ==
    version < NumVersions =>
        \A s \in 0..(head - 1) : BatchEnd(s) < StopHeight(version, BlocksPerVersion)

\* A divergent root is inherited by every later slot, and only the slots of
\* migration boundaries are ever patched.
ChainInv ==
    /\ \A s, t \in 0..head : s < t /\ root[s] = "divergent" => root[t] = "divergent"
    /\ \A s \in 0..head : root[s] = "patched" => IsMigrationBoundary(s)

\* The walk is at a recorded slot, and has left behind nothing but compared
\* snapshots and, among the first slots, missing ones.
WalkInv ==
    /\ checked <= rec.last
    /\ pc = "verifying" => checked <= cursor /\ cursor <= rec.last
    /\ NoSnapshotSkipped
    /\ \A s \in IgnoreMissingBelow..rec.last : Walked(s) => s \in rec.saved

\* latest_batch_num comes from a snapshot that no missing one precedes.
BatchInv ==
    latestBatch = 0 \/
        \E t \in rec.saved :
            /\ latestBatch = SaturatingSub(rec.end[t], 1)
            /\ \A s \in IgnoreMissingBelow..t : s \in rec.saved

\* What was compared stays as it was, but for the roots of boundary slots.
VerifiedInv ==
    \A s \in verified :
        /\ s <= head
        /\ s \notin badBody
        /\ IsMigrationBoundary(s) \/ root[s] = "recorded"

\* A successful return has compared a snapshot at which the batches end.
OkInv ==
    /\ outcome = "ok" =>
          /\ pc = "done"
          /\ OkCoversEveryBatch
          /\ FirstNewSlotEndsData
          /\ rec.end[rec.last] > 0 =>
                \E u \in rec.saved : u < firstNew /\ rec.end[u] = rec.end[rec.last]
    /\ outcome # "running" => pc = "done"

Inductive ==
    /\ TypeOK /\ StopInv /\ ChainInv /\ WalkInv /\ BatchInv
    /\ VerifiedInv /\ MismatchMeansDivergence
-----------------------------------------------------------------------------
\* What a recording is, as facts about its fields.
LEMMA RecordingFacts ==
    ASSUME NEW r \in Recordings
    PROVE  /\ r.last \in Nat
           /\ r.end \in [0..r.last -> Nat]
           /\ r.saved \subseteq 0..r.last
           /\ r.last \in r.saved
           /\ r.end[0] = 0
           /\ \A s, t \in 0..r.last : s <= t => r.end[s] <= r.end[t]
BY RecordingsAssumption DEF IsRecording

\* The recorded data is never replaced.
LEMMA RecordingFixed == [Next]_vars => rec' = rec
BY DEF Next, vars, Node, Wait, Follow, Walk, NodeReplay, NodeNewSlot, NodeStop,
       Handover, NodeStart, NodeCrash, StreamDrops, RequestShutdown, ApiUp,
       ApiTimeout, ShutdownWhileWaiting, Subscribe, SubscribeFails, ReceiveSlot,
       StreamInterrupted, ShutdownWhileTailing, SkipMissing, FinishAtMissing,
       FetchFails, VerifySlot, WalkDone, Returned

\* The initial states are well typed.
LEMMA InitType == Init => TypeOK
<1> SUFFICES ASSUME Init PROVE TypeOK
  OBVIOUS
<1>1. rec \in Recordings /\ rec.last \in Nat
  BY RecordingFacts DEF Init
<1>2. MaxSlot \in Nat
  BY <1>1, ConstantsAssumption DEF MaxSlot
<1>3. NodeType
  <2>1. head = 0 /\ version = 1 /\ up = FALSE /\ badBody = {}
    BY DEF Init
  <2>2. root \in [0..head -> Roots]
    BY <2>1 DEF Init, Roots
  <2>3. version \in 1..NumVersions /\ head \in 0..MaxSlot
    BY <1>2, <2>1, ConstantsAssumption
  <2>4. QED
    BY <2>1, <2>2, <2>3 DEF NodeType
<1>4. StreamType
  <2>1. head = 0 /\ nextNote = 1 /\ lastNote = 0
    BY DEF Init
  <2>2. open \in BOOLEAN
    BY DEF Init
  <2>3. nextNote \in Nat /\ lastNote \in 0..head
    BY <2>1
  <2>4. QED
    BY <2>2, <2>3 DEF StreamType
<1>7. WalkType
  <2>1. /\ head = 0 /\ checked = 0 /\ cursor = 0 /\ target = 0
        /\ latestBatch = 0 /\ verified = {}
    BY DEF Init
  <2>2. QED
    BY <2>1 DEF WalkType
<1>5. ControlType
  BY DEF Init, ControlType, Labels, Outcomes
<1>6. QED
  BY <1>1, <1>3, <1>4, <1>5, <1>7 DEF TypeOK

\* No step of the harness touches the node.
LEMMA HarnessFrame ==
    Wait \/ Follow \/ Walk => UNCHANGED <<rec, nodeVars, stopRequested>>
BY DEF Wait, Follow, Walk, ApiUp, ApiTimeout, ShutdownWhileWaiting, Subscribe,
       SubscribeFails, ReceiveSlot, StreamInterrupted, ShutdownWhileTailing,
       SkipMissing, FinishAtMissing, FetchFails, VerifySlot, WalkDone

\* No step of the node, of the manager or of a signal touches the harness.
Environment == Node \/ NodeCrash \/ StreamDrops \/ RequestShutdown

LEMMA EnvironmentFrame == Environment => UNCHANGED <<rec, harnessVars>>
BY DEF Environment, Node, NodeReplay, NodeNewSlot, NodeStop, Handover,
       NodeStart, NodeCrash, StreamDrops, RequestShutdown

\* Only replaying a slot moves the head of the ledger, by one slot.
LEMMA LedgerFrame ==
    [Next]_vars => NodeReplay \/ Handover \/ UNCHANGED <<version, head, root, badBody>>
BY HarnessFrame
   DEF Next, Node, NodeNewSlot, NodeStop, NodeStart, NodeCrash, StreamDrops,
       RequestShutdown, Returned, vars, nodeVars

\* Every step keeps the node's part of the state well typed.
LEMMA NextNodeType == TypeOK /\ [Next]_vars => NodeType' /\ head' >= head
<1> SUFFICES ASSUME TypeOK, [Next]_vars PROVE NodeType' /\ head' >= head
  OBVIOUS
<1>a. rec' = rec /\ rec \in Recordings
  BY RecordingFixed DEF TypeOK
<1>b. MaxSlot \in Nat /\ MaxSlot' = MaxSlot
  BY <1>a, RecordingFacts, ConstantsAssumption DEF MaxSlot
<1>c. /\ head \in 0..MaxSlot /\ root \in [0..head -> Roots]
      /\ badBody \subseteq 0..head /\ version \in 1..NumVersions
      /\ up \in BOOLEAN
  BY DEF TypeOK, NodeType
<1>d. up' \in BOOLEAN
  BY <1>c, HarnessFrame
     DEF Next, Node, NodeReplay, NodeNewSlot, NodeStop, Handover, NodeStart,
         NodeCrash, StreamDrops, RequestShutdown, Returned, vars, nodeVars
<1>1. CASE NodeReplay
  <2>1. head' \in 0..MaxSlot /\ head' = head + 1 /\ version' = version
    BY <1>1, <1>b, <1>c DEF NodeReplay
  <2>2. root' \in [0..head' -> Roots]
    BY <1>1, <1>c, <2>1 DEF NodeReplay, ReplayedRoots, Roots
  <2>3. badBody' = badBody \/ badBody' = badBody \cup {head + 1}
    BY <1>1 DEF NodeReplay
  <2>4. badBody' \subseteq 0..head'
    <3>1. head \in Nat /\ badBody \subseteq 0..head /\ head' = head + 1
      BY <1>b, <1>c, <2>1
    <3>2. CASE badBody' = badBody
      BY <3>1, <3>2
    <3>3. CASE badBody' = badBody \cup {head + 1}
      BY <3>1, <3>3
    <3>4. QED
      BY <2>3, <3>2, <3>3
  <2>5. QED
    BY <1>b, <1>c, <1>d, <2>1, <2>2, <2>4 DEF NodeType
<1>2. CASE Handover
  <2>1. version' \in 1..NumVersions
    BY <1>2, <1>c, ConstantsAssumption DEF Handover, AtStopHeight
  <2>2. root' \in [0..head' -> Roots] /\ head' = head /\ badBody' = badBody
    BY <1>2, <1>c DEF Handover
  <2>3. QED
    BY <1>b, <1>c, <1>d, <2>1, <2>2 DEF NodeType
<1>3. CASE UNCHANGED <<version, head, root, badBody>>
  BY <1>3, <1>b, <1>c, <1>d DEF NodeType
<1>4. QED
  BY <1>1, <1>2, <1>3, LedgerFrame

\* Every step keeps the subscription well typed.
LEMMA NextStreamType == TypeOK /\ [Next]_vars => StreamType'
<1> SUFFICES ASSUME TypeOK, [Next]_vars PROVE StreamType'
  OBVIOUS
<1>a. head \in Nat /\ head' \in Nat /\ head' >= head /\ MaxSlot \in Nat
  <2>1. rec \in Recordings
    BY DEF TypeOK
  <2>2. MaxSlot \in Nat
    BY <2>1, RecordingFacts, ConstantsAssumption DEF MaxSlot
  <2>3. QED
    BY <2>2, NextNodeType, RecordingFixed DEF TypeOK, NodeType, MaxSlot
<1>b. open \in BOOLEAN /\ nextNote \in Nat /\ lastNote \in 0..head
  BY DEF TypeOK, StreamType
<1>1. CASE NodeReplay \/ NodeNewSlot
  BY <1>1, <1>a, <1>b DEF NodeReplay, NodeNewSlot, StreamType, nodeVars
<1>2. CASE NodeStop \/ NodeCrash \/ StreamDrops
  BY <1>2, <1>a, <1>b DEF NodeStop, NodeCrash, StreamDrops, StreamType, nodeVars
<1>3. CASE Subscribe
  BY <1>3, <1>a DEF Subscribe, StreamType, nodeVars
<1>4. CASE ReceiveSlot
  BY <1>4, <1>a, <1>b DEF ReceiveSlot, StreamType, nodeVars
<1>5. CASE UNCHANGED streamVars
  BY <1>5, <1>a, <1>b DEF streamVars, StreamType
<1>6. QED
  BY <1>1, <1>2, <1>3, <1>4, <1>5
     DEF Next, Node, Handover, NodeStart, RequestShutdown, Wait, Follow, Walk,
         ApiUp, ApiTimeout, ShutdownWhileWaiting, SubscribeFails,
         StreamInterrupted, ShutdownWhileTailing, SkipMissing, FinishAtMissing,
         FetchFails, VerifySlot, WalkDone, Returned, vars

\* Every step keeps the snapshot walk well typed.
LEMMA NextWalkType == TypeOK /\ [Next]_vars => WalkType'
<1> SUFFICES ASSUME TypeOK, [Next]_vars PROVE WalkType'
  OBVIOUS
<1>a. rec' = rec /\ rec \in Recordings /\ rec.end \in [0..rec.last -> Nat]
      /\ rec.saved \subseteq 0..rec.last
  BY RecordingFixed, RecordingFacts DEF TypeOK
<1>b. /\ checked \in Nat /\ cursor \in Nat /\ target \in 0..head
      /\ latestBatch \in Nat /\ verified \subseteq rec.saved
  BY DEF TypeOK, WalkType
<1>c. /\ head \in Nat /\ head' \in Nat /\ head' >= head
      /\ nextNote \in Nat /\ lastNote \in 0..head
  <2>1. MaxSlot \in Nat /\ MaxSlot' = MaxSlot
    BY <1>a, RecordingFacts, ConstantsAssumption DEF MaxSlot
  <2>2. QED
    BY <2>1, NextNodeType DEF TypeOK, NodeType, StreamType
<1>d. cursor \in rec.saved => SnapshotBatch \in Nat
  <2>1. ASSUME cursor \in rec.saved PROVE rec.end[cursor] \in Nat
    BY <1>a, <2>1
  <2>2. QED
    BY <2>1 DEF SnapshotBatch, SaturatingSub
<1>1. CASE ReceiveSlot
  <2>1. target' \in 0..head'
    BY <1>1, <1>c DEF ReceiveSlot
  <2>2. QED
    BY <1>1, <1>a, <1>b, <2>1 DEF ReceiveSlot, WalkType
<1>2. CASE SkipMissing \/ WalkDone
  BY <1>2, <1>a, <1>b, <1>c
     DEF SkipMissing, WalkDone, Advance, WalkType, nodeVars
<1>3. CASE FetchFails
  BY <1>3, <1>a, <1>b, <1>c, <1>d DEF FetchFails, WalkType, nodeVars
<1>4. CASE VerifySlot
  <2>1. cursor' \in Nat /\ verified' \subseteq rec.saved
    BY <1>4, <1>b DEF VerifySlot, AfterMatch, Advance
  <2>2. QED
    BY <1>4, <1>a, <1>b, <1>c, <1>d, <2>1 DEF VerifySlot, WalkType, nodeVars
<1>5. CASE UNCHANGED walkVars
  BY <1>5, <1>a, <1>b, <1>c DEF walkVars, WalkType
<1>6. CASE FinishAtMissing \/ Wait \/ StreamInterrupted \/ ShutdownWhileTailing
  BY <1>6, <1>5
     DEF FinishAtMissing, Wait, ApiUp, ApiTimeout, ShutdownWhileWaiting,
         Subscribe, SubscribeFails, StreamInterrupted, ShutdownWhileTailing
<1>7. QED
  BY <1>1, <1>2, <1>3, <1>4, <1>5, <1>6, EnvironmentFrame
     DEF Next, Environment, Follow, Walk, Returned, vars, harnessVars

\* Every step keeps the harness's control state well typed.
LEMMA NextControlType == TypeOK /\ [Next]_vars => ControlType'
<1> SUFFICES ASSUME TypeOK, [Next]_vars PROVE ControlType'
  OBVIOUS
<1>a. /\ pc \in Labels /\ lastReconnect \in Nat \cup {Never}
      /\ fresh \in BOOLEAN /\ stopRequested \in BOOLEAN
      /\ outcome \in Outcomes /\ firstNew \in Nat
      /\ checked \in Nat /\ cursor \in Nat
  BY DEF TypeOK, ControlType, WalkType
<1>b. stopRequested' \in BOOLEAN
  BY <1>a, HarnessFrame
     DEF Next, Node, NodeReplay, NodeNewSlot, NodeStop, Handover, NodeStart,
         NodeCrash, StreamDrops, RequestShutdown, Returned, vars
<1>1. CASE Wait
  BY <1>1, <1>a, <1>b
     DEF Wait, ApiUp, ApiTimeout, ShutdownWhileWaiting, Subscribe,
         SubscribeFails, Fail, ControlType, Labels, Outcomes, resultVars
<1>2. CASE Follow
  BY <1>2, <1>a, <1>b
     DEF Follow, ReceiveSlot, StreamInterrupted, ShutdownWhileTailing,
         BeginReconnect, Fail, ControlType, Labels, Outcomes, resultVars
<1>3. CASE SkipMissing \/ WalkDone \/ FinishAtMissing \/ FetchFails
  BY <1>3, <1>a, <1>b
     DEF SkipMissing, WalkDone, FinishAtMissing, FetchFails, BeginReconnect,
         Advance, Fail, Succeed, ControlType, Labels, Outcomes, resultVars
<1>4. CASE VerifySlot
  <2>1. pc' \in Labels /\ outcome' \in Outcomes /\ firstNew' \in Nat
    BY <1>4, <1>a
       DEF VerifySlot, AfterMatch, Advance, Fail, Succeed, Labels, Outcomes,
           resultVars
  <2>2. lastReconnect' = lastReconnect
    BY <1>4 DEF VerifySlot, AfterMatch, Fail, Succeed
  <2>3. fresh' = fresh \/ fresh' = (fresh \/ cursor \notin verified)
    BY <1>4 DEF VerifySlot, AfterMatch, Fail, Succeed
  <2>4. fresh' \in BOOLEAN
    BY <1>a, <2>3
  <2>5. QED
    BY <1>a, <1>b, <2>1, <2>2, <2>4 DEF ControlType
<1>5. CASE UNCHANGED harnessVars
  BY <1>5, <1>a, <1>b DEF harnessVars, resultVars, ControlType
<1>6. QED
  BY <1>1, <1>2, <1>3, <1>4, <1>5, EnvironmentFrame
     DEF Next, Environment, Walk, Returned, vars

\* Every step keeps the state well typed.
LEMMA NextType == TypeOK /\ [Next]_vars => TypeOK'
BY RecordingFixed, NextNodeType, NextStreamType, NextWalkType, NextControlType
   DEF TypeOK

\* Type correctness: the state of the harness and of the node it follows is
\* always well typed.
THEOREM TypeCorrect == Spec => []TypeOK
<1>1. QED
  BY InitType, NextType, PTL DEF Spec
-----------------------------------------------------------------------------
(* The node: where a version stops, and what a ledger can look like. *)

\* Batch counts are natural numbers that never decrease along the slots.
LEMMA BatchEndFacts ==
    ASSUME rec \in Recordings
    PROVE  /\ \A s \in Nat : BatchEnd(s) \in Nat
           /\ \A s, t \in Nat : s <= t => BatchEnd(s) <= BatchEnd(t)
<1>1. /\ rec.last \in Nat
      /\ rec.end \in [0..rec.last -> Nat]
      /\ \A s, t \in 0..rec.last : s <= t => rec.end[s] <= rec.end[t]
  BY RecordingFacts
<1>2. \A s \in 0..rec.last : rec.end[s] \in Nat
  BY <1>1
<1>3. \A s \in Nat : BatchEnd(s) \in Nat
  BY <1>1, <1>2 DEF BatchEnd
<1>4. ASSUME NEW s \in Nat, NEW t \in Nat, s <= t
      PROVE  BatchEnd(s) <= BatchEnd(t)
  BY <1>1, <1>2, <1>4 DEF BatchEnd
<1>5. QED
  BY <1>3, <1>4

\* Stop heights are natural numbers that grow with the version.
LEMMA StopHeightGrows ==
    ASSUME NEW v \in Nat
    PROVE  /\ StopHeight(v, BlocksPerVersion) \in Nat
           /\ StopHeight(v, BlocksPerVersion) < StopHeight(v + 1, BlocksPerVersion)
<1>1. BlocksPerVersion \in Nat /\ BlocksPerVersion > 0
  BY ConstantsAssumption
<1>2. (v + 1) * BlocksPerVersion = v * BlocksPerVersion + BlocksPerVersion
  BY <1>1
<1>3. v * BlocksPerVersion \in Nat
  BY <1>1
<1>4. QED
  BY <1>1, <1>2, <1>3 DEF StopHeight

\* The ledger's head and the manager's version are natural numbers.
LEMMA NodeFacts ==
    ASSUME TypeOK
    PROVE  /\ rec \in Recordings /\ head \in Nat
           /\ version \in 1..NumVersions /\ root \in [0..head -> Roots]
           /\ badBody \subseteq 0..head
<1>1. rec \in Recordings
  BY DEF TypeOK
<1>2. MaxSlot \in Nat
  BY <1>1, RecordingFacts, ConstantsAssumption DEF MaxSlot
<1>3. QED
  BY <1>1, <1>2 DEF TypeOK, NodeType

\* The slot a version stops at carries the batch of its boundary.
LEMMA StopSlotIsBoundary ==
    ASSUME TypeOK, StopInv, AtStopHeight
    PROVE  IsMigrationBoundary(head) /\ head <= rec.last
<1> DEFINE count == StopHeight(version, BlocksPerVersion)
<1>1. /\ rec \in Recordings /\ head \in Nat
      /\ version \in Nat /\ version >= 1 /\ version < NumVersions
      /\ BatchEnd(head) >= count
  BY NodeFacts, ConstantsAssumption DEF AtStopHeight
<1>2. count \in MigrationBoundaryCounts(NumVersions, BlocksPerVersion)
  <2>1. version \in 1..(NumVersions - 1)
    BY <1>1, ConstantsAssumption
  <2>2. QED
    BY <2>1 DEF StopHeight, MigrationBoundaryCounts
<1>3. PICK s \in 0..rec.last : Carries(rec, s) /\ rec.end[s] = count
  BY <1>1, <1>2, RecordingsAssumption DEF IsRecording
<1>4. /\ rec.last \in Nat /\ s \in Nat /\ s > 0 /\ s - 1 \in 0..rec.last
      /\ rec.end[s - 1] # rec.end[s]
  BY <1>1, <1>3, RecordingFacts DEF Carries
<1>5. BatchEnd(s) = count /\ BatchEnd(s - 1) < count /\ count \in Nat
  <2>1. BatchEnd(s) = count /\ BatchEnd(s - 1) = rec.end[s - 1]
    BY <1>3, <1>4 DEF BatchEnd
  <2>2. BatchEnd(s - 1) <= BatchEnd(s) /\ BatchEnd(s) \in Nat /\ BatchEnd(s - 1) \in Nat
    BY <1>1, <1>4, BatchEndFacts
  <2>3. QED
    BY <1>3, <1>4, <2>1, <2>2
<1>6. ~(s < head)
  BY <1>1, <1>4, <1>5 DEF StopInv
<1>7. ~(head < s)
  <2>1. SUFFICES ASSUME head < s PROVE FALSE
    OBVIOUS
  <2>2. BatchEnd(head) <= BatchEnd(s - 1) /\ BatchEnd(head) \in Nat
    BY <1>1, <1>4, <2>1, BatchEndFacts
  <2>3. BatchEnd(s - 1) \in Nat
    BY <1>1, <1>4, BatchEndFacts
  <2>4. QED
    BY <1>1, <1>5, <2>2, <2>3
<1>8. head = s
  BY <1>1, <1>4, <1>6, <1>7
<1>9. QED
  BY <1>2, <1>3, <1>4, <1>8 DEF IsMigrationBoundary

\* Every step keeps a version from replaying past its stop height.
LEMMA StopStep == TypeOK /\ StopInv /\ [Next]_vars => StopInv'
<1> SUFFICES ASSUME TypeOK, StopInv, [Next]_vars PROVE StopInv'
  OBVIOUS
<1>a. /\ rec' = rec /\ rec \in Recordings /\ head \in Nat
      /\ version \in Nat /\ \A s \in Nat : BatchEnd(s) \in Nat
  BY RecordingFixed, NodeFacts, BatchEndFacts, ConstantsAssumption
<1>b. \A s : BatchEnd(s)' = BatchEnd(s)
  BY <1>a DEF BatchEnd
<1>1. CASE NodeReplay
  <2>1. head' = head + 1 /\ version' = version /\ ~AtStopHeight
    BY <1>1 DEF NodeReplay
  <2>2. version < NumVersions =>
          BatchEnd(head) < StopHeight(version, BlocksPerVersion)
    BY <2>1, <1>a, StopHeightGrows DEF AtStopHeight
  <2>3. QED
    BY <1>a, <1>b, <2>1, <2>2 DEF StopInv
<1>2. CASE Handover
  <2>1. version' = version + 1 /\ head' = head /\ version < NumVersions
    BY <1>2 DEF Handover, AtStopHeight
  <2>2. /\ StopHeight(version, BlocksPerVersion) < StopHeight(version', BlocksPerVersion)
        /\ StopHeight(version, BlocksPerVersion) \in Nat
        /\ StopHeight(version', BlocksPerVersion) \in Nat
    <3>1. version + 1 \in Nat
      BY <1>a
    <3>2. QED
      BY <1>a, <2>1, <3>1, StopHeightGrows
  <2>3. ASSUME NEW s \in 0..(head' - 1)
        PROVE  BatchEnd(s)' < StopHeight(version', BlocksPerVersion)
    <3>1. s \in Nat /\ s \in 0..(head - 1)
      BY <1>a, <2>1
    <3>2. BatchEnd(s) < StopHeight(version, BlocksPerVersion) /\ BatchEnd(s) \in Nat
      BY <1>a, <2>1, <3>1 DEF StopInv
    <3>3. QED
      BY <1>b, <2>2, <3>2
  <2>4. QED
    BY <2>3 DEF StopInv
<1>3. CASE UNCHANGED <<version, head, root, badBody>>
  BY <1>3, <1>b DEF StopInv
<1>4. QED
  BY <1>1, <1>2, <1>3, LedgerFrame

\* Every step keeps the ledger's roots chained.
LEMMA ChainStep == TypeOK /\ StopInv /\ ChainInv /\ [Next]_vars => ChainInv'
<1> SUFFICES ASSUME TypeOK, StopInv, ChainInv, [Next]_vars PROVE ChainInv'
  OBVIOUS
<1>a. rec' = rec /\ head \in Nat /\ root \in [0..head -> Roots]
  BY RecordingFixed, NodeFacts
<1>b. \A s : IsMigrationBoundary(s)' = IsMigrationBoundary(s)
  BY <1>a DEF IsMigrationBoundary, Carries
<1>1. CASE NodeReplay
  <2>1. head' = head + 1
    BY <1>1 DEF NodeReplay
  <2>2. PICK r \in ReplayedRoots :
          root' = [s \in 0..(head + 1) |-> IF s = head + 1 THEN r ELSE root[s]]
    BY <1>1 DEF NodeReplay
  <2>3. /\ root'[head + 1] = r
        /\ \A s \in 0..head : root'[s] = root[s]
    BY <1>a, <2>2
  <2>4. /\ r # "patched"
        /\ root[head] = "divergent" => r = "divergent"
    BY DEF ReplayedRoots
  <2>5. ASSUME NEW s \in 0..head', NEW t \in 0..head', s < t,
               root'[s] = "divergent"
        PROVE  root'[t] = "divergent"
    <3>1. s \in 0..head /\ root[s] = "divergent"
      BY <1>a, <2>1, <2>3, <2>5
    <3>2. CASE t \in 0..head
      BY <2>3, <2>5, <3>1, <3>2 DEF ChainInv
    <3>3. CASE t = head + 1
      <4>1. root[head] = "divergent"
        BY <1>a, <3>1 DEF ChainInv
      <4>2. QED
        BY <2>3, <2>4, <3>3, <4>1
    <3>4. QED
      BY <1>a, <2>1, <3>2, <3>3
  <2>6. ASSUME NEW s \in 0..head', root'[s] = "patched"
        PROVE  IsMigrationBoundary(s)'
    BY <1>a, <1>b, <2>1, <2>3, <2>4, <2>6 DEF ChainInv
  <2>7. QED
    BY <2>5, <2>6 DEF ChainInv
<1>2. CASE Handover
  <2>1. head' = head
    BY <1>2 DEF Handover
  <2>2. PICK r \in Roots :
          /\ root[head] = "divergent" => r = "divergent"
          /\ root' = [root EXCEPT ![head] = r]
    BY <1>2 DEF Handover
  <2>3. /\ root'[head] = r
        /\ \A s \in 0..head : s # head => root'[s] = root[s]
    BY <1>a, <2>2
  <2>4. IsMigrationBoundary(head)
    BY <1>2, StopSlotIsBoundary DEF Handover
  <2>5. ASSUME NEW s \in 0..head, NEW t \in 0..head, s < t, root'[s] = "divergent"
        PROVE  root'[t] = "divergent"
    <3>1. s # head /\ root[s] = "divergent"
      BY <1>a, <2>3, <2>5
    <3>2. root[t] = "divergent"
      BY <2>5, <3>1 DEF ChainInv
    <3>3. QED
      BY <2>2, <2>3, <3>2
  <2>6. ASSUME NEW s \in 0..head, root'[s] = "patched"
        PROVE  IsMigrationBoundary(s)'
    BY <1>b, <2>3, <2>4, <2>6 DEF ChainInv
  <2>7. QED
    BY <2>1, <2>5, <2>6 DEF ChainInv
<1>3. CASE UNCHANGED <<version, head, root, badBody>>
  BY <1>3, <1>b DEF ChainInv
<1>4. QED
  BY <1>1, <1>2, <1>3, LedgerFrame
-----------------------------------------------------------------------------
(* The harness: the snapshot walk. *)

\* What the walk relies on of the state's types.
LEMMA WalkFacts ==
    ASSUME TypeOK
    PROVE  /\ rec \in Recordings /\ rec.last \in Nat
           /\ rec.saved \subseteq 0..rec.last /\ rec.last \in rec.saved
           /\ \A s \in 0..rec.last : rec.end[s] \in Nat
           /\ checked \in Nat /\ cursor \in Nat /\ target \in Nat
           /\ target <= head /\ head \in Nat /\ latestBatch \in Nat
<1>1. rec \in Recordings /\ head \in Nat
  BY NodeFacts
<1>2. /\ rec.last \in Nat
      /\ rec.end \in [0..rec.last -> Nat]
      /\ rec.saved \subseteq 0..rec.last /\ rec.last \in rec.saved
  BY <1>1, RecordingFacts
<1>3. \A s \in 0..rec.last : rec.end[s] \in Nat
  BY <1>2
<1>4. /\ checked \in Nat /\ cursor \in Nat /\ target \in 0..head
      /\ latestBatch \in Nat
  BY DEF TypeOK, WalkType
<1>5. QED
  BY <1>1, <1>2, <1>3, <1>4

\* A step outside the walk, which does not enter it, preserves its invariant.
LEMMA WalkFrame ==
    ASSUME WalkInv, UNCHANGED <<rec, checked, verified>>, pc' # "verifying"
    PROVE  WalkInv'
BY DEF WalkInv, NoSnapshotSkipped, Walked

\* Every step keeps the walk from leaving a snapshot behind.
LEMMA WalkStep == TypeOK /\ WalkInv /\ [Next]_vars => WalkInv'
<1> SUFFICES ASSUME TypeOK, WalkInv, [Next]_vars PROVE WalkInv'
  OBVIOUS
<1>a. /\ rec' = rec /\ rec.last \in Nat /\ rec.saved \subseteq 0..rec.last
      /\ rec.last \in rec.saved
      /\ checked \in Nat /\ cursor \in Nat /\ target \in Nat
  BY RecordingFixed, WalkFacts
<1>b. ASSUME UNCHANGED harnessVars PROVE WalkInv'
  BY <1>a, <1>b DEF harnessVars, walkVars, WalkInv, NoSnapshotSkipped, Walked
<1>1. CASE Wait \/ StreamInterrupted \/ ShutdownWhileTailing \/ FinishAtMissing
  <2>1. UNCHANGED walkVars /\ pc' # "verifying"
    BY <1>1
       DEF Wait, ApiUp, ApiTimeout, ShutdownWhileWaiting, Subscribe,
           SubscribeFails, StreamInterrupted, ShutdownWhileTailing,
           FinishAtMissing, BeginReconnect, Fail, Succeed
  <2>2. QED
    BY <1>a, <2>1, WalkFrame DEF walkVars
<1>2. CASE FetchFails
  <2>1. UNCHANGED <<checked, verified>> /\ pc' # "verifying"
    BY <1>2 DEF FetchFails, BeginReconnect, Fail
  <2>2. QED
    BY <1>a, <2>1, WalkFrame
<1>3. CASE ReceiveSlot
  <2>1. cursor' = checked /\ checked' = checked /\ verified' = verified
    BY <1>3 DEF ReceiveSlot
  <2>2. \A s : Walked(s)' => Walked(s)
    BY <2>1 DEF Walked
  <2>3. QED
    BY <1>a, <2>1, <2>2 DEF WalkInv, NoSnapshotSkipped, Walked
<1>4. CASE SkipMissing
  <2>1. /\ pc = "verifying" /\ pc' = "verifying" /\ cursor' = cursor + 1
        /\ checked' = checked /\ verified' = verified
        /\ cursor \notin rec.saved /\ cursor < IgnoreMissingBelow
    BY <1>4 DEF SkipMissing, AtSlot, Advance
  <2>2. cursor # rec.last
    BY <1>a, <2>1
  <2>3. \A s \in Nat : Walked(s)' => Walked(s) \/ s = cursor
    BY <1>a, <2>1 DEF Walked
  <2>4. \A s \in rec.saved : Walked(s)' => s \in verified
    BY <1>a, <2>1, <2>3 DEF WalkInv, NoSnapshotSkipped, Walked
  <2>5. \A s \in IgnoreMissingBelow..rec.last : Walked(s)' => s \in rec.saved
    BY <1>a, <2>1, <2>3, ConstantsAssumption DEF WalkInv
  <2>6. QED
    BY <1>a, <2>1, <2>2, <2>4, <2>5 DEF WalkInv, NoSnapshotSkipped, Walked
<1>5. CASE VerifySlot
  <2>1. /\ pc = "verifying" /\ checked' = checked /\ cursor \in rec.saved
        /\ verified \subseteq verified'
    BY <1>5 DEF VerifySlot, AtSlot
  <2>2. CASE pc' = "done"
    BY <1>a, <2>1, <2>2 DEF WalkInv, NoSnapshotSkipped, Walked
  <2>3. CASE pc' # "done"
    <3>1. /\ pc' = "verifying" /\ cursor' = cursor + 1
          /\ cursor # rec.last /\ verified' = verified \cup {cursor}
      BY <1>5, <2>3
         DEF VerifySlot, AfterMatch, Advance, Fail, Succeed, LastRecordedSlot,
             AtSlot
    <3>2. \A s \in Nat : Walked(s)' => Walked(s) \/ s = cursor
      BY <1>a, <2>1, <3>1 DEF Walked
    <3>3. \A s \in rec.saved : Walked(s)' => s \in verified'
      BY <1>a, <3>1, <3>2 DEF WalkInv, NoSnapshotSkipped, Walked
    <3>4. \A s \in IgnoreMissingBelow..rec.last : Walked(s)' => s \in rec.saved
      BY <1>a, <2>1, <3>2, ConstantsAssumption DEF WalkInv
    <3>5. QED
      BY <1>a, <2>1, <3>1, <3>3, <3>4 DEF WalkInv, NoSnapshotSkipped, Walked
  <2>4. QED
    BY <2>2, <2>3
<1>6. CASE WalkDone
  <2>1. /\ pc = "verifying" /\ pc' = "tailing" /\ cursor > target
        /\ checked' = target /\ verified' = verified
    BY <1>6 DEF WalkDone
  <2>2. \A s \in Nat : Walked(s)' => Walked(s)
    BY <1>a, <2>1 DEF Walked
  <2>3. \A s \in IgnoreMissingBelow..rec.last : Walked(s)' => s \in rec.saved
    BY <1>a, <2>2, ConstantsAssumption DEF WalkInv
  <2>4. \A s \in rec.saved : Walked(s)' => s \in verified
    BY <1>a, <2>2 DEF WalkInv, NoSnapshotSkipped, Walked
  <2>5. QED
    BY <1>a, <2>1, <2>3, <2>4 DEF WalkInv, NoSnapshotSkipped, Walked
<1>7. QED
  BY <1>b, <1>1, <1>2, <1>3, <1>4, <1>5, <1>6, EnvironmentFrame
     DEF Next, Environment, Follow, Walk, Returned, vars

\* Every step keeps latest_batch_num tied to a snapshot.
LEMMA BatchStep == TypeOK /\ WalkInv /\ BatchInv /\ [Next]_vars => BatchInv'
<1> SUFFICES ASSUME TypeOK, WalkInv, BatchInv, [Next]_vars PROVE BatchInv'
  OBVIOUS
<1>a. /\ rec' = rec /\ rec.last \in Nat /\ rec.saved \subseteq 0..rec.last
      /\ cursor \in Nat
  BY RecordingFixed, WalkFacts
<1>1. CASE FetchFails \/ VerifySlot
  <2>1. /\ AtSlot /\ cursor \in rec.saved
        /\ latestBatch' = SaturatingSub(rec.end[cursor], 1)
    BY <1>1 DEF FetchFails, VerifySlot, SnapshotBatch
  <2>2. ASSUME NEW s \in IgnoreMissingBelow..cursor
        PROVE  s \in rec.saved
    <3>1. s = cursor \/ (s < cursor /\ s \in IgnoreMissingBelow..rec.last)
      BY <1>a, <2>1, ConstantsAssumption DEF WalkInv, AtSlot
    <3>2. QED
      BY <2>1, <3>1 DEF WalkInv, Walked, AtSlot
  <2>3. QED
    BY <1>a, <2>1, <2>2 DEF BatchInv
<1>2. CASE UNCHANGED latestBatch
  BY <1>2, <1>a DEF BatchInv
<1>3. QED
  BY <1>1, <1>2, EnvironmentFrame
     DEF Next, Environment, Wait, Follow, Walk, ApiUp, ApiTimeout,
         ShutdownWhileWaiting, Subscribe, SubscribeFails, ReceiveSlot,
         StreamInterrupted, ShutdownWhileTailing, SkipMissing,
         FinishAtMissing, WalkDone, Returned, vars, harnessVars, walkVars

\* Every step keeps compared slots as they were compared.
LEMMA VerifiedStep ==
    TypeOK /\ StopInv /\ VerifiedInv /\ [Next]_vars => VerifiedInv'
<1> SUFFICES ASSUME TypeOK, StopInv, VerifiedInv, [Next]_vars
             PROVE  VerifiedInv'
  OBVIOUS
<1>a. /\ rec' = rec /\ head \in Nat /\ root \in [0..head -> Roots]
      /\ badBody \subseteq 0..head /\ cursor \in Nat /\ target \in Nat
      /\ target <= head
      /\ rec.saved \subseteq 0..rec.last /\ rec.last \in Nat
  BY RecordingFixed, NodeFacts, WalkFacts
<1>b. \A s : IsMigrationBoundary(s)' = IsMigrationBoundary(s)
  BY <1>a DEF IsMigrationBoundary, Carries
<1>c. verified \subseteq rec.saved
  BY DEF TypeOK, WalkType
<1>1. CASE NodeReplay
  <2>1. head' = head + 1 /\ verified' = verified
        /\ (badBody' = badBody \/ badBody' = badBody \cup {head + 1})
    BY <1>1 DEF NodeReplay, harnessVars, walkVars
  <2>2. \A s \in 0..head : root'[s] = root[s]
    BY <1>1, <1>a DEF NodeReplay
  <2>3. QED
    BY <1>a, <1>b, <1>c, <2>1, <2>2 DEF VerifiedInv
<1>2. CASE Handover
  <2>1. head' = head /\ verified' = verified /\ badBody' = badBody
    BY <1>2 DEF Handover, harnessVars, walkVars
  <2>2. \A s \in 0..head : s # head => root'[s] = root[s]
    BY <1>2, <1>a DEF Handover
  <2>3. IsMigrationBoundary(head)
    BY <1>2, StopSlotIsBoundary DEF Handover
  <2>4. QED
    BY <1>a, <1>b, <1>c, <2>1, <2>2, <2>3 DEF VerifiedInv
<1>3. CASE VerifySlot
  <2>1. /\ UNCHANGED <<head, root, badBody>>
        /\ pc = "verifying" /\ cursor <= target
        /\ verified' = verified \/ (verified' = verified \cup {cursor} /\ Matches(cursor))
    BY <1>3 DEF VerifySlot, AtSlot, nodeVars
  <2>2. QED
    BY <1>a, <1>b, <2>1 DEF VerifiedInv, Matches
<1>4. CASE UNCHANGED <<head, root, badBody, verified>>
  BY <1>4, <1>b DEF VerifiedInv
<1>5. QED
  BY <1>1, <1>2, <1>3, <1>4, HarnessFrame
     DEF Next, Node, NodeNewSlot, NodeStop, NodeStart, NodeCrash, StreamDrops,
         RequestShutdown, Wait, Follow, Walk, ApiUp, ApiTimeout,
         ShutdownWhileWaiting, Subscribe, SubscribeFails, ReceiveSlot,
         StreamInterrupted, ShutdownWhileTailing, SkipMissing, FinishAtMissing,
         FetchFails, WalkDone, Returned, vars, nodeVars, harnessVars, walkVars
-----------------------------------------------------------------------------
(* The verdict. *)

\* What the inductive proof asks of a span: with a single block per version,
\* latest_batch_num = 0 cannot be told from "no batch seen yet".
SpanAssumption == BlocksPerVersion > 1

\* Data that fits the version spec does not end at height one.
LEMMA EndIsNotOne ==
    ASSUME SpanAssumption, rec \in Recordings
    PROVE  rec.end[rec.last] \in Nat /\ rec.end[rec.last] # 1
<1>1. rec.end[rec.last] \in Nat /\ rec.end[rec.last] % BlocksPerVersion = 0
  BY RecordingFacts, RecordingsAssumption DEF IsRecording, PlanAccepts
<1>2. BlocksPerVersion \in Nat /\ BlocksPerVersion > 1
  BY ConstantsAssumption DEF SpanAssumption
<1>3. 1 % BlocksPerVersion = 1
  BY <1>2
<1>4. QED
  BY <1>1, <1>3

\* After the slot at which the batches end, no slot carries one.
LEMMA NoBatchAfterEnd ==
    ASSUME rec \in Recordings,
           NEW t \in 0..rec.last, rec.end[t] = rec.end[rec.last],
           NEW s \in 0..rec.last, s > t
    PROVE  ~Carries(rec, s)
<1>1. /\ rec.last \in Nat /\ s \in Nat /\ t \in Nat
      /\ s - 1 \in 0..rec.last /\ t <= s - 1 /\ s - 1 <= s /\ s <= rec.last
  BY RecordingFacts
<1>2. /\ rec.end[t] <= rec.end[s - 1] /\ rec.end[s - 1] <= rec.end[s]
      /\ rec.end[s] <= rec.end[rec.last]
  BY <1>1, RecordingFacts
<1>3. /\ rec.end[t] \in Nat /\ rec.end[s - 1] \in Nat /\ rec.end[s] \in Nat
      /\ rec.end[rec.last] \in Nat
  <2>1. rec.end \in [0..rec.last -> Nat]
    BY RecordingFacts
  <2>2. QED
    BY <1>1, <2>1
<1>4. QED
  BY <1>2, <1>3 DEF Carries

\* A resync that ends at a missing snapshot has seen the last batch.
LEMMA MissingAfterEnd ==
    ASSUME TypeOK, WalkInv, BatchInv, SpanAssumption,
           AtSlot, cursor \notin rec.saved, cursor >= IgnoreMissingBelow,
           latestBatch >= ExpectedBatches
    PROVE  /\ latestBatch = ExpectedBatches
           /\ rec.end[rec.last] > 0 =>
                \E u \in rec.saved : u < cursor /\ rec.end[u] = rec.end[rec.last]
           /\ \A s \in 0..rec.last : s >= cursor => ~Carries(rec, s)
<1> DEFINE E == rec.end[rec.last]
<1>a. /\ rec \in Recordings /\ rec.last \in Nat /\ rec.saved \subseteq 0..rec.last
      /\ \A s \in 0..rec.last : rec.end[s] \in Nat
      /\ cursor \in Nat /\ cursor <= rec.last /\ latestBatch \in Nat
  BY WalkFacts DEF WalkInv, AtSlot
<1>b. E \in Nat /\ E # 1
  BY <1>a, EndIsNotOne
<1>c. ASSUME NEW s \in 0..rec.last PROVE rec.end[s] <= E /\ rec.end[s] \in Nat
  BY <1>a, RecordingFacts
<1>d. ExpectedBatches = SaturatingSub(E, 1)
  BY DEF ExpectedBatches, ExpectedSetupBatches
<1>1. CASE E = 0
  <2>1. ExpectedBatches = 0
    BY <1>1, <1>d DEF SaturatingSub
  <2>2. latestBatch = 0
    <3>1. SUFFICES ASSUME NEW t \in rec.saved,
                          latestBatch = SaturatingSub(rec.end[t], 1)
                   PROVE  latestBatch = 0
      BY DEF BatchInv
    <3>2. rec.end[t] = 0
      BY <1>1, <1>a, <1>c
    <3>3. QED
      BY <3>1, <3>2 DEF SaturatingSub
  <2>3. ASSUME NEW s \in 0..rec.last, s >= cursor PROVE ~Carries(rec, s)
    <3>1. SUFFICES ASSUME s > 0 PROVE rec.end[s] = rec.end[s - 1]
      BY DEF Carries
    <3>2. s - 1 \in 0..rec.last
      BY <1>a, <3>1
    <3>3. QED
      BY <1>1, <1>c, <3>2
  <2>4. QED
    BY <1>1, <2>1, <2>2, <2>3
<1>2. CASE E > 1
  <2>1. ExpectedBatches = E - 1
    BY <1>2, <1>b, <1>d DEF SaturatingSub
  <2>2. latestBatch > 0
    BY <1>2, <1>a, <1>b, <2>1
  <2>3. PICK t \in rec.saved :
          /\ latestBatch = SaturatingSub(rec.end[t], 1)
          /\ \A s \in IgnoreMissingBelow..t : s \in rec.saved
    BY <2>2 DEF BatchInv
  <2>4. t \in 0..rec.last /\ rec.end[t] <= E /\ rec.end[t] \in Nat
    BY <1>a, <1>c
  <2>5. latestBatch = rec.end[t] - 1 /\ rec.end[t] = E
    BY <1>2, <1>b, <2>1, <2>2, <2>3, <2>4 DEF SaturatingSub
  <2>6. t < cursor
    <3>1. SUFFICES ASSUME t >= cursor PROVE FALSE
      BY <1>a, <2>4
    <3>2. cursor \in IgnoreMissingBelow..t
      BY <1>a, <2>4, <3>1, ConstantsAssumption
    <3>3. QED
      BY <2>3, <3>2
  <2>7. ASSUME NEW s \in 0..rec.last, s >= cursor PROVE ~Carries(rec, s)
    <3>1. s > t
      BY <1>a, <2>4, <2>6, <2>7
    <3>2. QED
      BY <1>a, <2>4, <2>5, <3>1, NoBatchAfterEnd
  <2>8. QED
    BY <2>1, <2>5, <2>6, <2>7
<1>3. QED
  BY <1>b, <1>1, <1>2

\* Once the function has returned, the harness takes no further step.
LEMMA DoneIsFinal == [Next]_vars /\ pc = "done" => UNCHANGED <<rec, harnessVars>>
BY EnvironmentFrame
   DEF Next, Environment, Wait, Follow, Walk, ApiUp, ApiTimeout,
       ShutdownWhileWaiting, Subscribe, SubscribeFails, ReceiveSlot,
       StreamInterrupted, ShutdownWhileTailing, AtSlot, SkipMissing,
       FinishAtMissing, FetchFails, VerifySlot, WalkDone, Returned, vars


\* How a running resync comes to an end, if it does: by an error, at a missing
\* snapshot, or at the last recorded slot.
LEMMA HowItEnds ==
    ASSUME [Next]_vars, pc # "done"
    PROVE  \/ outcome' = outcome
           \/ pc' = "done" /\ outcome' # "ok" /\ outcome' # "running"
           \/ /\ FinishAtMissing /\ Succeed(cursor)
              /\ ~(latestBatch < ExpectedBatches)
           \/ /\ VerifySlot /\ Succeed(cursor + 1)
              /\ cursor = rec.last /\ verified' = verified \cup {cursor}
              /\ ~(SnapshotBatch < ExpectedBatches)
<1>1. CASE Wait \/ Follow
  BY <1>1
     DEF Wait, Follow, ApiUp, ApiTimeout, ShutdownWhileWaiting, Subscribe,
         SubscribeFails, ReceiveSlot, StreamInterrupted, ShutdownWhileTailing,
         BeginReconnect, Fail, resultVars
<1>2. CASE SkipMissing \/ FetchFails \/ WalkDone
  BY <1>2
     DEF SkipMissing, FetchFails, WalkDone, BeginReconnect, Fail, resultVars
<1>3. CASE FinishAtMissing
  BY <1>3 DEF FinishAtMissing, Fail
<1>4. CASE VerifySlot
  <2>1. CASE Matches(cursor) /\ cursor = LastRecordedSlot
    BY <1>4, <2>1 DEF VerifySlot, AfterMatch, Fail, LastRecordedSlot
  <2>2. CASE ~Matches(cursor)
    BY <1>4, <2>2 DEF VerifySlot, Fail
  <2>3. CASE Matches(cursor) /\ cursor # LastRecordedSlot
    BY <1>4, <2>3 DEF VerifySlot, AfterMatch, resultVars
  <2>4. QED
    BY <2>1, <2>2, <2>3
<1>5. CASE UNCHANGED harnessVars
  BY <1>5 DEF harnessVars, resultVars
<1>6. QED
  BY <1>1, <1>2, <1>3, <1>4, <1>5, EnvironmentFrame
     DEF Next, Environment, Walk, Returned, vars

\* Every step keeps what a successful return promises.
LEMMA OkStep ==
    ASSUME SpanAssumption, TypeOK, WalkInv, BatchInv, OkInv, [Next]_vars
    PROVE  OkInv'
<1> DEFINE Bridge(slot) ==
        rec.end[rec.last] > 0 =>
            \E u \in rec.saved : u < slot /\ rec.end[u] = rec.end[rec.last]
<1>a. /\ rec' = rec /\ rec \in Recordings /\ rec.last \in Nat
      /\ rec.saved \subseteq 0..rec.last /\ rec.last \in rec.saved
      /\ \A s \in 0..rec.last : rec.end[s] \in Nat
      /\ cursor \in Nat /\ latestBatch \in Nat
  BY RecordingFixed, WalkFacts
<1>b. ExpectedBatches' = ExpectedBatches /\ ExpectedBatches \in Nat
  <2>1. rec.end[rec.last] \in Nat
    BY <1>a
  <2>2. QED
    BY <1>a, <2>1 DEF ExpectedBatches, ExpectedSetupBatches, SaturatingSub
<1>c. \A s : Carries(rec, s)' = Carries(rec, s)
  BY <1>a DEF Carries
<1>1. CASE pc = "done"
  <2>1. UNCHANGED <<rec, harnessVars>>
    BY <1>1, DoneIsFinal
  <2>2. QED
    BY <2>1, <1>b, <1>c
       DEF OkInv, OkCoversEveryBatch, FirstNewSlotEndsData, harnessVars,
           walkVars, resultVars
<1>2. CASE pc # "done"
  <2>1. outcome = "running"
    BY <1>2 DEF OkInv
  <2>2. CASE outcome' = outcome
    BY <2>1, <2>2 DEF OkInv
  <2>3. CASE pc' = "done" /\ outcome' # "ok" /\ outcome' # "running"
    BY <2>3 DEF OkInv
  <2>4. CASE FinishAtMissing /\ Succeed(cursor) /\ ~(latestBatch < ExpectedBatches)
    <3>1. /\ AtSlot /\ cursor \notin rec.saved /\ cursor >= IgnoreMissingBelow
          /\ pc' = "done" /\ firstNew' = cursor
          /\ latestBatch' = latestBatch /\ verified' = verified
      BY <2>4 DEF FinishAtMissing, Succeed, walkVars
    <3>2. latestBatch >= ExpectedBatches
      BY <1>a, <1>b, <2>4
    <3>3. /\ latestBatch = ExpectedBatches
          /\ Bridge(cursor)
          /\ \A s \in 0..rec.last : s >= cursor => ~Carries(rec, s)
      BY <3>1, <3>2, MissingAfterEnd
    <3>4. \A s \in rec.saved : s < cursor => s \in verified
      BY <3>1 DEF WalkInv, NoSnapshotSkipped, AtSlot
    <3>5. \A s \in IgnoreMissingBelow..rec.last : s < cursor => s \in rec.saved
      BY <3>1 DEF WalkInv, Walked, AtSlot
    <3>6. ASSUME NEW s \in 0..rec.last, Carries(rec, s), s >= IgnoreMissingBelow
          PROVE  s \in verified
      <4>1. s < cursor
        BY <1>a, <3>3, <3>6
      <4>2. s \in IgnoreMissingBelow..rec.last
        BY <1>a, <3>6, ConstantsAssumption
      <4>3. QED
        BY <3>4, <3>5, <4>1, <4>2
    <3>7. OkCoversEveryBatch'
      BY <1>a, <1>b, <1>c, <3>1, <3>3, <3>6 DEF OkCoversEveryBatch
    <3>8. FirstNewSlotEndsData'
      BY <1>a, <1>c, <3>1, <3>3, <3>4 DEF FirstNewSlotEndsData
    <3>9. QED
      BY <1>a, <3>1, <3>3, <3>7, <3>8 DEF OkInv
  <2>5. CASE /\ VerifySlot /\ Succeed(cursor + 1)
             /\ cursor = rec.last /\ verified' = verified \cup {cursor}
             /\ ~(SnapshotBatch < ExpectedBatches)
    <3>1. /\ AtSlot /\ pc' = "done" /\ firstNew' = rec.last + 1
          /\ latestBatch' = SnapshotBatch
      BY <2>5 DEF VerifySlot, Succeed
    <3>2. SnapshotBatch = ExpectedBatches
      BY <2>5 DEF SnapshotBatch, ExpectedBatches, ExpectedSetupBatches
    <3>3. \A s \in rec.saved : s \in verified'
      <4>1. ASSUME NEW s \in rec.saved PROVE s < cursor \/ s = cursor
        BY <1>a, <2>5
      <4>2. QED
        BY <2>5, <3>1, <4>1 DEF WalkInv, NoSnapshotSkipped, AtSlot
    <3>4. \A s \in IgnoreMissingBelow..rec.last : s \in rec.saved
      <4>1. ASSUME NEW s \in IgnoreMissingBelow..rec.last
            PROVE  s < cursor \/ s = cursor
        BY <1>a, <2>5, ConstantsAssumption
      <4>2. QED
        BY <1>a, <2>5, <3>1, <4>1 DEF WalkInv, Walked, AtSlot
    <3>5. ASSUME NEW s \in 0..rec.last, s >= IgnoreMissingBelow
          PROVE  s \in verified'
      BY <1>a, <3>3, <3>4, <3>5, ConstantsAssumption
    <3>6. OkCoversEveryBatch'
      BY <1>a, <1>b, <1>c, <3>1, <3>2, <3>5 DEF OkCoversEveryBatch
    <3>7. FirstNewSlotEndsData'
      BY <1>a, <3>1, <3>3 DEF FirstNewSlotEndsData
    <3>8. Bridge(rec.last + 1)
      BY <1>a
    <3>9. QED
      BY <1>a, <3>1, <3>6, <3>7, <3>8 DEF OkInv
  <2>6. QED
    BY <1>2, <2>2, <2>3, <2>4, <2>5, HowItEnds
<1>3. QED
  BY <1>1, <1>2

\* A divergence once introduced is there to stay.
LEMMA DivergenceStays ==
    ASSUME TypeOK, [Next]_vars,
           badBody # {} \/ \E s \in 0..head : root[s] = "divergent"
    PROVE  badBody' # {} \/ \E s \in 0..head' : root'[s] = "divergent"
<1>a. head \in Nat /\ root \in [0..head -> Roots]
  BY NodeFacts
<1>1. CASE NodeReplay
  <2>1. /\ head' = head + 1
        /\ badBody' = badBody \/ badBody' = badBody \cup {head + 1}
        /\ \A s \in 0..head : root'[s] = root[s]
    BY <1>1, <1>a DEF NodeReplay
  <2>2. QED
    BY <1>a, <2>1
<1>2. CASE Handover
  <2>1. /\ head' = head /\ badBody' = badBody
        /\ root[head] = "divergent" => root'[head] = "divergent"
        /\ \A s \in 0..head : s # head => root'[s] = root[s]
    BY <1>2, <1>a DEF Handover
  <2>2. QED
    BY <1>a, <2>1
<1>3. QED
  BY <1>1, <1>2, LedgerFrame

\* Every step keeps mismatch reports justified.
LEMMA MismatchStep ==
    ASSUME TypeOK, ChainInv, MismatchMeansDivergence, [Next]_vars
    PROVE  MismatchMeansDivergence'
<1> SUFFICES ASSUME outcome' = "mismatch"
             PROVE  badBody' # {} \/ \E s \in 0..head' : root'[s] = "divergent"
  BY DEF MismatchMeansDivergence
<1>1. CASE outcome = "mismatch"
  BY <1>1, DivergenceStays DEF MismatchMeansDivergence
<1>2. CASE outcome # "mismatch"
  <2>1. VerifySlot /\ ~Matches(cursor)
    <3>1. ~Environment /\ ~(UNCHANGED vars)
      BY <1>2, EnvironmentFrame DEF harnessVars, resultVars, vars
    <3>2. CASE Wait \/ Follow
      BY <1>2, <3>2
         DEF Wait, Follow, ApiUp, ApiTimeout, ShutdownWhileWaiting, Subscribe,
             SubscribeFails, ReceiveSlot, StreamInterrupted,
             ShutdownWhileTailing, BeginReconnect, Fail, resultVars
    <3>3. CASE SkipMissing \/ FinishAtMissing \/ FetchFails \/ WalkDone
      BY <1>2, <3>3
         DEF SkipMissing, FinishAtMissing, FetchFails, WalkDone,
             BeginReconnect, Fail, Succeed, resultVars
    <3>4. CASE VerifySlot
      BY <1>2, <3>4 DEF VerifySlot, AfterMatch, Fail, Succeed, resultVars
    <3>5. QED
      BY <3>1, <3>2, <3>3, <3>4 DEF Next, Environment, Walk, Returned
  <2>2. cursor \in 0..head
    BY <2>1, WalkFacts DEF VerifySlot, AtSlot
  <2>3. root[cursor] \in Roots
    BY <2>2, NodeFacts
  <2>4. badBody # {} \/ root[cursor] = "divergent"
    BY <2>1, <2>2, <2>3 DEF Matches, ChainInv, Roots
  <2>5. QED
    BY <2>2, <2>4, DivergenceStays
<1>3. QED
  BY <1>1, <1>2
-----------------------------------------------------------------------------
(* The theorems. *)

\* The invariant holds initially.
LEMMA InitInductive == Init => Inductive /\ OkInv
<1> SUFFICES ASSUME Init PROVE Inductive /\ OkInv
  OBVIOUS
<1>1. TypeOK
  BY InitType
<1>2. /\ head = 0 /\ root = [s \in {0} |-> "recorded"] /\ badBody = {}
      /\ checked = 0 /\ latestBatch = 0 /\ verified = {} /\ pc = "starting"
      /\ outcome = "running"
  BY DEF Init
<1>3. StopInv
  BY <1>2 DEF StopInv
<1>4. ChainInv
  <2>1. \A s \in 0..head : s = 0 /\ root[s] = "recorded"
    BY <1>2
  <2>2. QED
    BY <2>1 DEF ChainInv
<1>5. WalkInv
  <2>1. rec.last \in Nat /\ rec.saved \subseteq 0..rec.last
    BY <1>1, WalkFacts
  <2>2. QED
    BY <1>2, <2>1, ConstantsAssumption DEF WalkInv, NoSnapshotSkipped, Walked
<1>6. BatchInv /\ VerifiedInv /\ OkInv /\ MismatchMeansDivergence
  BY <1>2 DEF BatchInv, VerifiedInv, OkInv, MismatchMeansDivergence
<1>7. QED
  BY <1>1, <1>3, <1>4, <1>5, <1>6 DEF Inductive

\* Every step preserves the invariant.
LEMMA NextInductive == Inductive /\ [Next]_vars => Inductive'
BY NextType, StopStep, ChainStep, WalkStep, BatchStep, VerifiedStep, MismatchStep
   DEF Inductive

\* The parts of the invariant hold in every reachable state, for every
\* number of versions, span, recording and amount of crashing.
THEOREM InductiveHolds == Spec => []Inductive
<1>1. QED
  BY InitInductive, NextInductive, PTL DEF Spec

\* The resync never leaves a snapshot behind uncompared: not over a handover,
\* a crash, a lost stream or a failed fetch.
THEOREM NoSnapshotIsSkipped == Spec => []NoSnapshotSkipped
<1>1. Inductive => NoSnapshotSkipped
  BY DEF Inductive, WalkInv
<1>2. QED
  BY <1>1, InductiveHolds, PTL

\* The resync raises no false alarm: it reports a mismatch only of a replay
\* that diverged, however the migration races with the comparison.
THEOREM NoFalseMismatch == Spec => []MismatchMeansDivergence
<1>1. Inductive => MismatchMeansDivergence
  BY DEF Inductive
<1>2. QED
  BY <1>1, InductiveHolds, PTL

\* What a successful return promises holds throughout.
THEOREM OkInvHolds == ASSUME SpanAssumption PROVE Spec => []OkInv
<1>1. Inductive /\ OkInv /\ [Next]_vars => OkInv'
  BY SpanAssumption, OkStep DEF Inductive
<1>2. QED
  BY <1>1, InitInductive, InductiveHolds, PTL DEF Spec

\* With more than one block per version, a successful resync has compared
\* every slot with a batch that it may not skip, and reports the last batch.
THEOREM OkCovers == ASSUME SpanAssumption PROVE Spec => []OkCoversEveryBatch
<1>1. OkInv => OkCoversEveryBatch
  BY DEF OkInv, OkCoversEveryBatch
<1>2. QED
  BY <1>1, SpanAssumption, OkInvHolds, PTL

\* With more than one block per version, the first new slot a successful
\* resync returns lies past the last batch and past no uncompared snapshot.
THEOREM FirstNewSlotIsRight == ASSUME SpanAssumption PROVE Spec => []FirstNewSlotEndsData
<1>1. OkInv => FirstNewSlotEndsData
  BY DEF OkInv, FirstNewSlotEndsData
<1>2. QED
  BY <1>1, SpanAssumption, OkInvHolds, PTL

\* An acceptance test starts from data of every version of its spec.
CompleteData ==
    \A r \in Recordings : r.end[r.last] = StopHeight(NumVersions, BlocksPerVersion)

\* Complete data does not end at a migration boundary.
LEMMA CompleteEnd ==
    ASSUME CompleteData, rec \in Recordings
    PROVE  /\ rec.end[rec.last] \in Nat /\ rec.end[rec.last] > 0
           /\ rec.end[rec.last] \notin MigrationBoundaryCounts(NumVersions, BlocksPerVersion)
<1>1. rec.end[rec.last] = NumVersions * BlocksPerVersion
  BY DEF CompleteData, StopHeight
<1>2. /\ NumVersions \in Nat /\ NumVersions > 0
      /\ BlocksPerVersion \in Nat /\ BlocksPerVersion > 0
  BY ConstantsAssumption
<1>3. ASSUME NEW k \in 1..(NumVersions - 1)
      PROVE  k * BlocksPerVersion # NumVersions * BlocksPerVersion
  <2>1. k \in Nat /\ NumVersions - k \in Nat /\ NumVersions - k > 0
    BY <1>2
  <2>2. NumVersions * BlocksPerVersion
          = k * BlocksPerVersion + (NumVersions - k) * BlocksPerVersion
    BY <1>2, <2>1
  <2>3. /\ k * BlocksPerVersion \in Nat /\ (NumVersions - k) * BlocksPerVersion \in Nat
        /\ (NumVersions - k) * BlocksPerVersion > 0
    BY <1>2, <2>1
  <2>4. QED
    BY <2>2, <2>3
<1>4. NumVersions * BlocksPerVersion \in Nat /\ NumVersions * BlocksPerVersion > 0
  BY <1>2
<1>5. QED
  BY <1>1, <1>3, <1>4 DEF MigrationBoundaryCounts

\* A comparison of the last batch vouches for the whole chain below it.
LEMMA FaithfulFromEnd ==
    ASSUME CompleteData, Inductive, OkInv
    PROVE  OkMeansFaithfulReplay
<1> SUFFICES ASSUME outcome = "ok", NEW s \in 0..(firstNew - 1),
                    NEW t \in rec.saved, s <= t, t < firstNew
             PROVE  Faithful(s)
  BY DEF OkMeansFaithfulReplay
<1> DEFINE E == rec.end[rec.last]
<1>a. /\ rec \in Recordings /\ rec.last \in Nat /\ rec.saved \subseteq 0..rec.last
      /\ \A i \in 0..rec.last : rec.end[i] \in Nat
      /\ head \in Nat /\ firstNew \in Nat
  BY WalkFacts DEF Inductive, TypeOK, ControlType
<1>b. /\ E \in Nat /\ E > 0
      /\ E \notin MigrationBoundaryCounts(NumVersions, BlocksPerVersion)
  BY <1>a, CompleteEnd
<1>c. \A i \in rec.saved : i < firstNew => i \in verified
  BY DEF OkInv, FirstNewSlotEndsData
<1>1. PICK u \in rec.saved : u < firstNew /\ rec.end[u] = E
  BY <1>b DEF OkInv
<1>2. PICK w \in rec.saved : w < firstNew /\ rec.end[w] = E /\ s <= w
  <2>1. CASE s <= u
    BY <1>1, <2>1
  <2>2. CASE s > u
    <3>1. u <= t /\ u \in 0..rec.last /\ t \in 0..rec.last /\ t <= rec.last
      BY <1>a, <2>2
    <3>2. rec.end[u] <= rec.end[t] /\ rec.end[t] <= E
      BY <1>a, <3>1, RecordingFacts
    <3>3. rec.end[t] = E
      BY <1>a, <1>b, <1>1, <3>1, <3>2
    <3>4. QED
      BY <3>3
  <2>3. QED
    BY <1>a, <2>1, <2>2
<1>3. w <= head /\ root[w] = "recorded"
  <2>1. w \in verified
    BY <1>c, <1>2
  <2>2. ~IsMigrationBoundary(w)
    BY <1>b, <1>2 DEF IsMigrationBoundary
  <2>3. QED
    BY <2>1, <2>2 DEF Inductive, VerifiedInv
<1>4. root[s] # "divergent"
  <2>1. s \in 0..head /\ w \in 0..head /\ (s = w \/ s < w)
    BY <1>a, <1>2, <1>3
  <2>2. QED
    BY <1>3, <2>1 DEF Inductive, ChainInv
<1>5. s \in rec.saved => s \notin badBody
  <2>1. SUFFICES ASSUME s \in rec.saved PROVE s \notin badBody
    OBVIOUS
  <2>2. s < firstNew
    BY <1>a
  <2>3. QED
    BY <1>c, <2>1, <2>2 DEF Inductive, VerifiedInv
<1>6. QED
  BY <1>4, <1>5 DEF Faithful

\* On complete data, a successful resync has replayed every slot up to the
\* last snapshot compared faithfully, the migration slots, whose roots are
\* not compared, included.
THEOREM OkIsFaithful ==
    ASSUME SpanAssumption, CompleteData
    PROVE  Spec => []OkMeansFaithfulReplay
<1>1. Inductive /\ OkInv => OkMeansFaithfulReplay
  BY CompleteData, FaithfulFromEnd
<1>2. QED
  BY <1>1, SpanAssumption, InductiveHolds, OkInvHolds, PTL
-----------------------------------------------------------------------------
(* The refinement: every step of the resync is a step of its contract. *)

\* Only a successful return gives firstNew a value.
LEMMA FirstNewFrame ==
    ASSUME [Next]_vars, outcome' # "ok"
    PROVE  firstNew' = firstNew
<1>1. CASE Wait \/ Follow
  BY <1>1
     DEF Wait, Follow, ApiUp, ApiTimeout, ShutdownWhileWaiting, Subscribe,
         SubscribeFails, ReceiveSlot, StreamInterrupted, ShutdownWhileTailing,
         BeginReconnect, Fail, resultVars
<1>2. CASE SkipMissing \/ FetchFails \/ WalkDone \/ FinishAtMissing
  BY <1>2
     DEF SkipMissing, FetchFails, WalkDone, FinishAtMissing, BeginReconnect,
         Fail, Succeed, resultVars
<1>3. CASE VerifySlot
  BY <1>3 DEF VerifySlot, AfterMatch, Fail, Succeed, resultVars
<1>4. CASE UNCHANGED harnessVars
  BY <1>4 DEF harnessVars, resultVars
<1>5. QED
  BY <1>1, <1>2, <1>3, <1>4, EnvironmentFrame
     DEF Next, Environment, Walk, Returned, vars

\* A step that adds a compared slot adds the one the walk is at.
LEMMA VerifiedFrame ==
    ASSUME [Next]_vars
    PROVE  \/ verified' = verified
           \/ AtSlot /\ cursor \in rec.saved /\ verified' = verified \cup {cursor}
<1>1. CASE Wait \/ Follow
  BY <1>1
     DEF Wait, Follow, ApiUp, ApiTimeout, ShutdownWhileWaiting, Subscribe,
         SubscribeFails, ReceiveSlot, StreamInterrupted, ShutdownWhileTailing,
         walkVars
<1>2. CASE SkipMissing \/ FetchFails \/ WalkDone \/ FinishAtMissing
  BY <1>2 DEF SkipMissing, FetchFails, WalkDone, FinishAtMissing, walkVars
<1>3. CASE VerifySlot
  BY <1>3 DEF VerifySlot
<1>4. CASE UNCHANGED harnessVars
  BY <1>4 DEF harnessVars, walkVars
<1>5. QED
  BY <1>1, <1>2, <1>3, <1>4, EnvironmentFrame
     DEF Next, Environment, Walk, Returned, vars

\* The slot the walk is at is the contract's next one, if it was not compared
\* before: the snapshots below it all were.
LEMMA ComparesInOrder ==
    ASSUME TypeOK, WalkInv, [Next]_vars
    PROVE  verified' = verified \/ Contract!MatchNext
<1>1. SUFFICES ASSUME AtSlot, cursor \in rec.saved, cursor \notin verified,
                      verified' = verified \cup {cursor}
               PROVE  Contract!MatchNext
  <2>1. CASE cursor \in verified
    BY <2>1, VerifiedFrame
  <2>2. CASE cursor \notin verified
    BY <1>1, <2>2, VerifiedFrame
  <2>3. QED
    BY <2>1, <2>2
<1>2. \A t \in rec.saved : t < cursor => t \in verified
  BY <1>1 DEF WalkInv, NoSnapshotSkipped, AtSlot
<1>3. Contract!IsNext(cursor)
  BY <1>1, <1>2 DEF Contract!IsNext
<1>4. QED
  BY <1>1, <1>3 DEF Contract!MatchNext

\* What OkInv promises of a successful return is what the contract asks of it.
LEMMA SuccessCovers ==
    ASSUME TypeOK, OkInv', [Next]_vars, outcome' = "ok"
    PROVE  /\ Contract!Covers(verified')
           /\ \A s \in rec.saved : s < firstNew' => s \in verified'
<1>1. rec' = rec
  BY RecordingFixed
<1>2. OkCoversEveryBatch' /\ FirstNewSlotEndsData'
  BY DEF OkInv
<1>3. \A s \in 0..rec.last :
          Carries(rec, s) /\ s >= IgnoreMissingBelow => s \in verified'
  BY <1>1, <1>2 DEF OkCoversEveryBatch, Carries
<1>4. \A s \in rec.saved : s < firstNew' => s \in verified'
  BY <1>1, <1>2 DEF FirstNewSlotEndsData
<1>5. QED
  BY <1>3, <1>4 DEF Contract!Covers, Carries

\* The initial states are the contract's.
LEMMA InitImplements == Init => Contract!Init
BY DEF Init, Contract!Init, Verdict

\* Every step is a step of the contract, or changes nothing it speaks of.
LEMMA StepImplements ==
    ASSUME TypeOK, WalkInv, OkInv, OkInv', [Next]_vars
    PROVE  [Contract!Next]_Contract!vars
<1>1. rec' = rec
  BY RecordingFixed
<1>2. CASE pc = "done"
  BY <1>2, DoneIsFinal
     DEF Contract!vars, Verdict, harnessVars, walkVars, resultVars
<1>3. CASE pc # "done"
  <2>1. outcome = "running" /\ Verdict = "running"
    BY <1>3 DEF OkInv, Verdict
  <2>2. verified' = verified \/ Contract!MatchNext
    BY ComparesInOrder
  <2>3. CASE outcome' = "running"
    <3>1. firstNew' = firstNew /\ Verdict' = Verdict
      BY <2>1, <2>3, FirstNewFrame DEF Verdict
    <3>2. QED
      BY <1>1, <2>1, <2>2, <3>1
         DEF Contract!vars, Contract!Next, Contract!Compare
  <2>4. CASE outcome' = "ok"
    <3>1. Verdict' = "ok"
      BY <2>4 DEF Verdict
    <3>2. QED
      BY <1>1, <2>1, <2>2, <2>4, <3>1, SuccessCovers
         DEF Contract!Next, Contract!Succeed
  <2>5. CASE outcome' # "running" /\ outcome' # "ok"
    <3>1. firstNew' = firstNew /\ Verdict' = "failed"
      BY <2>5, FirstNewFrame DEF Verdict
    <3>2. QED
      BY <1>1, <2>1, <2>2, <3>1 DEF Contract!Next, Contract!GiveUp
  <2>6. QED
    BY <2>3, <2>4, <2>5
<1>4. QED
  BY <1>2, <1>3

\* With more than one block per version, the resync implements its contract:
\* whatever interrupts it, it compares the snapshots in order, passes none
\* over, and succeeds only on all of the recorded data.
THEOREM ResyncImplementsContract ==
    ASSUME SpanAssumption PROVE Spec => ImplementsContract
<1>1. Inductive => TypeOK /\ WalkInv
  BY DEF Inductive
<1>2. TypeOK /\ WalkInv /\ OkInv /\ OkInv' /\ [Next]_vars => [Contract!Next]_Contract!vars
  BY StepImplements
<1>3. QED
  BY <1>1, <1>2, SpanAssumption, InitImplements, InductiveHolds, OkInvHolds, PTL
     DEF Spec, ImplementsContract, Contract!Spec
-----------------------------------------------------------------------------
(* Handovers. *)

\* What the proof asks of the version plan: with three versions the guard may
\* take a second handover for a crash loop.
OneHandover == NumVersions <= 2

\* The node has reached, or is about to be handed over to, its last version.
HandedOver == version = NumVersions
Stopped    == ~up /\ AtStopHeight

\* Without crashes, an interruption is the handover's, and a harness that has
\* reconnected follows the last version, which is not interrupted again.
HandoverInv ==
    /\ open => up
    /\ pc \in {"tailing", "verifying"} /\ ~open => HandedOver \/ Stopped
    /\ lastReconnect # Never =>
          /\ HandedOver \/ Stopped
          /\ pc \in {"starting", "subscribing", "tailing", "verifying"} => HandedOver /\ up
          /\ pc \in {"tailing", "verifying"} => open
    /\ pc = "starting" => lastReconnect = Never
    /\ outcome # "no_progress"
    /\ outcome = "subscribe_failed" => pc = "done" /\ lastReconnect = Never

\* A first reconnect is always allowed, a second one never asked for.
LEMMA ReconnectBridges ==
    ASSUME TypeOK, HandoverInv, BeginReconnect, UNCHANGED nodeVars, UNCHANGED rec,
           open' = open,
           pc \in {"tailing", "verifying"}, ~open
    PROVE  HandoverInv'
<1>1. lastReconnect = Never /\ checked # Never
  BY DEF HandoverInv, TypeOK, WalkType, Never
<1>2. /\ pc' = "reconnecting" /\ lastReconnect' = checked
      /\ outcome' = outcome
  BY <1>1 DEF BeginReconnect, resultVars
<1>3. (HandedOver \/ Stopped)'
  BY DEF HandoverInv, HandedOver, Stopped, AtStopHeight, BatchEnd, nodeVars
<1>4. QED
  BY <1>2, <1>3 DEF HandoverInv, nodeVars

\* The steps of node and manager keep the invariant.
LEMMA HandoverEnvironment ==
    ASSUME TypeOK, HandoverInv, OneHandover, ~MayCrash, Environment
    PROVE  HandoverInv'
<1>1. UNCHANGED <<rec, harnessVars>>
  BY EnvironmentFrame
<1>2. /\ pc' = pc /\ lastReconnect' = lastReconnect /\ outcome' = outcome
      /\ rec' = rec
  BY <1>1 DEF harnessVars, resultVars
<1>3. /\ version \in 1..NumVersions /\ NumVersions \in Nat \ {0} /\ NumVersions <= 2
  BY ConstantsAssumption DEF TypeOK, NodeType, OneHandover
<1> USE DEF HandoverInv, HandedOver, Stopped
<1>4. CASE NodeReplay
  <2>1. up' = up /\ version' = version /\ open' = open
    BY <1>4 DEF NodeReplay
  <2>2. QED
    BY <1>2, <1>4, <2>1 DEF NodeReplay
<1>5. CASE NodeNewSlot \/ RequestShutdown
  <2>1. UNCHANGED <<up, version, head, open>>
    BY <1>5 DEF NodeNewSlot, RequestShutdown, nodeVars, streamVars
  <2>2. (HandedOver \/ Stopped)' <=> (HandedOver \/ Stopped)
    BY <1>2, <2>1 DEF AtStopHeight, BatchEnd
  <2>3. QED
    BY <1>2, <2>1, <2>2
<1>6. CASE NodeStop
  <2>1. UNCHANGED <<version, head>> /\ ~up' /\ ~open' /\ up /\ AtStopHeight /\ ~HandedOver
    BY <1>6, <1>3 DEF NodeStop, AtStopHeight
  <2>2. Stopped'
    BY <1>2, <2>1 DEF AtStopHeight, BatchEnd
  <2>3. QED
    BY <1>2, <2>1, <2>2
<1>7. CASE Handover
  <2>1. version' = NumVersions /\ UNCHANGED <<up, open>> /\ ~up /\ version # NumVersions
    BY <1>7, <1>3 DEF Handover, AtStopHeight, streamVars
  <2>2. QED
    BY <1>2, <2>1
<1>8. CASE NodeStart
  <2>1. UNCHANGED <<version, open>> /\ up' /\ ~Stopped /\ ~up
    BY <1>8 DEF NodeStart, streamVars
  <2>2. QED
    BY <1>2, <2>1
<1>9. QED
  BY <1>4, <1>5, <1>6, <1>7, <1>8
     DEF Environment, Node, NodeCrash, StreamDrops

\* The steps of the harness keep the invariant.
LEMMA HandoverHarness ==
    ASSUME TypeOK, HandoverInv, ~MayCrash, Wait \/ Follow \/ Walk
    PROVE  HandoverInv'
<1>1. UNCHANGED nodeVars /\ UNCHANGED rec
  BY DEF Wait, Follow, Walk, ApiUp, ApiTimeout, ShutdownWhileWaiting, Subscribe,
         SubscribeFails, ReceiveSlot, StreamInterrupted, ShutdownWhileTailing,
         SkipMissing, FinishAtMissing, FetchFails, VerifySlot, WalkDone
<1>2. /\ (HandedOver \/ Stopped)' <=> (HandedOver \/ Stopped)
      /\ (HandedOver /\ up)' <=> (HandedOver /\ up)
      /\ up' = up
  BY <1>1 DEF HandedOver, Stopped, AtStopHeight, BatchEnd, nodeVars
<1>3. CASE StreamInterrupted \/ FetchFails
  <2>1. /\ BeginReconnect /\ open' = open /\ ~open
        /\ pc \in {"tailing", "verifying"}
    BY <1>3 DEF StreamInterrupted, FetchFails, AtSlot, streamVars, HandoverInv
  <2>2. QED
    BY <2>1, <1>1, ReconnectBridges
<1>4. CASE /\ pc' = "done" /\ UNCHANGED <<open, lastReconnect>>
           /\ outcome' \notin {"no_progress", "subscribe_failed"}
  BY <1>2, <1>4 DEF HandoverInv
<1>5. CASE Subscribe
  <2>1. up /\ open' /\ pc' = "tailing" /\ pc = "subscribing"
        /\ UNCHANGED <<lastReconnect, outcome>>
    BY <1>5 DEF Subscribe, resultVars
  <2>2. QED
    BY <1>2, <2>1 DEF HandoverInv
<1>6. CASE ApiUp
  <2>1. up /\ pc' = "subscribing" /\ UNCHANGED <<lastReconnect, outcome, open>>
    BY <1>6 DEF ApiUp, resultVars, streamVars
  <2>2. /\ lastReconnect # Never => HandedOver
        /\ pc # "done"
    BY <2>1, <1>6 DEF HandoverInv, Stopped, ApiUp
  <2>3. /\ outcome' \notin {"no_progress", "subscribe_failed"}
        /\ open' => up'
        /\ lastReconnect' # Never => (HandedOver /\ up)' /\ (HandedOver \/ Stopped)'
    BY <1>2, <2>1, <2>2 DEF HandoverInv
  <2>4. QED
    BY <2>1, <2>3 DEF HandoverInv
<1>7. CASE /\ pc \in {"tailing", "verifying"} /\ pc' \in {"tailing", "verifying"}
           /\ UNCHANGED <<lastReconnect, outcome, open>>
  BY <1>2, <1>7 DEF HandoverInv
<1>8. CASE ApiTimeout \/ ShutdownWhileWaiting \/ ShutdownWhileTailing
  BY <1>8, <1>4 DEF ApiTimeout, ShutdownWhileWaiting, ShutdownWhileTailing, Fail,
                    streamVars
<1>8a. CASE SubscribeFails
  <2>1. /\ pc = "subscribing" /\ ~up /\ pc' = "done" /\ outcome' = "subscribe_failed"
        /\ open' = open /\ lastReconnect' = lastReconnect
    BY <1>8a DEF SubscribeFails, Fail, streamVars
  <2>2. lastReconnect = Never /\ ~open
    BY <2>1 DEF HandoverInv
  <2>3. /\ lastReconnect' = Never /\ ~open' /\ pc' = "done"
        /\ outcome' # "no_progress"
    BY <2>1, <2>2
  <2>4. QED
    BY <2>3 DEF HandoverInv
<1>9. CASE FinishAtMissing
  BY <1>9, <1>4 DEF FinishAtMissing, Fail, Succeed, streamVars
<1>10. CASE VerifySlot
  <2>1. /\ pc = "verifying" /\ open' = open
        /\ \/ Fail("mismatch") \/ AfterMatch
    BY <1>10 DEF VerifySlot, AtSlot, streamVars
  <2>2. CASE Fail("mismatch")
    BY <2>1, <2>2, <1>4 DEF Fail
  <2>3. CASE AfterMatch
    <3>1. \/ Fail("too_few_batches") \/ Succeed(cursor + 1)
          \/ Advance /\ UNCHANGED <<lastReconnect, resultVars>>
      BY <2>3 DEF AfterMatch
    <3>2. QED
      BY <3>1, <2>1, <1>4, <1>7 DEF Fail, Succeed, Advance, resultVars
  <2>4. QED
    BY <2>1, <2>2, <2>3
<1>11. CASE ReceiveSlot \/ SkipMissing \/ WalkDone
  BY <1>11, <1>7 DEF ReceiveSlot, SkipMissing, WalkDone, AtSlot, Advance, streamVars,
                     resultVars
<1>12. QED
  BY <1>3, <1>5, <1>6, <1>8, <1>9, <1>10, <1>11, <1>8a DEF Wait, Follow, Walk

\* Where no node crashes and the plan has one handover, a handover that interrupts
\* a harness that has subscribed is not taken for a crash loop and is followed by
\* a subscription that succeeds, whatever the recording and wherever in the walk
\* the old version stops.
THEOREM FollowedHandoversAreBridged ==
    ASSUME OneHandover PROVE Spec => []FollowedHandoverIsBridged
<1>1. Init => (~MayCrash => HandoverInv)
  BY DEF Init, HandoverInv, Never
<1>2. TypeOK /\ (~MayCrash => HandoverInv) /\ [Next]_vars => (~MayCrash => HandoverInv)'
  <2> SUFFICES ASSUME TypeOK, ~MayCrash => HandoverInv, [Next]_vars, ~MayCrash'
               PROVE  HandoverInv'
    OBVIOUS
  <2>1. rec' = rec
    BY RecordingFixed
  <2>2. ~MayCrash /\ HandoverInv
    BY <2>1 DEF MayCrash
  <2>3. CASE Environment
    BY <2>3, <2>2, OneHandover, HandoverEnvironment
  <2>4. CASE Wait \/ Follow \/ Walk
    BY <2>4, <2>2, HandoverHarness
  <2>5. CASE UNCHANGED vars
    BY <2>5, <2>2 DEF vars, nodeVars, streamVars, harnessVars, resultVars, HandoverInv,
                HandedOver, Stopped, AtStopHeight, BatchEnd
  <2>6. QED
    BY <2>3, <2>4, <2>5 DEF Next, Environment, Returned
<1>3. (~MayCrash => HandoverInv) => FollowedHandoverIsBridged
  BY DEF HandoverInv, FollowedHandoverIsBridged
<1>4. QED
  BY <1>1, <1>2, <1>3, TypeCorrect, PTL DEF Spec
=============================================================================
