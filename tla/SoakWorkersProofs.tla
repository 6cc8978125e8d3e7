------------------------- MODULE SoakWorkersProofs -------------------------
(***************************************************************************)
(* Proofs about SoakWorkers, for every stop height, retry limit and number *)
(* of contracts that leaves the workers keys of their own.  The sequencer, *)
(* the validation worker and the EVM workers have an invariant each: the   *)
(* workers meet only in what the sequencer shows them.                     *)
(***************************************************************************)
EXTENDS SoakWorkers, FiniteSetTheorems, SequenceTheorems, TLAPS

(* The sequencer. *)

\* What the API shows is behind the open block, the heights behind the root.
SeqInv ==
    /\ SeqTypeOK
    /\ starting => height < RollupStopHeight
    /\ api.height <= api.root

\* A worker may count on heights and slots never to go back.
Ahead ==
    /\ head <= head' /\ height <= height'
    /\ api.height <= api'.height /\ api.root <= api'.root
    /\ diverged \subseteq diverged'

LEMMA InitSeq == Init => SeqInv
<1> SUFFICES ASSUME Init PROVE SeqInv
  OBVIOUS
<1>1. up \in BOOLEAN /\ stopping \in BOOLEAN /\ starting \in BOOLEAN
  BY DEF Init, SeqInit
<1>2. /\ head \in Nat /\ height \in 1..RollupStopHeight /\ diverged \subseteq 1..height
      /\ api \in [true : 1..head, height : 1..height, root : 1..height]
      /\ api.height <= api.root
  BY SequencerConstants DEF Init, SeqInit
<1>3. ~starting
  BY DEF Init, SeqInit
<1>4. QED
  BY <1>1, <1>2, <1>3 DEF SeqInv, SeqTypeOK

LEMMA SeqStep ==
    ASSUME SeqInv, SeqNext
    PROVE  SeqInv' /\ Ahead
<1>1. up' \in BOOLEAN /\ stopping' \in BOOLEAN /\ starting' \in BOOLEAN
  BY DEF SeqInv, SeqTypeOK, SeqNext, AnnounceSlot, StartSlot, OpenBlock, SkipBlock, ShowRoot,
         ShowHeights, ReachStop, NodeDown
<1>2. starting' => height' < RollupStopHeight
  BY DEF SeqInv, SeqNext, AnnounceSlot, StartSlot, OpenBlock, SkipBlock, ShowRoot,
         ShowHeights, ReachStop, NodeDown
<1> DEFINE Heights == /\ head \in Nat /\ height \in 1..RollupStopHeight
                      /\ api \in [true : 1..head, height : 1..height, root : 1..height]
                      /\ diverged \subseteq 1..height
                      /\ api.height <= api.root
<1>3. Heights
  BY DEF SeqInv, SeqTypeOK
<1>4. Heights' /\ Ahead
  <2> USE SequencerConstants, <1>3 DEF Ahead
  <2>1. CASE AnnounceSlot
    BY <2>1 DEF AnnounceSlot
  <2>2. CASE StartSlot
    BY <2>2 DEF StartSlot
  <2>3. CASE OpenBlock
    <3>1. height < RollupStopHeight
      BY <2>3 DEF OpenBlock, SeqInv
    <3>2. UNCHANGED <<head, api>> /\ height' = height + 1
          /\ diverged \subseteq diverged' /\ diverged' \subseteq diverged \cup {height + 1}
      BY <2>3 DEF OpenBlock
    <3>3. QED
      BY <3>1, <3>2
  <2>4. CASE SkipBlock \/ ReachStop \/ NodeDown
    <3>1. UNCHANGED <<head, height, api, diverged>>
      BY <2>4 DEF SkipBlock, ReachStop, NodeDown
    <3>2. QED
      BY <3>1
  <2>5. CASE ShowRoot
    BY <2>5 DEF ShowRoot
  <2>6. CASE ShowHeights
    BY <2>6 DEF ShowHeights
  <2>7. QED
    BY <2>1, <2>2, <2>3, <2>4, <2>5, <2>6 DEF SeqNext
<1>5. QED
  BY <1>1, <1>2, <1>4 DEF SeqInv, SeqTypeOK
-----------------------------------------------------------------------------
(* The validation worker. *)

\* An assertion is made of heights and a root that were shown, the root last; a
\* worker that has returned does nothing more, and a rejection ends it.
ValInv ==
    /\ ValTypeOK
    /\ vresult # "running" => vpc = "done"
    /\ vpc = "reading" => seen <= api.height
    /\ vpc = "sending" => seen <= vroot
    /\ NoFalseRejection /\ RejectionIsReported

LEMMA InitVal == Init => ValInv
<1> SUFFICES ASSUME Init PROVE ValInv
  OBVIOUS
<1>1. /\ vnext \in 1..(head + 1) /\ vslot \in 0..head
      /\ errors \in 0..(MaxErrors - 1)
      /\ attempt \in 0..(MaxPolls - 1) \cup 0..(MaxWaits - 1)
      /\ read \in [true : {Unread} \cup 1..head, heights : {Unread} \cup 1..height]
      /\ seen \in 1..height /\ vroot \in 1..height
  BY ValidationConstants DEF Init, SeqInit, ValInit, Nothing
<1>2. vpc = "waiting" /\ vresult = "running" /\ rejected = FALSE
  BY DEF Init, ValInit
<1>3. QED
  BY <1>1, <1>2 DEF ValInv, ValTypeOK, VLabels, VResults, NoFalseRejection,
                    RejectionIsReported

\* What the worker has read stays behind what the sequencer shows.
LEMMA ValFrame ==
    ASSUME SeqInv, SeqInv', ValInv, Ahead, UNCHANGED valVars
    PROVE  ValInv'
<1>1. head \in Nat /\ head' \in Nat /\ height \in Nat /\ height' \in Nat
      /\ api.height \in Nat /\ api'.height \in Nat
  BY SequencerConstants DEF SeqInv, SeqTypeOK
<1>2. head <= head' /\ height <= height'
  BY DEF Ahead
<1>3. ValTypeOK'
  <2>1. vnext' \in 1..(head' + 1) /\ vslot' \in 0..head'
    <3>1. /\ vnext \in 1..(head + 1) /\ vslot \in 0..head
          /\ vnext' = vnext /\ vslot' = vslot
      BY DEF ValInv, ValTypeOK, valVars
    <3>2. vnext' \in 1..(head' + 1)
      <4>1. \A m, n \in Nat : m <= n => 1..(m + 1) \subseteq 1..(n + 1)
        OBVIOUS
      <4>2. 1..(head + 1) \subseteq 1..(head' + 1)
        BY <1>1, <1>2, <4>1
      <4>3. QED
        BY <3>1, <4>2
    <3>3. vslot' \in 0..head'
      BY <1>1, <1>2, <3>1
    <3>4. QED
      BY <3>2, <3>3
  <2>2. seen' \in 1..height' /\ vroot' \in 1..height'
    BY <1>1, <1>2 DEF ValInv, ValTypeOK, valVars
  <2>3. read' \in [true : {Unread} \cup 1..head', heights : {Unread} \cup 1..height']
    BY <1>1, <1>2 DEF ValInv, ValTypeOK, valVars
  <2>4. QED
    BY <2>1, <2>2, <2>3 DEF ValInv, ValTypeOK, valVars
<1>4. (vpc = "reading" => seen <= api.height)'
  BY <1>1 DEF ValInv, ValTypeOK, valVars, Ahead
<1>5. NoFalseRejection' /\ RejectionIsReported'
  BY DEF ValInv, NoFalseRejection, RejectionIsReported, valVars, Ahead
<1>6. QED
  BY <1>3, <1>4, <1>5 DEF ValInv, valVars

\* The worker returns, for a reason that is no rejection.
LEMMA ValFinishes ==
    ASSUME SeqInv, ValInv, UNCHANGED seqVars, NEW why \in VResults \ {"running", "rejected"},
           VFinish(why), vresult = "running", UNCHANGED rejected
    PROVE  ValInv'
BY SequencerConstants, ValidationConstants
   DEF ValInv, VFinish, Forget, ValTypeOK, VLabels, VResults, Nothing, Unread, seqVars,
       NoFalseRejection, RejectionIsReported, SeqInv, SeqTypeOK

\* A step of the worker keeps its invariant, whatever the sequencer does between
\* two of its requests.
LEMMA ValStep ==
    ASSUME SeqInv, ValInv, ValNext, UNCHANGED seqVars
    PROVE  ValInv'
<1>1. vresult = "running" /\ ~rejected
  BY DEF ValInv, ValNext, RejectionIsReported, SubscribeSlots, DrainSlots, StreamError,
         StreamCloses, AskTrueSlot, AskHeights, SlotBegun, WatchHeights, ReadRoot,
         SendAssertion, RequestFails
<1>2. /\ head \in Nat /\ height \in Nat \ {0} /\ height <= RollupStopHeight
      /\ api.true \in 1..head /\ api.height \in 1..height /\ api.root \in 1..height
      /\ api.height <= api.root
      /\ UNCHANGED <<head, height, api, diverged>>
  BY SequencerConstants DEF SeqInv, SeqTypeOK, seqVars
<1>3. /\ MaxErrors \in Nat \ {0} /\ MaxPolls \in Nat \ {0} /\ MaxWaits \in Nat \ {0}
  BY ValidationConstants
<1>4. CASE SubscribeSlots
  BY <1>1, <1>2, <1>4 DEF SubscribeSlots, ValInv, ValTypeOK, VLabels, VResults,
       NoFalseRejection, RejectionIsReported
<1>5. CASE DrainSlots
  <2>1. CASE VFinish("stop_height") /\ UNCHANGED rejected
    BY <1>1, <2>1, ValFinishes DEF VResults
  <2>2. CASE ~VFinish("stop_height")
    <3>1. PICK newest \in vnext..head :
              /\ vpc' = "polling" /\ vslot' = newest
              /\ vnext' = newest + 1 /\ errors' = 0
              /\ UNCHANGED <<attempt, read, seen, vroot, vresult>>
      BY <1>5, <2>2 DEF DrainSlots
    <3>2. newest \in 1..head
      BY <1>2 DEF ValInv, ValTypeOK
    <3>3. UNCHANGED rejected
      BY <1>5 DEF DrainSlots
    <3>4. QED
      BY <1>1, <1>2, <1>3, <3>1, <3>2, <3>3 DEF ValInv, ValTypeOK, VLabels, VResults,
           NoFalseRejection, RejectionIsReported
  <2>3. QED
    BY <1>5, <2>1, <2>2 DEF DrainSlots
<1>6. CASE StreamError
  <2>1. CASE VFinish("stream_errors") /\ UNCHANGED rejected
    BY <1>1, <2>1, ValFinishes DEF VResults
  <2>2. CASE ~VFinish("stream_errors")
    <3>1. /\ errors' = errors + 1 /\ errors + 1 < MaxErrors
          /\ UNCHANGED <<vpc, vnext, vslot, attempt, read, seen, vroot, vresult, rejected>>
      BY <1>3, <1>6, <2>2 DEF StreamError, ValInv, ValTypeOK
    <3>2. QED
      BY <1>1, <1>2, <1>3, <3>1 DEF ValInv, ValTypeOK, NoFalseRejection, RejectionIsReported
  <2>3. QED
    BY <1>6, <2>1, <2>2 DEF StreamError
<1>7. CASE StreamCloses
  BY <1>1, <1>7, ValFinishes DEF StreamCloses, VResults
<1>8. CASE AskTrueSlot \/ AskHeights
  BY <1>1, <1>2, <1>8 DEF AskTrueSlot, AskHeights, ValInv, ValTypeOK, NoFalseRejection,
       RejectionIsReported
<1>9. CASE SlotBegun
  <2>1. CASE VFinish("poll_timeout") /\ UNCHANGED rejected
    BY <1>1, <2>1, ValFinishes DEF VResults
  <2>2. CASE ~VFinish("poll_timeout")
    <3>1. UNCHANGED <<vnext, errors, vslot, vroot, vresult, rejected>> /\ read' = Nothing
      BY <1>9, <2>2 DEF SlotBegun
    <3>2. seen' \in 1..height /\ vpc' \in {"watching", "polling"}
      BY <1>9, <2>2 DEF SlotBegun, ValInv, ValTypeOK
    <3>3. attempt' \in 0..(MaxPolls - 1) \cup 0..(MaxWaits - 1)
      BY <1>3, <1>9, <2>2 DEF SlotBegun, ValInv, ValTypeOK
    <3>4. Nothing \in [true : {Unread} \cup 1..head, heights : {Unread} \cup 1..height]
      BY DEF Nothing
    <3>5. QED
      BY <1>1, <1>2, <3>1, <3>2, <3>3, <3>4 DEF ValInv, ValTypeOK, VLabels,
           NoFalseRejection, RejectionIsReported
  <2>3. QED
    BY <1>9, <2>1, <2>2 DEF SlotBegun
<1>10. CASE WatchHeights
  <2>1. UNCHANGED <<vnext, errors, vslot, read, vroot, vresult, rejected>>
    BY <1>10 DEF WatchHeights
  <2>2. /\ seen' \in 1..height
        /\ \/ vpc' = "reading" /\ seen' = api.height
           \/ vpc' = "watching"
    BY <1>2, <1>10 DEF WatchHeights, ValInv, ValTypeOK
  <2>3. attempt' \in 0..(MaxPolls - 1) \cup 0..(MaxWaits - 1)
    BY <1>3, <1>10 DEF WatchHeights, ValInv, ValTypeOK
  <2>4. QED
    BY <1>1, <1>2, <2>1, <2>2, <2>3 DEF ValInv, ValTypeOK, VLabels, NoFalseRejection,
         RejectionIsReported
<1>11. CASE ReadRoot
  BY <1>1, <1>2, <1>11 DEF ReadRoot, ValInv, ValTypeOK, VLabels, NoFalseRejection,
       RejectionIsReported
<1>12. CASE SendAssertion
  <2>1. seen \in 1..height /\ vroot \in 1..height /\ seen <= vroot
    BY <1>12 DEF SendAssertion, ValInv, ValTypeOK
  <2>2. CASE stopping \/ Holds \/ TooLate(height, seen)
    <3>1. vpc' = "listening" /\ Forget /\ UNCHANGED <<vnext, errors, vresult>>
      BY <1>12, <2>2 DEF SendAssertion
    <3>2. rejected' = rejected
      BY <1>1, <1>2, <1>12, <2>1, <2>2 DEF SendAssertion, TooLate, ValInv, ValTypeOK
    <3>3. QED
      BY <1>1, <1>2, <1>3, <3>1, <3>2 DEF Forget, Nothing, Unread, ValInv, ValTypeOK, VLabels,
           NoFalseRejection, RejectionIsReported
  <2>3. CASE ~(stopping \/ Holds \/ TooLate(height, seen))
    <3>1. VFinish("rejected")
      BY <1>12, <2>3 DEF SendAssertion
    <3>2. seen = height /\ vroot = height /\ height \in diverged
      BY <1>2, <2>1, <2>3 DEF TooLate, Holds
    <3>3. diverged' # {} /\ rejected' \in BOOLEAN
      BY <1>2, <1>12, <3>2 DEF SendAssertion, ValInv, ValTypeOK
    <3>4. ValTypeOK'
      BY <1>2, <1>3, <3>1, <3>3 DEF VFinish, Forget, Nothing, Unread, ValInv, ValTypeOK,
           VLabels, VResults
    <3>5. QED
      BY <3>1, <3>3, <3>4 DEF VFinish, ValInv, NoFalseRejection, RejectionIsReported
  <2>4. QED
    BY <2>2, <2>3
<1>13. CASE RequestFails
  BY <1>1, <1>13, ValFinishes DEF RequestFails, VResults
<1>14. QED
  BY <1>4, <1>5, <1>6, <1>7, <1>8, <1>9, <1>10, <1>11, <1>12, <1>13 DEF ValNext
-----------------------------------------------------------------------------
(* The EVM workers. *)

\* The n-th contract deployed, and the contract of a worker.
Deployment(n) ==
    IF n <= NumContracts THEN Address(DeployerKey("pinned"), n - 1)
    ELSE Address(DeployerKey("unpinned"), n - NumContracts - 1)

Home(w) == Address(DeployerKey(w[1]), w[2])

\* The setup deploys the contracts in order, with the deployers' next nonces.
Deploying ==
    /\ Len(deployed) <= 2 * NumContracts
    /\ \A i \in 1..Len(deployed) : deployed[i] = Deployment(i)
    /\ DOMAIN values = {Deployment(i) : i \in 1..Len(deployed)}
    /\ \A a \in DOMAIN values : values[a] = 0
    /\ nonces[DeployerKey("pinned")] =
           IF Len(deployed) <= NumContracts THEN Len(deployed) ELSE NumContracts
    /\ nonces[DeployerKey("unpinned")] =
           IF Len(deployed) <= NumContracts THEN 0 ELSE Len(deployed) - NumContracts

\* What a worker knows: its next nonce and value, unless its contract has lost an
\* update; then its value is one ahead for good.
Knows(w) ==
    /\ Home(w) \in DOMAIN values /\ ContractOf(w) = Home(w)
    /\ nonces[WorkerKey(w)] >= values[Home(w)]
    /\ wpc[w] # "done" => wresult[w] = "running"
    /\ wpc[w] = "reading_value" => wnonce[w] = nonces[WorkerKey(w)]
    /\ wpc[w] = "updating" =>
           IF Home(w) \in lost THEN wvalue[w] = values[Home(w)] + 1
           ELSE wvalue[w] = values[Home(w)] /\ wnonce[w] = nonces[WorkerKey(w)]
    /\ Home(w) \in lost => wpc[w] \in {"updating", "done"}
    /\ wresult[w] = "rejected" => Home(w) \in lost

\* The deployment is over before the workers start.
EvmInv ==
    /\ EvmTypeOK
    /\ dpc # "done" => vpc = "waiting"
    /\ vpc = "waiting" =>
           /\ lost = {}
           /\ \A w \in Workers : wpc[w] = "waiting" /\ wresult[w] = "running"
    /\ dpc \in {"sending", "receipt"} => Deploying
    /\ dpc = "done" => \A w \in Workers : Knows(w)

\* The bytes that tell the keys apart.
LEMMA KeyBytes ==
    ASSUME NEW w \in Workers
    PROVE  WorkerKey(w) = IF w[1] = "pinned" THEN 182 + w[2]
                          ELSE IF w[2] < 24 THEN 232 + w[2] ELSE w[2] - 24
<1>1. NumContracts \in Nat /\ NumContracts <= 50
  BY EvmConstants
<1>2. w[1] \in Kinds /\ w[2] \in 0..(NumContracts - 1)
  BY DEF Workers
<1>3. w[2] \in Nat /\ w[2] < 50
  BY <1>1, <1>2
<1>4. CASE w[1] = "pinned"
  BY <1>3, <1>4 DEF WorkerKey, WorkerKeyOffset, DeriveKey, RootKeyByte
<1>5. CASE w[1] # "pinned"
  BY <1>3, <1>5 DEF WorkerKey, WorkerKeyOffset, DeriveKey, RootKeyByte
<1>6. QED
  BY <1>4, <1>5

\* Two workers share neither account nor contract.
LEMMA WorkersApart ==
    ASSUME NEW v \in Workers, NEW w \in Workers, v # w
    PROVE  WorkerKey(v) # WorkerKey(w) /\ Home(v) # Home(w)
<1>1. /\ v = <<v[1], v[2]>> /\ w = <<w[1], w[2]>>
      /\ v[1] \in {"pinned", "unpinned"} /\ w[1] \in {"pinned", "unpinned"}
      /\ v[2] \in 0..(NumContracts - 1) /\ w[2] \in 0..(NumContracts - 1)
  BY DEF Workers, Kinds
<1>2. NumContracts \in Nat /\ NumContracts <= 50
  BY EvmConstants
<1>3. v[2] \in Nat /\ w[2] \in Nat /\ v[2] < 50 /\ w[2] < 50
  BY <1>1, <1>2
<1>4. v[1] # w[1] \/ v[2] # w[2]
  BY <1>1
<1>5. WorkerKey(v) # WorkerKey(w)
  BY <1>1, <1>3, <1>4, KeyBytes
<1>6. Home(v) # Home(w)
  BY <1>1, <1>4 DEF Home, Address, DeployerKey, DeriveKey, RootKeyByte
<1>7. QED
  BY <1>5, <1>6

LEMMA AccountsOfWorkers ==
    ASSUME NEW w \in Workers
    PROVE  WorkerKey(w) \in Accounts /\ Home(w) \in Accounts \X Nat
<1>1. w[1] \in Kinds /\ w[2] \in Nat
  BY EvmConstants DEF Workers
<1>2. QED
  BY <1>1 DEF Accounts, Home, Address

LEMMA InitEvm == Init => EvmInv
<1> SUFFICES ASSUME Init PROVE EvmInv
  OBVIOUS
<1>1. EvmTypeOK
  <2>1. values = <<>> /\ DOMAIN values = {}
    BY DEF Init, EvmInit
  <2>2. QED
    BY <2>1, EvmConstants DEF Init, EvmInit, EvmTypeOK
<1>2. Deploying
  <2>1. Len(deployed) = 0 /\ DOMAIN values = {} /\ NumContracts \in Nat
    BY EvmConstants DEF Init, EvmInit
  <2>2. DeployerKey("pinned") \in Accounts /\ DeployerKey("unpinned") \in Accounts
    BY DEF Accounts, Kinds
  <2>3. QED
    BY <2>1, <2>2 DEF Init, EvmInit, Deploying
<1>3. QED
  BY <1>1, <1>2 DEF Init, EvmInit, ValInit, EvmInv

\* The deployments so far, told apart by their accounts, are counted by their nonces.
LEMMA DeploymentsCounted ==
    ASSUME EvmTypeOK, Deploying
    PROVE  /\ Count("pinned") = nonces[DeployerKey("pinned")]
           /\ Len(deployed) < 2 * NumContracts =>
                  Address(DeployerKey(NextKind), nonces[DeployerKey(NextKind)])
                      = Deployment(Len(deployed) + 1)
<1>1. NumContracts \in Nat \ {0} /\ Len(deployed) \in Nat /\ DOMAIN deployed = 1..Len(deployed)
  BY EvmConstants DEF EvmTypeOK
<1> DEFINE most == IF Len(deployed) <= NumContracts THEN Len(deployed) ELSE NumContracts
<1>2. {i \in DOMAIN deployed : deployed[i][1] = DeployerKey("pinned")} = 1..most
  <2>1. \A i \in 1..Len(deployed) :
            deployed[i][1] = DeployerKey("pinned") <=> i <= NumContracts
    <3>1. \A i \in 1..Len(deployed) : deployed[i] = Deployment(i)
      BY DEF Deploying
    <3>2. \A i \in 1..Len(deployed) :
              Deployment(i)[1] = DeployerKey("pinned") <=> i <= NumContracts
      BY <1>1 DEF Deployment, Address, DeployerKey, DeriveKey, RootKeyByte
    <3>3. QED
      BY <3>1, <3>2
  <2>2. QED
    BY <1>1, <2>1
<1>3. Count("pinned") = most
  <2>1. most \in Nat
    BY <1>1
  <2>2. Cardinality(1..most) = most
    BY <2>1, FS_Interval
  <2>3. QED
    BY <1>2, <2>2 DEF Count
<1>4. Count("pinned") = nonces[DeployerKey("pinned")]
  BY <1>3 DEF Deploying
<1>5. ASSUME Len(deployed) < 2 * NumContracts
      PROVE  Address(DeployerKey(NextKind), nonces[DeployerKey(NextKind)])
                 = Deployment(Len(deployed) + 1)
  <2>1. CASE Len(deployed) < NumContracts
    <3>1. NextKind = "pinned"
      BY <1>1, <1>3, <2>1 DEF NextKind
    <3>2. nonces[DeployerKey("pinned")] = Len(deployed)
      BY <1>1, <1>3, <1>4, <2>1
    <3>3. QED
      BY <1>1, <2>1, <3>1, <3>2 DEF Deployment
  <2>2. CASE Len(deployed) >= NumContracts
    <3>1. NextKind = "unpinned"
      <4>1. ~(most < NumContracts)
        BY <1>1, <2>2
      <4>2. QED
        BY <1>3, <4>1 DEF NextKind
    <3>2. nonces[DeployerKey("unpinned")] = Len(deployed) - NumContracts
      <4>1. nonces[DeployerKey("unpinned")]
                = IF Len(deployed) <= NumContracts THEN 0 ELSE Len(deployed) - NumContracts
        BY DEF Deploying
      <4>2. \A m, n \in Nat : m >= n => (IF m <= n THEN 0 ELSE m - n) = m - n
        OBVIOUS
      <4>3. QED
        BY <1>1, <2>2, <4>1, <4>2
    <3>3. QED
      BY <1>1, <2>2, <3>1, <3>2 DEF Deployment
  <2>3. QED
    BY <1>1, <2>1, <2>2
<1>6. QED
  BY <1>4, <1>5

\* The contracts of the metadata file are those of the deployers' nonces, in order.
LEMMA MetadataInOrder ==
    ASSUME EvmTypeOK, Deploying, WriteMetadata
    PROVE  /\ metadata' \in [Kinds -> Seq(Accounts \X Nat)]
           /\ \A w \in Workers :
                  metadata'[w[1]][w[2] + 1] = Home(w) /\ Home(w) \in DOMAIN values
<1>1. /\ NumContracts \in Nat \ {0} /\ Len(deployed) = 2 * NumContracts
      /\ deployed \in Seq(Accounts \X Nat)
  BY EvmConstants DEF EvmTypeOK, WriteMetadata
<1>2. \A i \in 1..(2 * NumContracts) : deployed[i] \in Accounts \X Nat
  BY <1>1
<1>3. /\ SubSeq(deployed, 1, NumContracts) \in Seq(Accounts \X Nat)
      /\ \A i \in 1..NumContracts : SubSeq(deployed, 1, NumContracts)[i] = deployed[i]
  <2>1. \A i \in 1..NumContracts : deployed[i] \in Accounts \X Nat
    BY <1>1, <1>2
  <2>2. 1 \in Int /\ NumContracts \in Int /\ NumContracts - 1 + 1 = NumContracts
    BY <1>1
  <2>3. \A i \in 1..NumContracts : 1 + i - 1 = i
    BY <1>1
  <2>4. /\ SubSeq(deployed, 1, NumContracts) \in Seq(Accounts \X Nat)
        /\ \A i \in 1..(NumContracts - 1 + 1) :
              SubSeq(deployed, 1, NumContracts)[i] = deployed[1 + i - 1]
    BY <2>1, <2>2, SubSeqProperties
  <2>5. QED
    BY <2>2, <2>3, <2>4
<1>4. /\ SubSeq(deployed, NumContracts + 1, 2 * NumContracts) \in Seq(Accounts \X Nat)
      /\ \A i \in 1..NumContracts :
            SubSeq(deployed, NumContracts + 1, 2 * NumContracts)[i] = deployed[NumContracts + i]
  <2>1. \A i \in (NumContracts + 1)..(2 * NumContracts) : deployed[i] \in Accounts \X Nat
    BY <1>1, <1>2
  <2>2. /\ NumContracts + 1 \in Int /\ 2 * NumContracts \in Int
        /\ 2 * NumContracts - (NumContracts + 1) + 1 = NumContracts
    BY <1>1
  <2>3. \A i \in 1..NumContracts : (NumContracts + 1) + i - 1 = NumContracts + i
    BY <1>1
  <2>4. /\ SubSeq(deployed, NumContracts + 1, 2 * NumContracts) \in Seq(Accounts \X Nat)
        /\ \A i \in 1..(2 * NumContracts - (NumContracts + 1) + 1) :
              SubSeq(deployed, NumContracts + 1, 2 * NumContracts)[i]
                  = deployed[(NumContracts + 1) + i - 1]
    BY <2>1, <2>2, SubSeqProperties
  <2>5. QED
    BY <2>2, <2>3, <2>4
<1>5. /\ metadata' \in [Kinds -> Seq(Accounts \X Nat)]
      /\ metadata'["pinned"] = SubSeq(deployed, 1, NumContracts)
      /\ metadata'["unpinned"] = SubSeq(deployed, NumContracts + 1, 2 * NumContracts)
  BY <1>3, <1>4 DEF WriteMetadata, Kinds
<1>6. ASSUME NEW w \in Workers
      PROVE  metadata'[w[1]][w[2] + 1] = Home(w) /\ Home(w) \in DOMAIN values
  <2>1. /\ w[1] \in {"pinned", "unpinned"}
        /\ w[2] \in Nat /\ w[2] + 1 \in 1..NumContracts
    BY <1>1 DEF Workers, Kinds
  <2>2. \A i \in 1..(2 * NumContracts) :
            deployed[i] = Deployment(i) /\ Deployment(i) \in DOMAIN values
    BY <1>1 DEF Deploying
  <2>3. CASE w[1] = "pinned"
    <3>1. Deployment(w[2] + 1) = Home(w)
      BY <1>1, <2>1, <2>3 DEF Deployment, Home
    <3>2. w[2] + 1 \in 1..(2 * NumContracts)
      BY <1>1, <2>1
    <3>3. metadata'["pinned"][w[2] + 1] = deployed[w[2] + 1]
      BY <1>3, <1>5, <2>1
    <3>4. QED
      BY <2>2, <2>3, <3>1, <3>2, <3>3
  <2>4. CASE w[1] = "unpinned"
    <3>1. Deployment(NumContracts + (w[2] + 1)) = Home(w)
      <4>1. \A i \in Nat : Deployment(NumContracts + (i + 1))
                              = Address(DeployerKey("unpinned"), i)
        BY <1>1 DEF Deployment
      <4>2. QED
        BY <2>1, <2>4, <4>1 DEF Home
    <3>2. NumContracts + (w[2] + 1) \in 1..(2 * NumContracts)
      BY <1>1, <2>1
    <3>3. metadata'["unpinned"][w[2] + 1] = deployed[NumContracts + (w[2] + 1)]
      BY <1>4, <1>5, <2>1
    <3>4. QED
      BY <2>2, <2>4, <3>1, <3>2, <3>3
  <2>5. QED
    BY <2>1, <2>3, <2>4
<1>7. QED
  BY <1>5, <1>6

\* A step of the setup keeps the workers' invariant; none of them has started.
LEMMA DeployStep ==
    ASSUME EvmInv, Deploy, UNCHANGED vpc
    PROVE  EvmInv'
<1>1. NumContracts \in Nat \ {0} /\ MaxUpdates \in Nat
  BY EvmConstants
<1>2. dpc \in {"sending", "receipt"}
  BY DEF Deploy, DeployFails, SendDeployment, ReceiveReceipt, WriteMetadata
<1>3. /\ EvmTypeOK /\ Deploying /\ vpc = "waiting" /\ vpc' = "waiting"
      /\ UNCHANGED <<lost, wpc, wnonce, wvalue, wresult>>
      /\ lost = {}
      /\ \A w \in Workers : wpc[w] = "waiting" /\ wresult[w] = "running"
  BY <1>2 DEF EvmInv, Deploy, DeployFails, SendDeployment, ReceiveReceipt, WriteMetadata,
       workVars
<1>4. CASE DeployFails \/ ReceiveReceipt
  <2>1. /\ UNCHANGED <<nonces, values, deployed, metadata>>
        /\ dpc' \in {"sending", "failed"}
    BY <1>4 DEF DeployFails, ReceiveReceipt
  <2>2. EvmTypeOK'
    BY <1>3, <2>1 DEF EvmTypeOK
  <2>3. Deploying'
    BY <1>3, <2>1 DEF Deploying, Count
  <2>4. QED
    BY <1>3, <2>1, <2>2, <2>3 DEF EvmInv
<1>5. CASE SendDeployment
  <2> DEFINE account == DeployerKey(NextKind)
             address == Address(account, nonces[account])
             n == Len(deployed)
  <2>1. /\ n < 2 * NumContracts
        /\ nonces' = [nonces EXCEPT ![account] = @ + 1]
        /\ values' = [a \in DOMAIN values \cup {address} |->
                         IF a = address THEN 0 ELSE values[a]]
        /\ deployed' = Append(deployed, address)
        /\ dpc' = "receipt" /\ UNCHANGED metadata
    BY <1>5 DEF SendDeployment
  <2>2. NextKind \in Kinds /\ account \in Accounts
    BY DEF NextKind, Kinds, Accounts
  <2>3. /\ nonces \in [Accounts -> Nat] /\ nonces' \in [Accounts -> Nat]
        /\ address \in Accounts \X Nat
    BY <1>3, <2>1, <2>2 DEF EvmTypeOK, Address
  <2>4. /\ deployed \in Seq(Accounts \X Nat) /\ deployed' \in Seq(Accounts \X Nat)
        /\ Len(deployed') = n + 1 /\ n \in Nat
        /\ \A i \in 1..n : deployed'[i] = deployed[i]
        /\ deployed'[n + 1] = address
    BY <1>3, <2>1, <2>3, AppendProperties DEF EvmTypeOK
  <2>5. address = Deployment(n + 1)
    BY <1>3, <2>1, DeploymentsCounted
  <2>6. EvmTypeOK'
    <3>1. /\ DOMAIN values' \subseteq Accounts \X Nat
          /\ \A a \in DOMAIN values' : values'[a] \in 0..MaxUpdates
          /\ lost' \subseteq DOMAIN values'
      BY <1>1, <1>3, <2>1, <2>3 DEF EvmTypeOK
    <3>2. QED
      BY <1>3, <2>1, <2>3, <2>4, <3>1 DEF EvmTypeOK
  <2>7. Deploying'
    <3>1. Len(deployed') <= 2 * NumContracts
      BY <1>1, <2>1, <2>4
    <3>2. \A i \in 1..Len(deployed') : deployed'[i] = Deployment(i)
      <4>1. \A i \in 1..n : deployed'[i] = Deployment(i)
        BY <1>3, <2>4 DEF Deploying
      <4>2. \A i \in 1..Len(deployed') : i \in 1..n \/ i = n + 1
        BY <2>4
      <4>3. QED
        BY <2>4, <2>5, <4>1, <4>2
    <3>3. DOMAIN values' = {Deployment(i) : i \in 1..Len(deployed')}
      <4>1. DOMAIN values' = {Deployment(i) : i \in 1..n} \cup {Deployment(n + 1)}
        BY <1>3, <2>1, <2>5 DEF Deploying
      <4>2. 1..Len(deployed') = 1..n \cup {n + 1}
        BY <2>4
      <4>3. QED
        BY <4>1, <4>2
    <3>4. \A a \in DOMAIN values' : values'[a] = 0
      BY <1>3, <2>1 DEF Deploying
    <3>5. /\ nonces'[DeployerKey("pinned")] =
                 IF Len(deployed') <= NumContracts THEN Len(deployed') ELSE NumContracts
          /\ nonces'[DeployerKey("unpinned")] =
                 IF Len(deployed') <= NumContracts THEN 0 ELSE Len(deployed') - NumContracts
      <4>1. /\ nonces[DeployerKey("pinned")] = IF n <= NumContracts THEN n ELSE NumContracts
            /\ nonces[DeployerKey("unpinned")] = IF n <= NumContracts THEN 0 ELSE n - NumContracts
        BY <1>3 DEF Deploying
      <4>2. /\ DeployerKey("pinned") # DeployerKey("unpinned")
            /\ DeployerKey("pinned") \in Accounts /\ DeployerKey("unpinned") \in Accounts
        BY DEF DeployerKey, DeriveKey, RootKeyByte, Accounts, Kinds
      <4>3. CASE n < NumContracts
        <5>1. NextKind = "pinned"
          BY <1>1, <1>3, <2>4, <4>1, <4>3, DeploymentsCounted DEF NextKind
        <5>2. nonces'[DeployerKey("pinned")] = n + 1 /\ nonces'[DeployerKey("unpinned")] = 0
          BY <1>1, <2>1, <2>3, <2>4, <4>1, <4>2, <4>3, <5>1
        <5>3. Len(deployed') = n + 1 /\ Len(deployed') <= NumContracts
          BY <1>1, <2>4, <4>3
        <5>4. QED
          BY <5>2, <5>3
      <4>4. CASE n >= NumContracts
        <5>1. NextKind = "unpinned"
          BY <1>1, <1>3, <2>4, <4>1, <4>4, DeploymentsCounted DEF NextKind
        <5>2. Len(deployed') = n + 1 /\ ~(Len(deployed') <= NumContracts)
          BY <1>1, <2>4, <4>4
        <5>3. /\ nonces'[DeployerKey("pinned")] = NumContracts
              /\ nonces'[DeployerKey("unpinned")] = Len(deployed') - NumContracts
          BY <1>1, <2>1, <2>3, <2>4, <4>1, <4>2, <4>4, <5>1, <5>2
        <5>4. QED
          BY <5>2, <5>3
      <4>5. QED
        BY <1>1, <2>4, <4>3, <4>4
    <3>6. QED
      BY <3>1, <3>2, <3>3, <3>4, <3>5, Zenon DEF Deploying
  <2>8. QED
    BY <1>3, <2>1, <2>6, <2>7 DEF EvmInv
<1>6. CASE WriteMetadata
  <2>1. /\ dpc' = "done" /\ deployed' = <<>> /\ UNCHANGED <<nonces, values>>
    BY <1>6 DEF WriteMetadata
  <2>2. /\ metadata' \in [Kinds -> Seq(Accounts \X Nat)]
        /\ \A w \in Workers :
               metadata'[w[1]][w[2] + 1] = Home(w) /\ Home(w) \in DOMAIN values
    BY <1>3, <1>6, MetadataInOrder
  <2>3. EvmTypeOK'
    BY <1>3, <2>1, <2>2 DEF EvmTypeOK
  <2>4. ASSUME NEW w \in Workers
        PROVE  Knows(w)'
    <3>1. values[Home(w)] = 0 /\ nonces[WorkerKey(w)] \in Nat
      BY <1>3, <2>2, AccountsOfWorkers DEF Deploying, EvmTypeOK
    <3>2. nonces[WorkerKey(w)] >= values[Home(w)]
      BY <3>1
    <3>3. QED
      BY <1>3, <2>1, <2>2, <3>2 DEF Knows, ContractOf
  <2>5. QED
    BY <1>3, <2>1, <2>3, <2>4 DEF EvmInv
<1>7. QED
  BY <1>4, <1>5, <1>6 DEF Deploy

\* A step of worker w's touches nothing of the other workers.
OnlyWorker(w) ==
    /\ DOMAIN values' = DOMAIN values
    /\ \A v \in Workers \ {w} :
           /\ nonces'[WorkerKey(v)] = nonces[WorkerKey(v)]
           /\ values'[Home(v)] = values[Home(v)]
           /\ wpc'[v] = wpc[v] /\ wnonce'[v] = wnonce[v] /\ wvalue'[v] = wvalue[v]
           /\ wresult'[v] = wresult[v]
    /\ lost \subseteq lost' /\ lost' \subseteq lost \cup {Home(w)}

\* What such a step has to keep.
LEMMA WorkerFrame ==
    ASSUME EvmInv, NEW w \in Workers, dpc = "done", vpc # "waiting",
           UNCHANGED <<vpc, deployVars>>, EvmTypeOK', OnlyWorker(w), Knows(w)'
    PROVE  EvmInv'
<1>1. \A v \in Workers : Knows(v)
  BY DEF EvmInv
<1>2. ASSUME NEW v \in Workers, v # w
      PROVE  Knows(v)'
  <2>1. Home(v) # Home(w)
    BY <1>2, WorkersApart
  <2>2. /\ values'[Home(v)] = values[Home(v)] /\ nonces'[WorkerKey(v)] = nonces[WorkerKey(v)]
        /\ wpc'[v] = wpc[v] /\ wnonce'[v] = wnonce[v] /\ wvalue'[v] = wvalue[v]
        /\ wresult'[v] = wresult[v] /\ DOMAIN values' = DOMAIN values
        /\ Home(v) \in lost' <=> Home(v) \in lost
    BY <1>2, <2>1 DEF OnlyWorker
  <2>3. metadata' = metadata
    BY DEF deployVars
  <2>4. QED
    BY <1>1, <2>2, <2>3 DEF Knows, ContractOf, Home
<1>3. QED
  BY <1>2 DEF EvmInv, deployVars

\* A worker at work has its contract, and its entries are of their types.
LEMMA AtWork ==
    ASSUME EvmInv, NEW w \in Workers, wpc[w] \in {"reading_nonce", "reading_value", "updating"}
    PROVE  /\ dpc = "done" /\ vpc # "waiting" /\ Knows(w) /\ EvmTypeOK
           /\ ContractOf(w) = Home(w) /\ Home(w) \in DOMAIN values
           /\ nonces[WorkerKey(w)] \in Nat /\ WorkerKey(w) \in Accounts
           /\ values[Home(w)] \in 0..MaxUpdates
           /\ wnonce[w] \in Nat /\ wvalue[w] \in 0..MaxUpdates
<1>1. dpc = "done" /\ vpc # "waiting" /\ EvmTypeOK
  BY DEF EvmInv
<1>2. Knows(w)
  BY <1>1 DEF EvmInv
<1>3. QED
  BY <1>1, <1>2, AccountsOfWorkers DEF Knows, EvmTypeOK

\* A worker that returns without being rejected keeps the invariant.
LEMMA WorkerReturns ==
    ASSUME EvmInv, NEW w \in Workers, wpc[w] \in {"reading_nonce", "reading_value", "updating"},
           UNCHANGED <<vpc, nonces, values, lost, deployVars>>,
           NEW why \in {"unreachable", "rejected", "stop_height"}, WFinish(w, why),
           why = "rejected" => Home(w) \in lost
    PROVE  EvmInv'
<1>1. dpc = "done" /\ vpc # "waiting" /\ Knows(w) /\ EvmTypeOK
  BY AtWork
<1>2. MaxUpdates \in Nat
  BY EvmConstants
<1>3. EvmTypeOK'
  BY <1>1, <1>2 DEF EvmTypeOK, WFinish, deployVars
<1>4. OnlyWorker(w)
  BY <1>1 DEF OnlyWorker, WFinish, EvmTypeOK
<1>5. wpc'[w] = "done" /\ wresult'[w] = why
  BY <1>1 DEF WFinish, EvmTypeOK
<1>6. Knows(w)'
  BY <1>1, <1>5 DEF Knows, ContractOf, deployVars, Home
<1>7. QED
  BY <1>1, <1>3, <1>4, <1>6, WorkerFrame

\* An update is accepted only of a contract that has lost none, from a worker that
\* knows its nonce and value, and counts both.
LEMMA AcceptedUpdate ==
    ASSUME EvmInv, NEW w \in Workers, wpc[w] = "updating", Valid(w), Accepted(w),
           wvalue[w] < MaxUpdates
    PROVE  /\ Home(w) \notin lost
           /\ nonces' \in [Accounts -> Nat] /\ DOMAIN values' = DOMAIN values
           /\ \A a \in DOMAIN values' : values'[a] \in 0..MaxUpdates
           /\ nonces'[WorkerKey(w)] = wnonce[w] + 1 /\ values'[Home(w)] = wvalue[w] + 1
           /\ nonces'[WorkerKey(w)] >= values'[Home(w)]
           /\ \A v \in Workers \ {w} : /\ nonces'[WorkerKey(v)] = nonces[WorkerKey(v)]
                                       /\ values'[Home(v)] = values[Home(v)]
           /\ \A a \in DOMAIN values \ {Home(w)} : values'[a] = values[a]
<1>1. /\ Knows(w) /\ EvmTypeOK /\ dpc = "done" /\ ContractOf(w) = Home(w)
      /\ Home(w) \in DOMAIN values
      /\ nonces[WorkerKey(w)] \in Nat /\ WorkerKey(w) \in Accounts
      /\ values[Home(w)] \in 0..MaxUpdates /\ wnonce[w] \in Nat /\ wvalue[w] \in 0..MaxUpdates
  BY AtWork
<1>2. MaxUpdates \in Nat
  BY EvmConstants
<1>3. /\ nonces[WorkerKey(w)] = wnonce[w] /\ values[Home(w)] = wvalue[w]
      /\ nonces' = [nonces EXCEPT ![WorkerKey(w)] = @ + 1]
      /\ values' = [values EXCEPT ![Home(w)] = @ + 1]
  BY <1>1 DEF Valid, Accepted
<1>4. Home(w) \notin lost
  BY <1>1, <1>2, <1>3 DEF Knows
<1>5. nonces' \in [Accounts -> Nat] /\ DOMAIN values' = DOMAIN values
  BY <1>1, <1>3 DEF EvmTypeOK
<1>6. /\ \A a \in DOMAIN values' : values'[a] \in 0..MaxUpdates
      /\ \A a \in DOMAIN values \ {Home(w)} : values'[a] = values[a]
  BY <1>1, <1>2, <1>3 DEF EvmTypeOK
<1>7. nonces'[WorkerKey(w)] = wnonce[w] + 1 /\ values'[Home(w)] = wvalue[w] + 1
  BY <1>1, <1>3 DEF EvmTypeOK
<1>8. nonces'[WorkerKey(w)] >= values'[Home(w)]
  BY <1>1, <1>2, <1>3, <1>7 DEF Knows
<1>9. ASSUME NEW v \in Workers, v # w
      PROVE  /\ nonces'[WorkerKey(v)] = nonces[WorkerKey(v)]
             /\ values'[Home(v)] = values[Home(v)]
  <2>1. WorkerKey(v) # WorkerKey(w) /\ Home(v) # Home(w) /\ WorkerKey(v) \in Accounts
    BY <1>9, WorkersApart, AccountsOfWorkers
  <2>2. Home(v) \in DOMAIN values
    BY <1>1 DEF EvmInv, Knows
  <2>3. QED
    BY <1>1, <1>3, <2>1, <2>2 DEF EvmTypeOK
<1>10. QED
  BY <1>4, <1>5, <1>6, <1>7, <1>8, <1>9

\* A step of a worker, accepted updates and losses included, keeps what every
\* worker knows, and never moves a contract that has lost an update.
LEMMA WorkStep ==
    ASSUME EvmInv, NEW w \in Workers, Work(w) \/ LoseUpdate(w), UNCHANGED vpc
    PROVE  /\ EvmInv' /\ UNCHANGED deployVars
           /\ \A v \in Workers : ContractOf(v) \in lost =>
                  values'[ContractOf(v)] <= values[ContractOf(v)]
<1> DEFINE Noticed == \A v \in Workers : ContractOf(v) \in lost =>
                          values'[ContractOf(v)] <= values[ContractOf(v)]
<1>1. wpc[w] \in {"reading_nonce", "reading_value", "updating"} /\ UNCHANGED deployVars
  BY DEF Work, LoseUpdate, ReadNonce, ReadValue, UpdateConfirmed, UpdateUnconfirmed,
         UpdateRejected, StopHeightReached, CallFails
<1>2. /\ dpc = "done" /\ vpc # "waiting" /\ Knows(w) /\ EvmTypeOK
      /\ ContractOf(w) = Home(w) /\ Home(w) \in DOMAIN values
      /\ nonces[WorkerKey(w)] \in Nat /\ WorkerKey(w) \in Accounts
      /\ values[Home(w)] \in 0..MaxUpdates
      /\ wnonce[w] \in Nat /\ wvalue[w] \in 0..MaxUpdates
  BY <1>1, AtWork
<1>3. MaxUpdates \in Nat
  BY EvmConstants
<1>4. \A v \in Workers : ContractOf(v) \in DOMAIN values /\ values[ContractOf(v)] \in Nat
  BY <1>2, <1>3 DEF EvmInv, Knows, EvmTypeOK
<1>5. ASSUME UNCHANGED values PROVE Noticed
  BY <1>4, <1>5
<1>6. CASE ReadNonce(w)
  <2>1. EvmTypeOK'
    BY <1>2, <1>6 DEF ReadNonce, EvmTypeOK, deployVars
  <2>2. OnlyWorker(w)
    BY <1>2, <1>6 DEF ReadNonce, OnlyWorker, EvmTypeOK
  <2>3. /\ wpc'[w] = "reading_value" /\ wnonce'[w] = nonces[WorkerKey(w)]
        /\ wpc[w] = "reading_nonce"
    BY <1>2, <1>6 DEF ReadNonce, EvmTypeOK
  <2>4. Knows(w)'
    BY <1>2, <1>6, <2>3 DEF ReadNonce, Knows, ContractOf, deployVars, Home
  <2>5. QED
    BY <1>1, <1>2, <1>5, <1>6, <2>1, <2>2, <2>4, WorkerFrame DEF ReadNonce
<1>7. CASE ReadValue(w)
  <2>1. EvmTypeOK'
    BY <1>2, <1>7 DEF ReadValue, EvmTypeOK, deployVars
  <2>2. OnlyWorker(w)
    BY <1>2, <1>7 DEF ReadValue, OnlyWorker, EvmTypeOK
  <2>3. /\ wpc'[w] = "updating" /\ wvalue'[w] = values[Home(w)]
        /\ wpc[w] = "reading_value"
    BY <1>2, <1>7 DEF ReadValue, EvmTypeOK
  <2>4. Knows(w)'
    BY <1>2, <1>7, <2>3 DEF ReadValue, Knows, ContractOf, deployVars, Home
  <2>5. QED
    BY <1>1, <1>2, <1>5, <1>7, <2>1, <2>2, <2>4, WorkerFrame DEF ReadValue
<1>8. ASSUME UpdateConfirmed(w) \/ UpdateUnconfirmed(w)
      PROVE  EvmInv' /\ Noticed
  <2>1. /\ wpc[w] = "updating" /\ Valid(w) /\ Accepted(w) /\ wvalue[w] < MaxUpdates
        /\ UNCHANGED lost
    BY <1>8 DEF UpdateConfirmed, UpdateUnconfirmed
  <2>2. /\ Home(w) \notin lost
        /\ nonces' \in [Accounts -> Nat] /\ DOMAIN values' = DOMAIN values
        /\ \A a \in DOMAIN values' : values'[a] \in 0..MaxUpdates
        /\ nonces'[WorkerKey(w)] = wnonce[w] + 1 /\ values'[Home(w)] = wvalue[w] + 1
        /\ nonces'[WorkerKey(w)] >= values'[Home(w)]
        /\ \A v \in Workers \ {w} : /\ nonces'[WorkerKey(v)] = nonces[WorkerKey(v)]
                                    /\ values'[Home(v)] = values[Home(v)]
        /\ \A a \in DOMAIN values \ {Home(w)} : values'[a] = values[a]
    BY <2>1, AcceptedUpdate
  <2>3. Noticed
    BY <1>4, <2>2
  <2>4. EvmTypeOK'
    <3>1. /\ DOMAIN values' \subseteq Accounts \X Nat
          /\ lost' \subseteq DOMAIN values'
          /\ UNCHANGED deployVars
      BY <1>1, <1>2, <2>1, <2>2 DEF EvmTypeOK
    <3>2. /\ wpc' \in [Workers -> {"waiting", "reading_nonce", "reading_value", "updating", "done"}]
          /\ wnonce' \in [Workers -> Nat] /\ wvalue' \in [Workers -> 0..MaxUpdates]
          /\ wresult' \in [Workers -> {"running", "unreachable", "rejected", "stop_height"}]
      <4>1. 0 \in 0..MaxUpdates /\ wvalue[w] + 1 \in 0..MaxUpdates /\ wnonce[w] + 1 \in Nat
        BY <1>2, <1>3, <2>1
      <4>2. CASE UpdateConfirmed(w)
        BY <1>2, <4>1, <4>2 DEF EvmTypeOK, UpdateConfirmed
      <4>3. CASE UpdateUnconfirmed(w)
        BY <1>2, <4>1, <4>3 DEF EvmTypeOK, UpdateUnconfirmed, WFinish
      <4>4. QED
        BY <1>8, <4>2, <4>3
    <3>3. QED
      BY <1>2, <2>2, <3>1, <3>2 DEF EvmTypeOK, deployVars
  <2>5. \A v \in Workers \ {w} : /\ wpc'[v] = wpc[v] /\ wnonce'[v] = wnonce[v]
                                 /\ wvalue'[v] = wvalue[v] /\ wresult'[v] = wresult[v]
    BY <1>2, <1>8 DEF EvmTypeOK, UpdateConfirmed, UpdateUnconfirmed, WFinish
  <2>6. OnlyWorker(w)
    BY <2>1, <2>2, <2>5 DEF OnlyWorker
  <2>7. \/ wpc'[w] = "done" /\ wresult'[w] = "unreachable"
        \/ /\ wpc'[w] = "updating" /\ wresult'[w] = wresult[w]
           /\ wnonce'[w] = wnonce[w] + 1 /\ wvalue'[w] = wvalue[w] + 1
    BY <1>2, <1>8, <2>1 DEF EvmTypeOK, UpdateConfirmed, UpdateUnconfirmed, WFinish
  <2>8. Knows(w)'
    <3>1. wresult[w] = "running"
      BY <1>2, <2>1 DEF Knows
    <3>2. Home(w) \in DOMAIN values' /\ (ContractOf(w) = Home(w))' /\ Home(w) \notin lost'
      BY <1>1, <1>2, <2>1, <2>2 DEF ContractOf, Home, deployVars
    <3>3. QED
      BY <2>2, <2>7, <3>1, <3>2 DEF Knows
  <2>9. QED
    BY <1>1, <1>2, <2>3, <2>4, <2>6, <2>8, WorkerFrame
<1>9. CASE UpdateRejected(w)
  <2>1. Home(w) \in lost
    BY <1>2, <1>9 DEF UpdateRejected, Valid, Knows
  <2>2. QED
    BY <1>1, <1>5, <1>9, <2>1, WorkerReturns DEF UpdateRejected
<1>10. CASE StopHeightReached(w)
  BY <1>1, <1>5, <1>10, WorkerReturns DEF StopHeightReached
<1>11. CASE CallFails(w)
  BY <1>1, <1>5, <1>11, WorkerReturns DEF CallFails
<1>12. CASE LoseUpdate(w)
  <2>1. /\ wpc[w] = "updating" /\ Valid(w) /\ wvalue[w] > 0 /\ lost = {}
        /\ values' = [values EXCEPT ![Home(w)] = @ - 1]
        /\ \/ UNCHANGED nonces
           \/ nonces' = [nonces EXCEPT ![WorkerKey(w)] = @ - 1]
        /\ lost' = {Home(w)}
        /\ UNCHANGED <<wpc, wnonce, wvalue, wresult>>
    BY <1>2, <1>12 DEF LoseUpdate, workVars
  <2>2. /\ nonces[WorkerKey(w)] = wnonce[w] /\ values[Home(w)] = wvalue[w]
        /\ nonces[WorkerKey(w)] >= values[Home(w)] /\ wresult[w] = "running"
    BY <1>2, <2>1 DEF Valid, Knows
  <2>3. /\ DOMAIN values' = DOMAIN values /\ values'[Home(w)] = wvalue[w] - 1
        /\ values'[Home(w)] \in 0..MaxUpdates
        /\ \A a \in DOMAIN values \ {Home(w)} : values'[a] = values[a]
    BY <1>2, <1>3, <2>1, <2>2 DEF EvmTypeOK
  <2>4. /\ nonces' \in [Accounts -> Nat]
        /\ nonces'[WorkerKey(w)] \in {wnonce[w], wnonce[w] - 1}
    <3>1. nonces \in [Accounts -> Nat] /\ nonces[WorkerKey(w)] - 1 \in Nat
      BY <1>2, <1>3, <2>1, <2>2 DEF EvmTypeOK
    <3>2. QED
      BY <1>2, <2>1, <2>2, <3>1
  <2>5. EvmTypeOK'
    <3>1. /\ DOMAIN values' \subseteq Accounts \X Nat
          /\ \A a \in DOMAIN values' : values'[a] \in 0..MaxUpdates
          /\ lost' \subseteq DOMAIN values'
      BY <1>2, <2>1, <2>3 DEF EvmTypeOK
    <3>2. QED
      BY <1>1, <1>2, <2>1, <2>4, <3>1 DEF EvmTypeOK, deployVars
  <2>6. OnlyWorker(w)
    <3>1. ASSUME NEW v \in Workers, v # w
          PROVE  nonces'[WorkerKey(v)] = nonces[WorkerKey(v)] /\ values'[Home(v)] = values[Home(v)]
      <4>1. WorkerKey(v) # WorkerKey(w) /\ Home(v) # Home(w) /\ WorkerKey(v) \in Accounts
        BY <3>1, WorkersApart, AccountsOfWorkers
      <4>2. Home(v) \in DOMAIN values
        BY <1>2 DEF EvmInv, Knows
      <4>3. QED
        BY <1>2, <2>1, <2>3, <4>1, <4>2 DEF EvmTypeOK
    <3>2. QED
      BY <2>1, <2>3, <3>1 DEF OnlyWorker
  <2>7. Knows(w)'
    <3>1. Home(w) \in DOMAIN values' /\ (ContractOf(w) = Home(w))'
      BY <1>1, <1>2, <2>3 DEF ContractOf, Home, deployVars
    <3>2. nonces'[WorkerKey(w)] >= values'[Home(w)] /\ wvalue'[w] = values'[Home(w)] + 1
      BY <1>2, <1>3, <2>1, <2>2, <2>3, <2>4
    <3>3. QED
      BY <2>1, <2>2, <3>1, <3>2 DEF Knows
  <2>8. Noticed
    BY <2>1
  <2>9. QED
    BY <1>1, <1>2, <2>5, <2>6, <2>7, <2>8, WorkerFrame
<1>13. QED
  BY <1>1, <1>6, <1>7, <1>8, <1>9, <1>10, <1>11, <1>12 DEF Work
-----------------------------------------------------------------------------
(* The soak. *)

\* The background workers of a soak: what each may count on.
Inv == SeqInv /\ ValInv /\ EvmInv

LEMMA InitInv == Init => Inv
BY InitSeq, InitVal, InitEvm DEF Inv

\* A contract that has lost an update never moves again.
LostStay ==
    \A w \in Workers : wpc[w] # "waiting" /\ ContractOf(w) \in lost =>
        values'[ContractOf(w)] <= values[ContractOf(w)]

LEMMA EvmFrame ==
    ASSUME EvmInv, UNCHANGED evmVars, vpc' = "waiting" <=> vpc = "waiting"
    PROVE  EvmInv'
<1>1. UNCHANGED <<nonces, values, lost, dpc, deployed, metadata, wpc, wnonce, wvalue, wresult>>
  BY DEF evmVars, deployVars, workVars
<1>2. EvmTypeOK'
  BY <1>1 DEF EvmInv, EvmTypeOK
<1>3. Deploying' <=> Deploying
  BY <1>1 DEF Deploying
<1>4. \A w \in Workers : Knows(w)' <=> Knows(w)
  BY <1>1 DEF Knows, ContractOf, Home
<1>5. QED
  BY <1>1, <1>2, <1>3, <1>4 DEF EvmInv

LEMMA UnchangedKeepsLost ==
    ASSUME EvmInv, UNCHANGED <<nonces, values>>
    PROVE  LostStay
<1>1. \A a \in DOMAIN values : values[a] \in Nat
  BY EvmConstants DEF EvmInv, EvmTypeOK
<1>2. lost \subseteq DOMAIN values
  BY DEF EvmInv, EvmTypeOK
<1>3. QED
  BY <1>1, <1>2 DEF LostStay

LEMMA NextInv ==
    ASSUME Inv, [Next]_vars
    PROVE  Inv' /\ LostStay
<1>1. CASE Sequencing
  <2>1. SeqInv' /\ Ahead
    BY <1>1, SeqStep DEF Inv, Sequencing
  <2>2. ValInv'
    BY <1>1, <2>1, ValFrame DEF Inv, Sequencing
  <2>3. UNCHANGED vpc /\ UNCHANGED evmVars
    BY <1>1 DEF Sequencing, valVars
  <2>4. EvmInv'
    BY <2>3, EvmFrame DEF Inv
  <2>5. LostStay
    BY <2>3, UnchangedKeepsLost DEF Inv, evmVars
  <2>6. QED
    BY <2>1, <2>2, <2>4, <2>5 DEF Inv
<1>2. CASE Validating
  <2>1. SeqInv'
    BY <1>2 DEF Inv, Validating, SeqInv, SeqTypeOK, seqVars
  <2>2. ValInv'
    BY <1>2, ValStep DEF Inv, Validating
  <2>3. UNCHANGED evmVars /\ (vpc' = "waiting" <=> vpc = "waiting")
    BY <1>2 DEF Validating, ValNext, SubscribeSlots, DrainSlots, StreamError, StreamCloses,
         AskTrueSlot, AskHeights, SlotBegun, WatchHeights, ReadRoot, SendAssertion,
         RequestFails, VFinish
  <2>4. EvmInv'
    BY <2>3, EvmFrame DEF Inv
  <2>5. LostStay
    BY <2>3, UnchangedKeepsLost DEF Inv, evmVars
  <2>6. QED
    BY <2>1, <2>2, <2>4, <2>5 DEF Inv
<1>3. CASE Updating
  <2>1. UNCHANGED seqVars /\ UNCHANGED valVars /\ UNCHANGED vpc
    BY <1>3 DEF Updating, valVars
  <2>2. SeqInv'
    BY <2>1 DEF Inv, SeqInv, SeqTypeOK, seqVars
  <2>3. ValInv'
    <3>1. Ahead
      BY <2>1, SequencerConstants DEF Ahead, seqVars, Inv, SeqInv, SeqTypeOK
    <3>2. QED
      BY <2>1, <2>2, <3>1, ValFrame DEF Inv
  <2>4. CASE Deploy
    <3>1. EvmInv'
      BY <2>1, <2>4, DeployStep DEF Inv
    <3>2. \A w \in Workers : wpc[w] = "waiting"
      BY <2>4 DEF Inv, EvmInv, Deploy, DeployFails, SendDeployment, ReceiveReceipt,
           WriteMetadata
    <3>3. QED
      BY <2>2, <2>3, <3>1, <3>2 DEF Inv, LostStay
  <2>5. CASE \E w \in Workers : Work(w) \/ LoseUpdate(w)
    BY <2>1, <2>2, <2>3, <2>5, WorkStep DEF Inv, LostStay
  <2>6. QED
    BY <1>3, <2>4, <2>5 DEF Updating, EvmNext
<1>4. CASE SpawnWorkers
  <2>1. /\ UNCHANGED <<seqVars, vnext, errors, vslot, attempt, read, seen, vroot, vresult,
                       rejected, nonces, values, lost, deployVars, wnonce, wvalue, wresult>>
        /\ dpc = "done" /\ vpc = "waiting" /\ vpc' = "subscribing"
        /\ wpc' = [w \in Workers |-> "reading_nonce"]
    BY <1>4 DEF SpawnWorkers
  <2>2. SeqInv'
    BY <2>1 DEF Inv, SeqInv, SeqTypeOK, seqVars
  <2>3. ValInv'
    <3>1. UNCHANGED <<head, height, api, diverged>>
      BY <2>1 DEF seqVars
    <3>2. QED
      BY <2>1, <3>1 DEF Inv, ValInv, ValTypeOK, VLabels, NoFalseRejection,
           RejectionIsReported
  <2>4. EvmInv'
    <3>1. UNCHANGED <<dpc, deployed, metadata>>
      BY <2>1 DEF deployVars
    <3>2. EvmTypeOK'
      BY <2>1, <3>1 DEF Inv, EvmInv, EvmTypeOK
    <3>3. \A w \in Workers : Knows(w)'
      BY <2>1, <3>1 DEF Inv, EvmInv, Knows, ContractOf, Home
    <3>4. QED
      BY <2>1, <3>1, <3>2, <3>3 DEF EvmInv
  <2>5. LostStay
    BY <2>1, UnchangedKeepsLost DEF Inv
  <2>6. QED
    BY <2>2, <2>3, <2>4, <2>5 DEF Inv
<1>5. CASE UNCHANGED vars
  <2>1. UNCHANGED seqVars /\ UNCHANGED valVars /\ UNCHANGED evmVars /\ UNCHANGED vpc
    BY <1>5 DEF vars, valVars
  <2>2. SeqInv'
    BY <2>1 DEF Inv, SeqInv, SeqTypeOK, seqVars
  <2>3. ValInv'
    <3>1. Ahead
      BY <2>1, SequencerConstants DEF Ahead, seqVars, Inv, SeqInv, SeqTypeOK
    <3>2. QED
      BY <2>1, <2>2, <3>1, ValFrame DEF Inv
  <2>4. EvmInv'
    BY <2>1, EvmFrame DEF Inv
  <2>5. LostStay
    BY <2>1, UnchangedKeepsLost DEF Inv, evmVars
  <2>6. QED
    BY <2>2, <2>3, <2>4, <2>5 DEF Inv
<1>6. QED
  BY <1>1, <1>2, <1>3, <1>4, <1>5 DEF Next, Done
-----------------------------------------------------------------------------
\* The workers' invariant holds throughout a soak.
THEOREM WorkersInvariant == Spec => []Inv
<1>1. Inv /\ [Next]_vars => Inv'
  BY NextInv
<1>2. QED
  BY InitInv, <1>1, PTL DEF Spec

\* Every variable keeps to its type: heights and slots to what the sequencer has
\* reached, counters to the limits at which the worker gives up.
THEOREM WorkersTyped == Spec => []TypeOK
<1>1. Inv => TypeOK
  BY DEF Inv, SeqInv, ValInv, EvmInv, TypeOK
<1>2. QED
  BY <1>1, WorkersInvariant, PTL

\* state_validation_worker fails the run only on a rollup whose blocks are not
\* what its API shows, however its requests fall between the blocks.
THEOREM NoRejectionIsFalse == Spec => []NoFalseRejection
<1>1. Inv => NoFalseRejection
  BY DEF Inv, ValInv
<1>2. QED
  BY <1>1, WorkersInvariant, PTL

\* An assertion rejected in its own block is never taken for one that is too late.
THEOREM RejectionsAreReported == Spec => []RejectionIsReported
<1>1. Inv => RejectionIsReported
  BY DEF Inv, ValInv
<1>2. QED
  BY <1>1, WorkersInvariant, PTL

\* An EVM worker is rejected only for an update that the rollup lost, whatever
\* answers of its own were lost and however the workers take turns.
THEOREM UpdatesDoNotCollide == Spec => []UpdatesNeverCollide
<1>1. Inv => UpdatesNeverCollide
  <2>1. ASSUME Inv, NEW w \in Workers, wresult[w] = "rejected"
        PROVE  ContractOf(w) \in lost
    <3>1. dpc = "done"
      BY <2>1 DEF Inv, EvmInv
    <3>2. Knows(w)
      BY <2>1, <3>1 DEF Inv, EvmInv
    <3>3. QED
      BY <2>1, <3>2 DEF Knows
  <2>2. QED
    BY <2>1 DEF UpdatesNeverCollide
<1>2. QED
  BY <1>1, WorkersInvariant, PTL

\* A worker's count of its nonces and of its contract's value is the rollup's.
THEOREM ContractsAreKnown == Spec => []WorkersKnowTheirContracts
<1>1. Inv => WorkersKnowTheirContracts
  <2>1. ASSUME Inv, NEW w \in Workers, wpc[w] = "updating", ContractOf(w) \notin lost
        PROVE  wvalue[w] = values[ContractOf(w)] /\ wnonce[w] = nonces[WorkerKey(w)]
    <3>1. Knows(w) /\ ContractOf(w) = Home(w)
      BY <2>1, AtWork DEF Inv
    <3>2. QED
      BY <2>1, <3>1 DEF Knows
  <2>2. QED
    BY <2>1 DEF WorkersKnowTheirContracts
<1>2. QED
  BY <1>1, WorkersInvariant, PTL

\* A contract whose confirmed update was lost is never incremented again: its
\* worker names a value that the contract cannot regain.
THEOREM LossesAreNoticed == Spec => LossIsNoticed
<1>1. Inv /\ [Next]_vars => [LostStay]_vars
  BY NextInv
<1>2. Spec => [][LostStay]_vars
  BY <1>1, WorkersInvariant, PTL DEF Spec
<1>3. QED
  BY <1>2 DEF LossIsNoticed, LostStay
=============================================================================
