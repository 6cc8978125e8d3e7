------------------------------ MODULE Sequencer ------------------------------
(***************************************************************************)
(* The rollup's sequencer as the background workers of a soak run see it:  *)
(* the slots it announces, the block it has open, what its API shows of    *)
(* the chain state meanwhile, its stop height, and its faults.  All of it  *)
(* is outside the repository; the workers of state_consistency.rs and      *)
(* evm_soak.rs rely on it to behave like this.                             *)
(*                                                                         *)
(* A block's heights and state root are written h, the rollup height.      *)
(***************************************************************************)
EXTENDS Integers

CONSTANTS
    RollupStopHeight,
    MaxEmpty,     \* bound: slots without a block, or the sequencer's lag
    MayFail,      \* requests and streams fail of themselves, the node crashes
    MayDiverge    \* blocks and accounts diverge: what the workers look for

ASSUME SequencerConstants ==
    /\ RollupStopHeight \in Nat \ {0} /\ MaxEmpty \in Nat
    /\ MayFail \in BOOLEAN /\ MayDiverge \in BOOLEAN

VARIABLES
    up,         \* the node answers
    stopping,   \* transactions are refused: the stop height is reached
    head,       \* the last announced slot
    starting,   \* the slot after the head is begun, its block not yet open
    height,     \* the rollup height of the open block
    api,        \* what the API shows: true slot number, heights, state root
    diverged    \* blocks executed in another state than the API shows

seqVars == <<up, stopping, head, starting, height, api, diverged>>

\* The slot's notification precedes the start of the next block.
AnnounceSlot ==
    /\ up /\ height < RollupStopHeight
    /\ head - height <= MaxEmpty
    /\ head' = head + 1
    /\ UNCHANGED <<up, stopping, starting, height, api, diverged>>

StartSlot ==
    /\ up /\ ~starting /\ api.true < head /\ height < RollupStopHeight
    /\ api' = [api EXCEPT !.true = @ + 1]
    /\ starting' = TRUE
    /\ UNCHANGED <<up, stopping, head, height, diverged>>

OpenBlock ==
    /\ up /\ starting
    /\ starting' = FALSE
    /\ height' = height + 1
    /\ diverged' \in {diverged} \cup (IF MayDiverge THEN {diverged \cup {height + 1}} ELSE {})
    /\ UNCHANGED <<up, stopping, head, api>>

SkipBlock ==
    /\ up /\ starting /\ head - height <= MaxEmpty
    /\ starting' = FALSE
    /\ UNCHANGED <<up, stopping, head, height, api, diverged>>

\* The root is written by the hook that opens the block, the heights after it.
ShowRoot ==
    /\ up /\ api.root < height
    /\ api' = [api EXCEPT !.root = height]
    /\ UNCHANGED <<up, stopping, head, starting, height, diverged>>

ShowHeights ==
    /\ up /\ api.height < api.root
    /\ api' = [api EXCEPT !.height = api.root]
    /\ UNCHANGED <<up, stopping, head, starting, height, diverged>>

ReachStop ==
    /\ up /\ height = RollupStopHeight /\ ~stopping
    /\ stopping' = TRUE
    /\ UNCHANGED <<up, head, starting, height, api, diverged>>

NodeDown ==
    /\ up /\ (stopping \/ MayFail)
    /\ up' = FALSE
    /\ UNCHANGED <<stopping, head, starting, height, api, diverged>>

SeqInit ==
    /\ up = TRUE /\ stopping = FALSE /\ starting = FALSE
    /\ head = 1 /\ height = 1 /\ api = [true |-> 1, height |-> 1, root |-> 1]
    /\ diverged = {}

SeqNext ==
    \/ AnnounceSlot \/ StartSlot \/ OpenBlock \/ SkipBlock
    \/ ShowRoot \/ ShowHeights \/ ReachStop \/ NodeDown

SeqTypeOK ==
    /\ up \in BOOLEAN /\ stopping \in BOOLEAN /\ starting \in BOOLEAN
    /\ head \in Nat /\ height \in 1..RollupStopHeight
    /\ api \in [true : 1..head, height : 1..height, root : 1..height]
    /\ diverged \subseteq 1..height
=============================================================================
