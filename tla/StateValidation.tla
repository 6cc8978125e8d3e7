--------------------------- MODULE StateValidation ---------------------------
(***************************************************************************)
(* state_validation_worker (scripts/acceptance-test/src/                   *)
(* state_consistency.rs): after each slot it reads the heights and the     *)
(* state root that the sequencer's API shows, in several requests, and     *)
(* sends a transaction that asserts them.  The transaction is executed in  *)
(* whatever block is open when it arrives; one that comes too late for its *)
(* block is forgiven, any other rejection fails the worker.                *)
(***************************************************************************)
EXTENDS Sequencer

CONSTANTS
    MaxErrors,   \* MAX_CONSECUTIVE_ERRORS; 5
    MaxPolls,    \* max_phase1_attempts; 600
    MaxWaits     \* max_phase2_attempts; 20

ASSUME ValidationConstants ==
    MaxErrors \in Nat \ {0} /\ MaxPolls \in Nat \ {0} /\ MaxWaits \in Nat \ {0}

VARIABLES
    vpc,
    vnext,      \* the next slot of the subscription
    errors,     \* consecutive errors of the subscription
    vslot,      \* the slot being handled
    attempt,
    read,       \* answers to the two requests of the first phase, or Unread
    seen,       \* the heights when the slot began, then those to assert
    vroot,      \* the root to assert
    vresult,
    rejected    \* an assertion reached its block and was rejected (history)

valVars == <<vpc, vnext, errors, vslot, attempt, read, seen, vroot, vresult, rejected>>

Unread   == -1
Nothing  == [true |-> Unread, heights |-> Unread]
VLabels  == {"waiting", "subscribing", "listening", "polling", "watching", "reading",
             "sending", "done"}
VResults == {"running", "stop_height", "stream_closed", "stream_errors", "unreachable",
             "poll_timeout", "rejected"}

\* The variables of an iteration go out of scope.
Forget == vslot' = 0 /\ attempt' = 0 /\ read' = Nothing /\ seen' = 1 /\ vroot' = 1

\* The worker returns, and its subscription ends.
VFinish(why) ==
    vpc' = "done" /\ vresult' = why /\ Forget /\ vnext' = 1 /\ errors' = 0

Unreachable == ~up \/ MayFail

\* Any request fails the worker when it is not answered.
RequestFails ==
    /\ vpc \in {"subscribing", "polling", "watching", "reading", "sending"}
    /\ Unreachable
    /\ VFinish("unreachable")
    /\ UNCHANGED rejected

SubscribeSlots ==
    /\ vpc = "subscribing" /\ up
    /\ vnext' = head + 1
    /\ vpc' = "listening"
    /\ UNCHANGED <<errors, vslot, attempt, read, seen, vroot, vresult, rejected>>
-----------------------------------------------------------------------------
(* drain_slot_stream. *)

\* The newest queued slot is taken and the others are dropped.  A slot number
\* past the stop height ends the worker.
DrainSlots ==
    /\ vpc = "listening"
    /\ \E newest \in vnext..head :
          IF newest >= RollupStopHeight
          THEN VFinish("stop_height")
          ELSE /\ vpc' = "polling" /\ vslot' = newest
               /\ vnext' = newest + 1 /\ errors' = 0
               /\ UNCHANGED <<attempt, read, seen, vroot, vresult>>
    /\ UNCHANGED rejected

\* Mutant: one error too many is put up with.
StreamErrorOffByOne ==
    /\ vpc = "listening" /\ MayFail
    /\ IF errors >= MaxErrors
       THEN VFinish("stream_errors")
       ELSE /\ errors' = errors + 1
            /\ UNCHANGED <<vpc, vnext, vslot, attempt, read, seen, vroot, vresult>>
    /\ UNCHANGED rejected

\* An error of the subscription is put up with; too many in a row are not.
StreamError ==
    /\ vpc = "listening" /\ MayFail
    /\ IF errors + 1 >= MaxErrors
       THEN VFinish("stream_errors")
       ELSE /\ errors' = errors + 1
            /\ UNCHANGED <<vpc, vnext, vslot, attempt, read, seen, vroot, vresult>>
    /\ UNCHANGED rejected

StreamCloses ==
    /\ vpc = "listening" /\ vnext > head /\ Unreachable
    /\ VFinish("stream_closed")
    /\ UNCHANGED rejected
-----------------------------------------------------------------------------
(* poll_for_api_state_update. *)

\* The two requests of the first phase are answered in either order.
AskTrueSlot ==
    /\ vpc = "polling" /\ up /\ read.true = Unread
    /\ read' = [read EXCEPT !.true = api.true]
    /\ UNCHANGED <<vpc, vnext, errors, vslot, attempt, seen, vroot, vresult, rejected>>

AskHeights ==
    /\ vpc = "polling" /\ up /\ read.heights = Unread
    /\ read' = [read EXCEPT !.heights = api.height]
    /\ UNCHANGED <<vpc, vnext, errors, vslot, attempt, seen, vroot, vresult, rejected>>

\* Phase one: the sequencer has begun the slot's block.
SlotBegun ==
    /\ vpc = "polling" /\ read.true # Unread /\ read.heights # Unread
    /\ IF read.true >= vslot
       THEN /\ vpc' = "watching" /\ seen' = read.heights
            /\ attempt' = 0 /\ read' = Nothing
            /\ UNCHANGED <<vnext, errors, vslot, vroot, vresult>>
       ELSE IF attempt + 1 >= MaxPolls
       THEN VFinish("poll_timeout")
       ELSE /\ attempt' = attempt + 1 /\ read' = Nothing
            /\ UNCHANGED <<vpc, vnext, errors, vslot, seen, vroot, vresult>>
    /\ UNCHANGED rejected

\* Mutant: when the time is up, the next height is taken to be open.
WatchHeightsGuessing ==
    /\ vpc = "watching" /\ up
    /\ IF api.height > seen
       THEN vpc' = "reading" /\ seen' = api.height /\ UNCHANGED attempt
       ELSE IF attempt + 1 >= MaxWaits
       THEN vpc' = "reading" /\ seen' = seen + 1 /\ UNCHANGED attempt
       ELSE attempt' = attempt + 1 /\ UNCHANGED <<vpc, seen>>
    /\ UNCHANGED <<vnext, errors, vslot, read, vroot, vresult, rejected>>

\* Phase two: the heights have moved on, or have had their time to.
WatchHeights ==
    /\ vpc = "watching" /\ up
    /\ IF api.height > seen \/ attempt + 1 >= MaxWaits
       THEN vpc' = "reading" /\ seen' = api.height /\ UNCHANGED attempt
       ELSE attempt' = attempt + 1 /\ UNCHANGED <<vpc, seen>>
    /\ UNCHANGED <<vnext, errors, vslot, read, vroot, vresult, rejected>>
-----------------------------------------------------------------------------
ReadRoot ==
    /\ vpc = "reading" /\ up
    /\ vroot' = api.root
    /\ vpc' = "sending"
    /\ UNCHANGED <<vnext, errors, vslot, attempt, read, seen, vresult, rejected>>

\* Mutant: a rejection in the asserted block itself is too late as well.
TooLateOrInTime(actual, expected) == actual >= expected

\* is_too_late_error.
TooLate(actual, expected) == actual > expected

\* The assertion module's verdict in the open block.
Holds == seen = height /\ vroot = height /\ height \notin diverged

\* send_assert_block_tx.  A refusal at the stop height is taken for an answer.
SendAssertion ==
    /\ vpc = "sending" /\ up /\ ~starting
    /\ IF stopping \/ Holds \/ TooLate(height, seen)
       THEN vpc' = "listening" /\ Forget /\ UNCHANGED <<vnext, errors, vresult>>
       ELSE VFinish("rejected")
    /\ rejected' = (rejected \/ (~stopping /\ ~Holds /\ height = seen))
-----------------------------------------------------------------------------
ValInit ==
    /\ vpc = "waiting" /\ vnext = 1 /\ errors = 0 /\ vslot = 0 /\ attempt = 0
    /\ read = Nothing /\ seen = 1 /\ vroot = 1
    /\ vresult = "running" /\ rejected = FALSE

ValNext ==
    \/ SubscribeSlots \/ DrainSlots \/ StreamError \/ StreamCloses
    \/ AskTrueSlot \/ AskHeights \/ SlotBegun \/ WatchHeights
    \/ ReadRoot \/ SendAssertion \/ RequestFails

ValTypeOK ==
    /\ vpc \in VLabels /\ vresult \in VResults /\ rejected \in BOOLEAN
    /\ vnext \in 1..(head + 1) /\ vslot \in 0..head
    /\ errors \in 0..(MaxErrors - 1)
    /\ attempt \in 0..(MaxPolls - 1) \cup 0..(MaxWaits - 1)
    /\ read \in [true : {Unread} \cup 1..head, heights : {Unread} \cup 1..height]
    /\ seen \in 1..height /\ vroot \in 1..height
=============================================================================
