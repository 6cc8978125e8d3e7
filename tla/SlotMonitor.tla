----------------------------- MODULE SlotMonitor -----------------------------
(***************************************************************************)
(* The slot monitor of the manual setup (fetch_and_compare.rs): it reads   *)
(* the head and the finalized slots, each with and without its batches,    *)
(* from four subscriptions, pairs them by position, and saves each head    *)
(* slot as a snapshot.  The ledger and the subscriptions are the node's    *)
(* and outside the repository.                                             *)
(*                                                                         *)
(* A slot is the sequence of its batches, a batch the sequence of its      *)
(* transactions' numbers.  A stream is the number of the slot it delivers  *)
(* next.                                                                   *)
(***************************************************************************)
EXTENDS Integers, Sequences, FiniteSetsExt

CONSTANTS
    MaxAhead,     \* bound: slots the node is ahead of the monitor
    WaitSlots     \* slots a wait for a batch looks at

ASSUME SlotMonitorConstants == MaxAhead \in Nat \ {0} /\ WaitSlots \in Nat \ {0}

NoSlot == -1

\* In the order SlotMonitor::new subscribes.
StreamOrder == <<"fin", "fin_children", "head", "head_children">>
Streams == {StreamOrder[i] : i \in 1..4}

VARIABLES
    ledger,     \* the slots announced so far: ledger[n]
    fin,        \* the last slot announced as finalized
    next,       \* per stream, the slot it delivers next
    prev,       \* prev_slot_with_children
    snaps,      \* the snapshots written
    fault       \* what this node does wrong: one fault (bound), at one slot

monVars == <<ledger, fin, next, prev, snaps, fault>>

head == Cardinality(DOMAIN ledger) - 1

\* A stream that skips a slot, a notification whose batches are not the ledger's, a node that
\* goes down; a slot that reads differently by its hash, a state that answers for another
\* slot, a transaction whose answer is not the one on the sequencer's streams.
SlotFaults == Streams \cup {"batches", "down"}
AnswerFaults == {"by_hash", "archive", "answer"}
MaxHead == 2 * (MaxAhead + WaitSlots)    \* what the two bounds leave: two waits, ahead twice
NoFault == [kind |-> "none", slot |-> NoSlot]
Faults == {NoFault} \cup [kind : SlotFaults \cup AnswerFaults, slot : 0..MaxHead]
Faulty(kind, n) == fault = [kind |-> kind, slot |-> n]

OtherBatches(slot) == IF slot = <<>> THEN <<<<9>>>> ELSE <<>>
Notified(n) == IF Faulty("batches", n) THEN OtherBatches(ledger[n]) ELSE ledger[n]

\* What a stream delivers now, and whether the node has announced it.
Item(s) == IF Faulty(s, next[s]) THEN next[s] + 1 ELSE next[s]
Available(s) == Item(s) <= (IF s \in {"fin", "fin_children"} THEN fin ELSE head)
-----------------------------------------------------------------------------
\* The last slot the monitor has had, and 0 while it subscribes (bound).
Followed ==
    IF prev # NoSlot THEN prev
    ELSE IF next["head_children"] # NoSlot THEN next["head_children"] - 1 ELSE 0

\* The head of slot n is announced before slot n - 1 as finalized.
Announce(slot) ==
    /\ fin = head - 1 /\ fault.kind # "down"
    /\ head - Followed < MaxAhead
    /\ ledger' = [n \in 0..head + 1 |-> IF n <= head THEN ledger[n] ELSE slot]
    /\ fault' \in {fault} \cup
          (IF fault = NoFault THEN [kind : SlotFaults, slot : {head + 1}] ELSE {})
    /\ UNCHANGED <<fin, next, prev, snaps>>

Finalize ==
    /\ fin < head - 1
    /\ fin' = fin + 1
    /\ UNCHANGED <<ledger, next, prev, snaps, fault>>

\* An answer about slot or transaction n is going to be wrong.
GoWrong(kind, n) ==
    /\ fault = NoFault
    /\ fault' = [kind |-> kind, slot |-> n]
    /\ UNCHANGED <<ledger, fin, next, prev, snaps>>

\* A subscription delivers what is announced after it.
Subscribe(s) ==
    next' = [next EXCEPT ![s] = (IF s \in {"fin", "fin_children"} THEN fin ELSE head) + 1]
-----------------------------------------------------------------------------
InSequence == prev # NoSlot => Item("head_children") = prev + 1

PairsMatch ==
    /\ Item("head") = Item("head_children")
    /\ Item("fin") = Item("fin_children")

\* Mutant: the finalized slot is compared with nothing.
FinalizedUnchecked == TRUE

\* Slots match by number, and a slot's batches by what was announced of them.
FinalizedMatchesPrev ==
    ledger[Item("fin")] # <<>> /\ prev # NoSlot =>
        Item("fin") = prev /\ ledger[Item("fin")] = Notified(prev)

SlotsReady == \A s \in Streams : Available(s)
SlotsConsistent == InSequence /\ PairsMatch /\ FinalizedMatchesPrev

\* save_slot_snapshot.
Save(n, slot) == [m \in DOMAIN snaps \cup {n} |-> IF m = n THEN slot ELSE snaps[m]]

\* get_next_slot(SaveSnapshot), when its checks pass.
TakeSlots ==
    /\ next' = [s \in Streams |-> Item(s) + 1]
    /\ prev' = Item("head_children")
    /\ snaps' = Save(Item("head_children"), Notified(Item("head_children")))
    /\ UNCHANGED <<ledger, fin, fault>>
-----------------------------------------------------------------------------
\* fetch_and_compare_slot: the slot and its batches, by number and by hash.
ViewsAgree(n) == ~Faulty("by_hash", n)

MonInit ==
    /\ ledger = [n \in 0..1 |-> <<>>] /\ fin = 0
    /\ next = [s \in Streams |-> NoSlot]
    /\ prev = NoSlot /\ snaps = <<>>
    /\ fault = NoFault

MonTypeOK ==
    /\ DOMAIN ledger = 0..head /\ head <= MaxHead
    /\ \A n \in 0..head : Len(ledger[n]) <= 2
    /\ fin \in 0..head
    /\ next \in [Streams -> NoSlot..MaxHead + 1]
    /\ prev \in NoSlot..MaxHead
    /\ DOMAIN snaps \subseteq 0..MaxHead
    /\ fault \in Faults
=============================================================================
