---------------------------- MODULE ManualSetup ----------------------------
(***************************************************************************)
(* do_manual_setup (bin/setup.rs): three transactions, sent so that the    *)
(* first lands in one batch and the other two in a later one, the waits    *)
(* for these batches with the slot monitor, and the checks of every slot   *)
(* against the ledger and of the token's supply in every past state.       *)
(***************************************************************************)
EXTENDS SlotMonitor

VARIABLES
    pc,             \* where do_manual_setup is
    accepted,       \* transactions the sequencer has confirmed: 0 .. accepted - 1
    waited,         \* slots the current wait has looked at, or subscriptions made
    first_subscribed, first_non_empty, second_non_empty,    \* ..._slot_number
    slotnum,        \* the index of the two final loops
    result          \* "running", "ok", "unreachable" or "rejected": an assertion or bail!

ownVars == <<pc, accepted, waited, first_subscribed, first_non_empty, second_non_empty,
             slotnum, result>>
vars == <<monVars, ownVars>>

Create == 0    \* transaction numbers
Mint == 1
Transfer == 2

PostedBy(n) == {tx \in 0..2 : \E m \in 0..n : \E i \in DOMAIN ledger[m] :
                                  \E j \in DOMAIN ledger[m][i] : ledger[m][i][j] = tx}
Posted == Cardinality(PostedBy(head))
SlotsWith(tx) == {n \in 0..head : tx \in PostedBy(n) /\ (n = 0 \/ tx \notin PostedBy(n - 1))}

\* set_txs: the token is created with 1000, and 800 are minted.
SupplyAfter(txs) == (IF Create \in txs THEN 1000 ELSE 0) + (IF Mint \in txs THEN 800 ELSE 0)

\* get_supply_archival; an unknown token has no supply.
ArchivalSupply(n) ==
    LET supply == SupplyAfter(PostedBy(n))
    IN  IF ~Faulty("archive", n) THEN supply
        ELSE IF supply = 1000 THEN 0 ELSE 1000

\* The sequencer posts confirmed transactions in order, sooner or later, in at most two
\* batches a slot, and may post an empty batch (bound: one).
Run(a, b) == [i \in 1..b - a |-> a + i - 1]
SlotContents ==
    {<<>>} \cup ({<<<<>>>>} \ {ledger[n] : n \in 0..head})
    \cup {<<Run(Posted, b)>> : b \in Posted + 1..accepted}
    \cup UNION {{<<Run(Posted, b), Run(b, c)>> : c \in b + 1..accepted} : b \in Posted + 1..accepted}

\* What it announces after the waits is not looked at.
NodeNext ==
    /\ result = "running" /\ pc \notin {"fetching", "archive", "done"}
    /\ \/ \E slot \in SlotContents : Announce(slot)
       \/ Finalize
    /\ UNCHANGED ownVars
NodeFault ==
    /\ result = "running"
    /\ \/ pc \in {"create", "mint", "transfer"} /\ GoWrong("answer", accepted)
       \/ pc = "fetching" /\ GoWrong("by_hash", slotnum)
       \/ pc = "archive" /\ GoWrong("archive", slotnum)
    /\ UNCHANGED ownVars
-----------------------------------------------------------------------------
Goto(label) == pc' = label /\ UNCHANGED result
Reject == result' = "rejected" /\ UNCHANGED pc
Assert(condition, label) == IF condition THEN Goto(label) ELSE Reject

SequencerReady ==
    /\ pc = "waiting_ready"
    /\ Goto("subscribing")
    /\ UNCHANGED <<monVars, accepted, waited, first_subscribed, first_non_empty,
                   second_non_empty, slotnum>>

\* SlotMonitor::new, one request per stream.
SubscribeNext ==
    /\ pc = "subscribing"
    /\ Subscribe(StreamOrder[waited + 1])
    /\ IF waited = 3 THEN Goto("create") /\ waited' = 0
                     ELSE UNCHANGED <<pc, result>> /\ waited' = waited + 1
    /\ UNCHANGED <<ledger, fin, prev, snaps, fault, accepted, first_subscribed,
                   first_non_empty, second_non_empty, slotnum>>

\* sign_and_send_tx, the answer against the sequencer's streams (its event and
\* compare_tx_info_and_accepted_tx), and the supply after it.
Send(tx, from, label) ==
    /\ pc = from
    /\ accepted' = accepted + 1
    /\ Assert(~Faulty("answer", tx)
                /\ SupplyAfter(0..tx) = (IF tx = Create THEN 1000 ELSE 1800), label)
    /\ UNCHANGED <<monVars, waited, first_subscribed, first_non_empty,
                   second_non_empty, slotnum>>

\* Mutant: the monitor waits for the streams to come back in step.
MonitorWaits ==
    /\ pc \in {"first_wait", "second_wait"} /\ SlotsReady /\ ~SlotsConsistent
    /\ UNCHANGED vars

\* A check of get_next_slot fails.
MonitorRejects ==
    /\ pc \in {"first_wait", "second_wait"} /\ SlotsReady /\ ~SlotsConsistent
    /\ Reject
    /\ UNCHANGED <<monVars, accepted, waited, first_subscribed, first_non_empty,
                   second_non_empty, slotnum>>

\* Mutant: the second wait goes on with the count of the first.
CountOn(found) == waited + 1

\* The loop of a wait: its count, and whether it is over.
Last(found) == found \/ waited + 1 = WaitSlots
Count(found) == IF Last(found) THEN 0 ELSE waited + 1

\* The first wait ends at the first batch with a transaction, or after WaitSlots slots.
FirstWait ==
    /\ pc = "first_wait" /\ SlotsReady /\ SlotsConsistent
    /\ TakeSlots
    /\ LET slot  == Notified(Item("head_children"))
           found == slot # <<>> /\ slot[1] # <<>>
       IN  /\ first_subscribed' = IF waited = 0 THEN Item("head") ELSE first_subscribed
           /\ first_non_empty' = IF found THEN Item("head") ELSE first_non_empty
           /\ waited' = Count(found)
           /\ \/ found /\ Assert(slot[1][1] = Create, "mint")
              \/ ~found /\ Goto(IF Last(found) THEN "mint" ELSE pc)
    /\ UNCHANGED <<accepted, second_non_empty, slotnum>>

\* The second wait looks for the transfer in the first batch of a finalized slot.
SecondWait ==
    /\ pc = "second_wait" /\ SlotsReady /\ SlotsConsistent
    /\ TakeSlots
    /\ LET slot  == ledger[Item("fin_children")]
           found == slot # <<>> /\ \E j \in DOMAIN slot[1] : slot[1][j] = Transfer
       IN  /\ second_non_empty' = IF found THEN Item("fin_children") ELSE second_non_empty
           /\ waited' = Count(found)
           /\ Goto(IF Last(found) THEN "fetching" ELSE pc)
    /\ UNCHANGED <<accepted, first_subscribed, first_non_empty, slotnum>>

\* Mutant: every slot is fetched and saved, none is compared.
FetchAndSave ==
    /\ pc = "fetching"
    /\ snaps' = Save(slotnum, ledger[slotnum])
    /\ slotnum' = IF slotnum = prev THEN 0 ELSE slotnum + 1
    /\ Assert(TRUE, IF slotnum = prev THEN "archive" ELSE pc)
    /\ UNCHANGED <<ledger, fin, next, prev, fault, accepted, waited, first_subscribed,
                   first_non_empty, second_non_empty>>

\* fetch_and_compare_slot: the slots before the subscription are saved, the others are
\* compared with what the monitor has saved.
FetchSlot ==
    /\ pc = "fetching"
    /\ LET before == slotnum < first_subscribed
           last   == slotnum = prev
       IN  /\ snaps' = IF before /\ ViewsAgree(slotnum) THEN Save(slotnum, ledger[slotnum])
                                                        ELSE snaps
           /\ slotnum' = IF last THEN 0 ELSE slotnum + 1
           /\ Assert(/\ ViewsAgree(slotnum)
                     /\ before \/ (slotnum \in DOMAIN snaps /\ snaps[slotnum] = ledger[slotnum]),
                     IF last THEN "archive" ELSE pc)
    /\ UNCHANGED <<ledger, fin, next, prev, fault, accepted, waited, first_subscribed,
                   first_non_empty, second_non_empty>>

\* Mutants: the supply is read and not compared; the first state with the token is taken
\* for one without.
SupplyAsRead(n) == ArchivalSupply(n)
SupplyLate(n) ==
    IF n <= first_non_empty THEN 0 ELSE IF n < second_non_empty THEN 1000 ELSE 1800

ExpectedSupply(n) ==
    IF n < first_non_empty THEN 0 ELSE IF n < second_non_empty THEN 1000 ELSE 1800

CheckSupply ==
    /\ pc = "archive"
    /\ slotnum' = slotnum + 1
    /\ \/ ArchivalSupply(slotnum) # ExpectedSupply(slotnum) /\ Reject
       \/ /\ ArchivalSupply(slotnum) = ExpectedSupply(slotnum)
          /\ pc' = IF slotnum = prev THEN "done" ELSE pc
          /\ result' = IF slotnum = prev THEN "ok" ELSE result
    /\ UNCHANGED <<monVars, accepted, waited, first_subscribed, first_non_empty,
                   second_non_empty>>

\* A request fails, a stream ends, or the sequencer is not ready in time.
Unreachable ==
    /\ pc = "waiting_ready" \/ fault.kind = "down"
    /\ result' = "unreachable"
    /\ UNCHANGED <<monVars, pc, accepted, waited, first_subscribed, first_non_empty,
                   second_non_empty, slotnum>>

SetupNext ==
    /\ result = "running"
    /\ \/ SequencerReady \/ SubscribeNext
       \/ Send(Create, "create", "first_wait")
       \/ Send(Mint, "mint", "transfer") \/ Send(Transfer, "transfer", "second_wait")
       \/ MonitorRejects \/ FirstWait \/ SecondWait \/ FetchSlot \/ CheckSupply
       \/ Unreachable

Done == result # "running" /\ UNCHANGED vars

Init ==
    /\ MonInit
    /\ pc = "waiting_ready" /\ accepted = 0 /\ waited = 0
    /\ first_subscribed = 0 /\ first_non_empty = 0 /\ second_non_empty = 0
    /\ slotnum = 0 /\ result = "running"

Next == NodeNext \/ NodeFault \/ SetupNext \/ Done

Spec == Init /\ [][Next]_vars

\* The node goes on producing slots, and the setup goes on when it can.
FairSpec == Spec /\ WF_vars(NodeNext) /\ WF_vars(SetupNext)
-----------------------------------------------------------------------------
\* The variables have their types.
TypeOK ==
    /\ MonTypeOK
    /\ pc \in {"waiting_ready", "subscribing", "create", "first_wait", "mint", "transfer",
               "second_wait", "fetching", "archive", "done"}
    /\ accepted \in 0..3 /\ waited \in 0..Max({3, WaitSlots - 1})
    /\ {first_subscribed, first_non_empty, second_non_empty} \subseteq 0..MaxHead
    /\ slotnum \in 0..MaxHead + 1
    /\ result \in {"running", "ok", "unreachable", "rejected"}

\* The streams agree by position: the finalized ones are one slot behind the head.
Aligned ==
    /\ next["head"] = next["head_children"] /\ next["fin"] = next["fin_children"]
    /\ next["head"] = next["fin"] + 1

\* The mint and the transfer are in one slot, as do_manual_setup takes for granted.
PostedTogether == SlotsWith(Mint) = SlotsWith(Transfer)

\* A setup that succeeds leaves a snapshot of every slot up to the last one it saw, each
\* what the ledger has by number and by hash, and no state of these slots answers for
\* another one.
SuccessIsSound ==
    result = "ok" =>
        \A n \in 0..prev :
            /\ n \in DOMAIN snaps /\ snaps[n] = ledger[n] /\ ViewsAgree(n)
            /\ PostedTogether => ArchivalSupply(n) = SupplyAfter(PostedBy(n))

\* A wait that runs out is not an error where it happens, and still no setup succeeds
\* that has not seen both batches, in the slots they are in.  (The mint may be in a slot of
\* its own only if the state there answers wrongly.)
BatchesWereSeen ==
    result = "ok" =>
        /\ SlotsWith(Create) = {first_non_empty} /\ SlotsWith(Transfer) = {second_non_empty}
        /\ PostedTogether \/ fault.kind = "archive"
        /\ first_non_empty < second_non_empty /\ second_non_empty < prev

\* A slot that passes between two subscriptions, or that one stream skips, does not go
\* unnoticed: the streams of a setup that succeeds are in step.
SkewIsNoticed == result = "ok" => Aligned

\* A setup is rejected only for a cause: a fault of the node, streams out of step, a
\* batch that did not come in time, or a mint and transfer that were not posted together.
RejectedForCause ==
    result = "rejected" =>
        \/ fault # NoFault \/ ~Aligned
        \/ pc \in {"fetching", "archive"} /\ 0 \in {first_non_empty, second_non_empty}
        \/ ~PostedTogether

\* The setup ends: with a node that goes on, no wait is for ever.
Terminates == <>(result # "running")
=============================================================================
