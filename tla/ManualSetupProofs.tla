------------------------- MODULE ManualSetupProofs -------------------------
(***************************************************************************)
(* Proofs about ManualSetup and SlotMonitor, for any number of slots a     *)
(* wait looks at: what a setup that succeeds has saved and seen, and what  *)
(* one that is rejected was rejected for.                                  *)
(***************************************************************************)
EXTENDS ManualSetup, FiniteSetTheorems, SequenceTheorems, TLAPS

Labels  == {"waiting_ready", "subscribing", "create", "first_wait", "mint", "transfer",
            "second_wait", "fetching", "archive", "done"}
Results == {"running", "ok", "unreachable", "rejected"}

Unsubscribed == {"waiting_ready", "subscribing"}
Waits    == {"first_wait", "second_wait"}
AfterOne == {"mint", "transfer", "second_wait", "fetching", "archive", "done"}
AfterTwo == {"fetching", "archive", "done"}

\* A slot of at most two batches, and the transactions it carries.
IsSlot(slot) == slot \in Seq(Seq(0..2)) /\ Len(slot) <= 2
Carries(slot, tx) == \E i \in DOMAIN slot : \E j \in DOMAIN slot[i] : slot[i][j] = tx

\* The ledger is a chain of slots, finalized up to one or two before its head; the two
\* slots before the setup are empty.
LedgerInv ==
    /\ head \in Nat \ {0} /\ DOMAIN ledger = 0..head /\ fin \in 0..head - 1
    /\ ledger[0] = <<>> /\ ledger[1] = <<>>
    /\ \A n \in 0..head : IsSlot(ledger[n])

\* The transactions are posted in order, each once.
PostedInv ==
    /\ accepted \in 0..3
    /\ \E k \in 0..accepted : PostedBy(head) = 0..k - 1
    /\ \A m, n \in 0..head : \A a, b \in 0..2 :
          m < n /\ Carries(ledger[m], a) /\ Carries(ledger[n], b) => a < b

\* Where the setup is tells what it has sent, and bounds the count of its loops.
PlaceInv ==
    /\ pc \in Labels /\ result \in Results
    /\ result = "running" =>
        /\ pc \in Unsubscribed \cup {"create"} => accepted = 0
        /\ pc \in {"first_wait", "mint"} => accepted = 1
        /\ pc = "transfer" => accepted = 2
        /\ pc \in AfterTwo \cup {"second_wait"} => accepted = 3
    /\ waited \in Nat
    /\ pc = "subscribing" => waited <= 3
    /\ pc \in Waits => waited <= WaitSlots - 1
    /\ pc \notin Waits \cup {"subscribing"} => waited = 0
    /\ result = "ok" <=> pc = "done"

\* The subscriptions deliver what is announced after them; once the monitor has taken a
\* slot, the two head streams go on with the one after it, and the other two in step.
StreamInv ==
    /\ next \in [Streams -> Int] /\ \A s \in Streams : NoSlot <= next[s] /\ next[s] <= head + 1
    /\ pc \in Unsubscribed => next["head_children"] = NoSlot
    /\ pc \notin Unsubscribed => next["head_children"] >= 2
    /\ pc \notin Unsubscribed /\ prev = NoSlot => next["head"] <= next["head_children"]
    /\ prev \in Int
    /\ prev # NoSlot =>
        /\ 1 <= prev /\ prev <= head
        /\ next["head"] = prev + 1 /\ next["head_children"] = prev + 1
        /\ next["fin"] = next["fin_children"]
    /\ prev = NoSlot => pc \notin AfterOne
    /\ pc = "first_wait" /\ result = "running" => (prev = NoSlot <=> waited = 0)
    /\ pc \in Unsubscribed \cup {"create"} => prev = NoSlot

\* How far the node can be.
BoundInv ==
    /\ pc \in Unsubscribed => head <= MaxAhead
    /\ pc \notin Unsubscribed /\ prev = NoSlot =>
        /\ next["head_children"] <= MaxAhead + 1
        /\ head <= next["head_children"] - 1 + MaxAhead
    /\ prev # NoSlot =>
        /\ head <= prev + MaxAhead
        /\ pc = "first_wait" => prev <= MaxAhead + WaitSlots
        /\ pc = "first_wait" /\ result = "running" => prev <= MaxAhead + waited
        /\ pc \in {"mint", "transfer", "second_wait"} => prev <= MaxAhead + WaitSlots + waited
        /\ prev <= MaxAhead + 2 * WaitSlots

FaultInv == fault \in Faults

\* What the waits have found: the batch with the creation, alone, and a later one with
\* the transfer, found in a step in which the streams were aligned.
FirstInv ==
    /\ pc \notin AfterOne /\ result = "running" => first_non_empty = 0
    /\ first_non_empty \in 0..head
    /\ pc \in AfterOne => first_non_empty <= prev
    /\ pc \in AfterOne /\ first_non_empty # 0 =>
        /\ Carries(ledger[first_non_empty], Create)
        /\ ~Carries(ledger[first_non_empty], Mint) /\ ~Carries(ledger[first_non_empty], Transfer)

SecondInv ==
    /\ second_non_empty \in 0..head
    /\ pc \notin AfterTwo => second_non_empty = 0
    /\ second_non_empty # 0 =>
        second_non_empty < prev /\ Carries(ledger[second_non_empty], Transfer) /\ Aligned

\* The monitor has saved each slot it has had, as it was announced.
SavedInv ==
    /\ DOMAIN snaps \subseteq 0..head /\ first_subscribed \in 0..head
    /\ prev # NoSlot =>
        \A n \in first_subscribed..prev : n \in DOMAIN snaps /\ snaps[n] = Notified(n)

\* The two final loops: the slots fetched and the states checked so far.
Fetched(k) == \A n \in 0..k - 1 : n \in DOMAIN snaps /\ snaps[n] = ledger[n] /\ ViewsAgree(n)
Checked(k) == \A n \in 0..k - 1 : ArchivalSupply(n) = ExpectedSupply(n)

LoopInv ==
    /\ slotnum \in Nat
    /\ pc \notin AfterTwo => slotnum = 0
    /\ pc \in {"fetching", "archive"} => slotnum <= prev + 1
    /\ pc = "done" => slotnum = prev + 1 /\ Checked(slotnum)
    /\ pc \in {"fetching", "archive"} /\ result = "running" => slotnum <= prev
    /\ pc = "fetching" /\ result = "running" => Fetched(slotnum)
    /\ pc = "archive" /\ result = "running" => Checked(slotnum)
    /\ pc \in {"archive", "done"} => Fetched(prev + 1)

\* The inductive invariant.
Inv ==
    /\ LedgerInv /\ PostedInv /\ PlaceInv /\ StreamInv /\ BoundInv /\ FaultInv
    /\ FirstInv /\ SecondInv /\ SavedInv /\ LoopInv /\ RejectedForCause
-----------------------------------------------------------------------------
\* The four streams.
LEMMA StreamsAre ==
    /\ Streams = {"fin", "fin_children", "head", "head_children"}
    /\ StreamOrder[1] = "fin" /\ StreamOrder[2] = "fin_children"
    /\ StreamOrder[3] = "head" /\ StreamOrder[4] = "head_children"
<1>1. /\ StreamOrder[1] = "fin" /\ StreamOrder[2] = "fin_children"
      /\ StreamOrder[3] = "head" /\ StreamOrder[4] = "head_children"
  BY DEF StreamOrder
<1>2. \A i \in 1..4 : i = 1 \/ i = 2 \/ i = 3 \/ i = 4
  OBVIOUS
<1>3. Streams = {"fin", "fin_children", "head", "head_children"}
  <2>1. ASSUME NEW s \in Streams PROVE s \in {"fin", "fin_children", "head", "head_children"}
    BY <1>1, <1>2 DEF Streams
  <2>2. \A i \in 1..4 : StreamOrder[i] \in Streams
    BY DEF Streams
  <2>3. QED
    BY <1>1, <2>1, <2>2
<1>4. QED
  BY <1>1, <1>3

\* A fault is of one kind, at one slot.
LEMMA OneFault ==
    \A kind, other, m, n : Faulty(kind, m) /\ Faulty(other, n) => kind = other /\ m = n
<1>1. \A kind, other, m, n :
          [kind |-> kind, slot |-> m] = [kind |-> other, slot |-> n] => kind = other /\ m = n
  BY Z3
<1>2. QED
  BY <1>1 DEF Faulty

\* A node without a fault answers everything right.
LEMMA Faultless ==
    ASSUME fault = NoFault, NEW kind \in {"fin", "fin_children", "head", "head_children", "batches",
                                          "by_hash", "archive", "answer"}
    PROVE  \A n : ~Faulty(kind, n)
BY OneFault DEF Faulty, NoFault

\* The last of consecutive slots is one less than their number.
LEMMA HeadOf ==
    ASSUME NEW h \in Nat, NEW slots, DOMAIN slots = 0..h
    PROVE  Cardinality(DOMAIN slots) - 1 = h
<1>1. Cardinality(0..h) = h - 0 + 1
  BY FS_Interval
<1>2. QED
  BY <1>1

\* What has been posted up to a slot grows with the slot.
LEMMA PostedWhere ==
    ASSUME NEW n \in Nat, NEW tx \in 0..2
    PROVE  tx \in PostedBy(n) <=> \E m \in 0..n : Carries(ledger[m], tx)
BY DEF PostedBy, Carries

\* How many have been posted, and that they are the first ones.
LEMMA PostedCount ==
    ASSUME PostedInv
    PROVE  Posted \in 0..accepted /\ PostedBy(head) = 0..Posted - 1
<1>1. PICK k \in 0..accepted : PostedBy(head) = 0..k - 1
  BY DEF PostedInv
<1>2. k \in Nat /\ Cardinality(0..k - 1) = k
  <2>1. accepted \in 0..3
    BY DEF PostedInv
  <2>2. k \in Nat /\ 0 \in Int /\ k - 1 \in Int
    BY <2>1
  <2>3. Cardinality(0..k - 1) = IF 0 > k - 1 THEN 0 ELSE k - 1 - 0 + 1
    BY <2>2, FS_Interval
  <2>4. QED
    BY <2>2, <2>3
<1>3. QED
  BY <1>1, <1>2 DEF Posted

\* A transaction is in one slot only.
LEMMA PostedOnce ==
    ASSUME LedgerInv, PostedInv, NEW tx \in 0..2, NEW n \in 0..head, Carries(ledger[n], tx)
    PROVE  /\ SlotsWith(tx) = {n}
           /\ \A m \in 0..head : tx \in PostedBy(m) <=> n <= m
<1>0. head \in Nat
  BY DEF LedgerInv
<1>1. \A m \in 0..head : Carries(ledger[m], tx) => m = n
  <2> SUFFICES ASSUME NEW m \in 0..head, Carries(ledger[m], tx), m # n PROVE FALSE
    OBVIOUS
  <2>1. m < n \/ n < m
    BY <1>0
  <2>2. m \in 0..head /\ n \in 0..head /\ tx \in 0..2 /\ ~(tx < tx)
    OBVIOUS
  <2>3. QED
    BY <2>1, <2>2 DEF PostedInv
<1>2. ASSUME NEW m \in 0..head PROVE tx \in PostedBy(m) <=> n <= m
  <2>1. m \in Nat /\ 0..m \subseteq 0..head
    BY <1>0
  <2>2. tx \in PostedBy(m) <=> \E i \in 0..m : Carries(ledger[i], tx)
    BY <2>1, PostedWhere
  <2>3. n \in 0..m <=> n <= m
    BY <2>1
  <2>4. QED
    BY <1>1, <2>1, <2>2, <2>3
<1>3. ASSUME NEW m \in 0..head
      PROVE  tx \in PostedBy(m) /\ (m = 0 \/ tx \notin PostedBy(m - 1)) <=> m = n
  <2>1. CASE m = 0
    BY <1>0, <1>2, <2>1
  <2>2. CASE m # 0
    <3>1. m - 1 \in 0..head
      BY <1>0, <2>2
    <3>2. tx \in PostedBy(m - 1) <=> n <= m - 1
      BY <1>2, <3>1
    <3>3. n <= m /\ ~(n <= m - 1) <=> m = n
      BY <1>0
    <3>4. QED
      BY <1>2, <2>2, <3>2, <3>3
  <2>3. QED
    BY <2>1, <2>2
<1>4. SlotsWith(tx) = {m \in 0..head : m = n}
  BY <1>3 DEF SlotsWith
<1>5. QED
  BY <1>2, <1>4

\* The slots a transaction is found in carry it.
LEMMA FoundWhere ==
    ASSUME LedgerInv, NEW tx \in 0..2, NEW n \in SlotsWith(tx)
    PROVE  n \in 0..head /\ Carries(ledger[n], tx)
<1>1. /\ head \in Nat /\ n \in 0..head /\ n \in Nat
      /\ tx \in PostedBy(n) /\ (n = 0 \/ tx \notin PostedBy(n - 1))
  BY DEF SlotsWith, LedgerInv
<1>2. PICK m \in 0..n : Carries(ledger[m], tx)
  BY <1>1, PostedWhere
<1>3. m = n
  <2> SUFFICES ASSUME m # n PROVE FALSE
    OBVIOUS
  <2>1. n # 0 /\ n - 1 \in Nat /\ m \in 0..n - 1
    BY <1>1
  <2>2. QED
    BY <1>1, <1>2, <2>1, PostedWhere
<1>4. QED
  BY <1>1, <1>2, <1>3
-----------------------------------------------------------------------------
\* A batch of consecutive transactions.
LEMMA RunCarries ==
    ASSUME NEW a \in 0..3, NEW b \in 0..3, a < b
    PROVE  /\ Run(a, b) \in Seq(0..2)
           /\ \A tx \in 0..2 : (\E j \in DOMAIN Run(a, b) : Run(a, b)[j] = tx) <=> a <= tx /\ tx < b
<1>1. b - a \in Nat /\ \A i \in 1..b - a : a + i - 1 \in 0..2
  OBVIOUS
<1>2. Run(a, b) \in [1..b - a -> 0..2]
  BY <1>1 DEF Run
<1>3. Run(a, b) \in Seq(0..2)
  BY <1>1, <1>2
<1>4. DOMAIN Run(a, b) = 1..b - a /\ \A j \in 1..b - a : Run(a, b)[j] = a + j - 1
  BY DEF Run
<1>5. ASSUME NEW tx \in 0..2
      PROVE  (\E j \in DOMAIN Run(a, b) : Run(a, b)[j] = tx) <=> a <= tx /\ tx < b
  <2>1. ASSUME a <= tx, tx < b PROVE \E j \in DOMAIN Run(a, b) : Run(a, b)[j] = tx
    <3>1. tx - a + 1 \in 1..b - a /\ a + (tx - a + 1) - 1 = tx
      BY <2>1
    <3>2. QED
      BY <1>4, <3>1
  <2>2. ASSUME NEW j \in 1..b - a, a + j - 1 = tx PROVE a <= tx /\ tx < b
    BY <2>2
  <2>3. QED
    BY <1>4, <2>1, <2>2
<1>6. QED
  BY <1>3, <1>5

\* What the sequencer posts next: some of the transactions that it has not posted.
LEMMA NextContents ==
    ASSUME PostedInv, NEW slot \in SlotContents
    PROVE  /\ IsSlot(slot)
           /\ \E e \in Posted..accepted :
                  \A tx \in 0..2 : Carries(slot, tx) <=> Posted <= tx /\ tx < e
<1> DEFINE p == Posted
<1>1. p \in 0..accepted /\ accepted \in 0..3 /\ p \in 0..3 /\ p \in p..accepted
  <2>1. accepted \in 0..3 /\ Posted \in 0..accepted
    BY PostedCount DEF PostedInv
  <2>2. QED
    BY <2>1
<1>2. \/ slot = <<>>
      \/ slot = <<<<>>>>
      \/ \E b \in p + 1..accepted : slot = <<Run(p, b)>>
      \/ \E b \in p + 1..accepted : \E c \in b + 1..accepted : slot = <<Run(p, b), Run(b, c)>>
  BY DEF SlotContents
<1> HIDE DEF p
<1>3. CASE slot = <<>>
  <2>1. IsSlot(slot) /\ \A tx : ~Carries(slot, tx)
    BY <1>3 DEF IsSlot, Carries
  <2>2. \A tx \in 0..2 : ~(p <= tx /\ tx < p)
    BY <1>1
  <2>3. QED
    BY <1>1, <2>1, <2>2 DEF p
<1>4. CASE slot = <<<<>>>>
  <2>1. IsSlot(slot) /\ \A tx : ~Carries(slot, tx)
    <3>1. <<>> \in Seq(0..2) /\ DOMAIN slot = 1..1 /\ slot[1] = <<>> /\ DOMAIN <<>> = {}
      BY <1>4
    <3>2. slot \in Seq(Seq(0..2)) /\ Len(slot) = 1
      BY <1>4, <3>1
    <3>3. \A i \in DOMAIN slot : i = 1
      BY <3>1
    <3>4. QED
      BY <3>1, <3>2, <3>3 DEF IsSlot, Carries
  <2>2. \A tx \in 0..2 : ~(p <= tx /\ tx < p)
    BY <1>1
  <2>3. QED
    BY <1>1, <2>1, <2>2 DEF p
<1>5. ASSUME NEW b \in p + 1..accepted, slot = <<Run(p, b)>>
      PROVE  IsSlot(slot) /\ \A tx \in 0..2 : Carries(slot, tx) <=> p <= tx /\ tx < b
  <2>1. b \in 0..3 /\ p < b
    BY <1>1
  <2>2. Run(p, b) \in Seq(0..2)
    BY <1>1, <2>1, RunCarries
  <2>3. DOMAIN slot = {1} /\ slot[1] = Run(p, b)
    BY <1>5
  <2>4. slot \in Seq(Seq(0..2)) /\ Len(slot) = 1
    BY <1>5, <2>2
  <2>5. \A tx \in 0..2 : Carries(slot, tx) <=> \E j \in DOMAIN Run(p, b) : Run(p, b)[j] = tx
    BY <2>3 DEF Carries
  <2>6. \A tx \in 0..2 : (\E j \in DOMAIN Run(p, b) : Run(p, b)[j] = tx) <=> p <= tx /\ tx < b
    BY <1>1, <2>1, RunCarries
  <2>7. QED
    BY <2>4, <2>5, <2>6 DEF IsSlot
<1>6. ASSUME NEW b \in p + 1..accepted, NEW c \in b + 1..accepted, slot = <<Run(p, b), Run(b, c)>>
      PROVE  IsSlot(slot) /\ \A tx \in 0..2 : Carries(slot, tx) <=> p <= tx /\ tx < c
  <2>1. b \in 0..3 /\ c \in 0..3 /\ p < b /\ b < c
    BY <1>1
  <2>2. Run(p, b) \in Seq(0..2) /\ Run(b, c) \in Seq(0..2)
    BY <1>1, <2>1, RunCarries
  <2>3. DOMAIN slot = {1, 2} /\ slot[1] = Run(p, b) /\ slot[2] = Run(b, c)
    BY <1>6
  <2>4. slot \in Seq(Seq(0..2)) /\ Len(slot) = 2
    BY <1>6, <2>2
  <2>5. \A tx \in 0..2 : Carries(slot, tx) <=>
            \/ \E j \in DOMAIN Run(p, b) : Run(p, b)[j] = tx
            \/ \E j \in DOMAIN Run(b, c) : Run(b, c)[j] = tx
    BY <2>3 DEF Carries
  <2>6. \A tx \in 0..2 : (\E j \in DOMAIN Run(p, b) : Run(p, b)[j] = tx) <=> p <= tx /\ tx < b
    BY <1>1, <2>1, RunCarries
  <2>7. \A tx \in 0..2 : (\E j \in DOMAIN Run(b, c) : Run(b, c)[j] = tx) <=> b <= tx /\ tx < c
    BY <1>1, <2>1, RunCarries
  <2>8. \A tx \in 0..2 : (p <= tx /\ tx < b) \/ (b <= tx /\ tx < c) <=> p <= tx /\ tx < c
    BY <1>1, <2>1
  <2>9. \A tx \in 0..2 : Carries(slot, tx) <=> p <= tx /\ tx < c
    BY <2>5, <2>6, <2>7, <2>8
  <2>10. QED
    BY <2>4, <2>9 DEF IsSlot
<1>7. \A b \in p + 1..accepted : b \in p..accepted /\ \A c \in b + 1..accepted : c \in p..accepted
  BY <1>1
<1>8. QED
  BY <1>2, <1>3, <1>4, <1>5, <1>6, <1>7 DEF p

\* A step that announces nothing leaves the ledger's invariants, and what is said of it.
LEMMA LedgerFrame ==
    ASSUME LedgerInv, PostedInv, ledger' = ledger, fin' \in 0..head - 1,
           accepted' \in 0..3, accepted <= accepted'
    PROVE  LedgerInv' /\ PostedInv' /\ head' = head
<1>1. head' = head /\ \A n : PostedBy(n)' = PostedBy(n)
  BY DEF head, PostedBy
<1>2. LedgerInv'
  BY <1>1 DEF LedgerInv
<1>3. PICK k \in 0..accepted : PostedBy(head) = 0..k - 1
  BY DEF PostedInv
<1>4. k \in 0..accepted'
  BY <1>3 DEF PostedInv
<1>5. PostedInv'
  BY <1>1, <1>3, <1>4 DEF PostedInv
<1>6. QED
  BY <1>1, <1>2, <1>5

\* An announced slot goes behind the others.
LEMMA AnnounceLedger ==
    ASSUME LedgerInv, PostedInv, NEW slot \in SlotContents, Announce(slot), accepted' = accepted
    PROVE  /\ LedgerInv' /\ PostedInv' /\ head' = head + 1
           /\ \A n \in 0..head : ledger'[n] = ledger[n]
<1>1. /\ head \in Nat \ {0} /\ DOMAIN ledger = 0..head /\ fin \in 0..head - 1 /\ accepted \in 0..3
      /\ ledger[0] = <<>> /\ ledger[1] = <<>>
  BY DEF LedgerInv, PostedInv
<1>2. ledger' = [n \in 0..head + 1 |-> IF n <= head THEN ledger[n] ELSE slot] /\ fin' = fin
  BY DEF Announce
<1>3. DOMAIN ledger' = 0..head + 1
  BY <1>2
<1>4. head' = head + 1
  BY <1>1, <1>3, HeadOf DEF head
<1>5. (\A n \in 0..head : ledger'[n] = ledger[n]) /\ ledger'[head + 1] = slot
  <2>1. (\A n \in 0..head : n \in 0..head + 1 /\ n <= head) /\ head + 1 \in 0..head + 1
        /\ ~(head + 1 <= head)
    BY <1>1
  <2>2. QED
    BY <1>2, <2>1
<1>6. \A n \in 0..head + 1 : n \in 0..head \/ n = head + 1
  BY <1>1
<1>7. LedgerInv'
  <2>1. head' \in Nat \ {0} /\ DOMAIN ledger' = 0..head' /\ fin' \in 0..head' - 1
    BY <1>1, <1>2, <1>3, <1>4
  <2>2. 0 \in 0..head /\ 1 \in 0..head
    BY <1>1
  <2>3. \A n \in 0..head' : IsSlot(ledger'[n])
    BY <1>4, <1>5, <1>6, NextContents DEF LedgerInv
  <2>4. QED
    BY <1>1, <1>5, <2>1, <2>2, <2>3 DEF LedgerInv
<1>8. PICK e \in Posted..accepted :
          \A tx \in 0..2 : Carries(slot, tx) <=> Posted <= tx /\ tx < e
  BY NextContents
<1>9. Posted \in 0..accepted /\ PostedBy(head) = 0..Posted - 1
  BY PostedCount
<1>10. PostedBy(head)' = 0..e - 1
  <2>1. PostedBy(head)' = {tx \in 0..2 : \E m \in 0..head + 1 : Carries(ledger'[m], tx)}
    BY <1>4 DEF PostedBy, Carries
  <2>2. ASSUME NEW tx \in 0..2
        PROVE  (\E m \in 0..head + 1 : Carries(ledger'[m], tx)) <=> tx \in 0..e - 1
    <3>1. (\E m \in 0..head + 1 : Carries(ledger'[m], tx)) <=>
              (\E m \in 0..head : Carries(ledger[m], tx)) \/ Carries(slot, tx)
      <4>1. 0..head \subseteq 0..head + 1 /\ head + 1 \in 0..head + 1
        BY <1>1
      <4>2. QED
        BY <1>5, <1>6, <4>1
    <3>2. (\E m \in 0..head : Carries(ledger[m], tx)) <=> tx \in 0..Posted - 1
      BY <1>1, <1>9, PostedWhere
    <3>3. tx \in 0..Posted - 1 \/ (Posted <= tx /\ tx < e) <=> tx \in 0..e - 1
      BY <1>1, <1>9
    <3>4. QED
      BY <1>8, <3>1, <3>2, <3>3
  <2>3. 0..e - 1 \subseteq 0..2
    BY <1>1, <1>9
  <2>4. QED
    BY <2>1, <2>2, <2>3
<1>11. ASSUME NEW m \in 0..head + 1, NEW n \in 0..head + 1, NEW a \in 0..2, NEW b \in 0..2,
              m < n, Carries(ledger'[m], a), Carries(ledger'[n], b)
       PROVE  a < b
  <2>1. m \in 0..head
    BY <1>1, <1>11
  <2>2. CASE n \in 0..head
    BY <1>5, <1>11, <2>1, <2>2 DEF PostedInv
  <2>3. CASE n = head + 1
    <3>1. a \in PostedBy(head)
      BY <1>1, <1>5, <1>11, <2>1, PostedWhere
    <3>2. Posted <= b
      BY <1>5, <1>8, <1>11, <2>3
    <3>3. QED
      BY <1>1, <1>9, <3>1, <3>2
  <2>4. QED
    BY <1>6, <2>2, <2>3
<1>12. PostedInv'
  <2>1. e \in 0..accepted'
    BY <1>1, <1>9
  <2>2. QED
    BY <1>1, <1>4, <1>10, <1>11, <2>1 DEF PostedInv
<1>13. QED
  BY <1>4, <1>5, <1>7, <1>12
-----------------------------------------------------------------------------
\* The bound on the slots, whatever the two constants.
LEMMA HeadBound ==
    ASSUME LedgerInv, StreamInv, BoundInv
    PROVE  head <= MaxHead /\ MaxHead \in Nat /\ 4 <= MaxHead
<1>1. head \in Nat \ {0} /\ next["head_children"] \in Int /\ prev \in Int
  BY StreamsAre DEF LedgerInv, StreamInv
<1>2. MaxAhead \in Nat \ {0} /\ WaitSlots \in Nat \ {0}
  BY SlotMonitorConstants
<1>3. \/ head <= MaxAhead
      \/ next["head_children"] <= MaxAhead + 1 /\ head <= next["head_children"] - 1 + MaxAhead
      \/ prev <= MaxAhead + 2 * WaitSlots /\ head <= prev + MaxAhead
  BY DEF BoundInv
<1>4. QED
  BY <1>1, <1>2, <1>3 DEF MaxHead

\* What a step that leaves the ledger alone leaves alone with it.
LEMMA SupplyFrame ==
    ASSUME ledger' = ledger
    PROVE  /\ \A n : PostedBy(n)' = PostedBy(n)
           /\ \A tx : SlotsWith(tx)' = SlotsWith(tx)
           /\ PostedTogether' = PostedTogether
<1>1. head' = head /\ \A n : PostedBy(n)' = PostedBy(n)
  BY DEF head, PostedBy
<1>2. \A tx : SlotsWith(tx)' = SlotsWith(tx)
  BY <1>1 DEF SlotsWith
<1>3. QED
  BY <1>1, <1>2 DEF PostedTogether

\* A slot announced or finalized disturbs nothing that the setup knows.
LEMMA NodeStep ==
    ASSUME Inv, NodeNext
    PROVE  Inv'
<1>1. /\ LedgerInv /\ PostedInv /\ PlaceInv /\ StreamInv /\ BoundInv /\ FaultInv
      /\ FirstInv /\ SecondInv /\ SavedInv /\ LoopInv
  BY DEF Inv
<1>2. /\ result = "running" /\ pc \notin AfterTwo /\ UNCHANGED ownVars
      /\ result' = "running" /\ pc' = pc /\ accepted' = accepted /\ waited' = waited
      /\ first_subscribed' = first_subscribed /\ first_non_empty' = first_non_empty
      /\ second_non_empty' = second_non_empty /\ slotnum' = slotnum
  BY DEF NodeNext, ownVars, AfterTwo
<1>3. head \in Nat \ {0} /\ fin \in 0..head - 1 /\ prev \in Int /\ next["head_children"] \in Int
  BY <1>1, StreamsAre DEF LedgerInv, StreamInv
<1>4. PlaceInv' /\ LoopInv' /\ RejectedForCause'
  BY <1>1, <1>2 DEF PlaceInv, LoopInv, RejectedForCause, AfterTwo
<1>5. CASE Finalize
  <2>1. /\ ledger' = ledger /\ fin' = fin + 1 /\ fin < head - 1
        /\ next' = next /\ prev' = prev /\ snaps' = snaps /\ fault' = fault
    BY <1>5 DEF Finalize
  <2>2. accepted' \in 0..3 /\ accepted <= accepted' /\ fin' \in 0..head - 1
    BY <1>1, <1>2, <1>3, <2>1 DEF PostedInv
  <2>3. LedgerInv' /\ PostedInv' /\ head' = head
    BY <1>1, <2>1, <2>2, LedgerFrame
  <2>4. StreamInv' /\ BoundInv' /\ FaultInv'
    BY <1>1, <1>2, <2>1, <2>3 DEF StreamInv, BoundInv, FaultInv
  <2>5. FirstInv' /\ SecondInv'
    BY <1>1, <1>2, <2>1, <2>3 DEF FirstInv, SecondInv, Aligned
  <2>6. SavedInv'
    BY <1>1, <1>2, <2>1, <2>3 DEF SavedInv, Notified, Faulty
  <2>7. QED
    BY <1>4, <2>3, <2>4, <2>5, <2>6 DEF Inv
<1>6. ASSUME NEW slot \in SlotContents, Announce(slot) PROVE Inv'
  <2>1. /\ fin' = fin /\ next' = next /\ prev' = prev /\ snaps' = snaps
        /\ head - Followed < MaxAhead
        /\ fault' \in {fault} \cup
              (IF fault = NoFault THEN [kind : SlotFaults, slot : {head + 1}] ELSE {})
    BY <1>6 DEF Announce
  <2>2. /\ LedgerInv' /\ PostedInv' /\ head' = head + 1
        /\ \A n \in 0..head : ledger'[n] = ledger[n]
    BY <1>1, <1>2, <1>6, AnnounceLedger
  <2>3. StreamInv'
    <3>1. \A s \in Streams : next[s] \in Int /\ (next[s] <= head + 1 => next[s] <= head' + 1)
      BY <1>1, <1>3, <2>2 DEF StreamInv
    <3>2. prev <= head => prev <= head'
      BY <1>3, <2>2
    <3>3. QED
      BY <1>1, <1>2, <2>1, <3>1, <3>2 DEF StreamInv
  <2>4. BoundInv'
    <3>1. MaxAhead \in Nat
      BY SlotMonitorConstants
    <3>2. CASE pc \in Unsubscribed
      <4>1. Followed = 0 /\ prev = NoSlot
        BY <1>1, <3>2 DEF StreamInv, Followed
      <4>2. head' <= MaxAhead
        BY <1>3, <2>1, <2>2, <3>1, <4>1
      <4>3. QED
        BY <1>2, <2>1, <3>2, <4>1, <4>2 DEF BoundInv
    <3>3. CASE pc \notin Unsubscribed /\ prev = NoSlot
      <4>1. Followed = next["head_children"] - 1
        BY <1>1, <3>3 DEF StreamInv, Followed, NoSlot
      <4>2. head' <= next["head_children"] - 1 + MaxAhead
        BY <1>3, <2>1, <2>2, <3>1, <4>1
      <4>3. QED
        BY <1>1, <1>2, <2>1, <3>3, <4>2 DEF BoundInv
    <3>4. CASE prev # NoSlot
      <4>1. Followed = prev /\ pc \notin Unsubscribed
        BY <1>1, <3>4 DEF StreamInv, Followed
      <4>2. head' <= prev + MaxAhead
        BY <1>3, <2>1, <2>2, <3>1, <4>1
      <4>3. QED
        BY <1>1, <1>2, <2>1, <3>4, <4>1, <4>2 DEF BoundInv
    <3>5. QED
      BY <3>2, <3>3, <3>4
  <2>5. FaultInv'
    <3>1. MaxAhead \in Nat \ {0} /\ WaitSlots \in Nat \ {0}
      BY SlotMonitorConstants
    <3>2. Followed \in Int /\ Followed <= MaxAhead + 2 * WaitSlots
      <4>1. Followed = 0 \/ (pc \notin Unsubscribed /\ prev = NoSlot
                               /\ Followed = next["head_children"] - 1)
                         \/ (prev # NoSlot /\ Followed = prev)
        BY <1>1 DEF StreamInv, Followed
      <4>2. QED
        BY <1>1, <1>3, <3>1, <4>1 DEF BoundInv
    <3>3. head + 1 \in 0..MaxHead
      BY <1>3, <2>1, <3>1, <3>2 DEF MaxHead
    <3>4. QED
      BY <1>1, <2>1, <3>3 DEF FaultInv, Faults
  <2>6. FirstInv'
    <3>1. first_non_empty \in 0..head /\ 0..head \subseteq 0..head'
      BY <1>1, <1>3, <2>2 DEF FirstInv
    <3>2. QED
      BY <1>1, <1>2, <2>1, <2>2, <3>1 DEF FirstInv
  <2>7. SecondInv'
    <3>1. second_non_empty = 0 /\ 0 \in 0..head'
      BY <1>1, <1>2, <1>3, <2>2 DEF SecondInv
    <3>2. QED
      BY <1>2, <3>1 DEF SecondInv
  <2>8. SavedInv'
    <3>1. 0..head \subseteq 0..head'
      BY <1>3, <2>2
    <3>2. ASSUME NEW n \in 0..head PROVE Notified(n)' = Notified(n)
      <4>1. n # head + 1
        BY <1>3
      <4>2. Faulty("batches", n)' = Faulty("batches", n)
        <5>1. CASE fault' = fault
          BY <5>1 DEF Faulty
        <5>2. CASE fault = NoFault /\ fault' \in [kind : SlotFaults, slot : {head + 1}]
          <6>1. ~Faulty("batches", n)
            BY <5>2, Faultless
          <6>2. fault'.slot = head + 1
            BY <5>2
          <6>3. fault' # [kind |-> "batches", slot |-> n]
            BY <4>1, <6>2
          <6>4. QED
            BY <6>1, <6>3 DEF Faulty
        <5>3. QED
          BY <2>1, <5>1, <5>2
      <4>3. QED
        BY <2>2, <4>2 DEF Notified
    <3>3. prev # NoSlot => \A n \in first_subscribed..prev : n \in 0..head
      BY <1>1, <1>3 DEF SavedInv, StreamInv
    <3>4. QED
      BY <1>1, <1>2, <2>1, <3>1, <3>2, <3>3 DEF SavedInv
  <2>9. QED
    BY <1>4, <2>2, <2>3, <2>4, <2>5, <2>6, <2>7, <2>8 DEF Inv
<1>7. QED
  BY <1>5, <1>6 DEF NodeNext
\* A fault is about an answer that the setup has not had yet.
LEMMA FaultStep ==
    ASSUME Inv, NodeFault
    PROVE  Inv'
<1>1. /\ LedgerInv /\ PostedInv /\ PlaceInv /\ StreamInv /\ BoundInv /\ FaultInv
      /\ FirstInv /\ SecondInv /\ SavedInv /\ LoopInv
  BY DEF Inv
<1>2. /\ result = "running" /\ result' = "running" /\ pc' = pc /\ accepted' = accepted
      /\ waited' = waited /\ first_subscribed' = first_subscribed
      /\ first_non_empty' = first_non_empty /\ second_non_empty' = second_non_empty
      /\ slotnum' = slotnum
      /\ ledger' = ledger /\ fin' = fin /\ next' = next /\ prev' = prev /\ snaps' = snaps
      /\ fault = NoFault
  BY DEF NodeFault, ownVars, GoWrong
<1>3. \/ pc \in {"create", "mint", "transfer"} /\ fault' = [kind |-> "answer", slot |-> accepted]
      \/ pc = "fetching" /\ fault' = [kind |-> "by_hash", slot |-> slotnum]
      \/ pc = "archive" /\ fault' = [kind |-> "archive", slot |-> slotnum]
  BY DEF NodeFault, GoWrong
<1>4. LedgerInv' /\ PostedInv' /\ head' = head
  <2>1. accepted' \in 0..3 /\ accepted <= accepted' /\ fin' \in 0..head - 1
    BY <1>1, <1>2 DEF PostedInv, LedgerInv
  <2>2. QED
    BY <1>1, <1>2, <2>1, LedgerFrame
<1>5. PlaceInv' /\ RejectedForCause'
  BY <1>1, <1>2 DEF PlaceInv, RejectedForCause
<1>6. StreamInv' /\ BoundInv'
  BY <1>1, <1>2, <1>4 DEF StreamInv, BoundInv
<1>7. FirstInv' /\ SecondInv'
  BY <1>1, <1>2, <1>4 DEF FirstInv, SecondInv, Aligned
<1>8. FaultInv'
  <2>1. head \in Nat /\ prev \in Int /\ head <= MaxHead /\ MaxHead \in Nat /\ 4 <= MaxHead
    BY <1>1, HeadBound DEF LedgerInv, StreamInv
  <2>2. pc \in {"create", "mint", "transfer"} => accepted \in 0..MaxHead
    BY <1>1, <2>1 DEF PostedInv
  <2>3. pc \in {"fetching", "archive"} => slotnum \in 0..MaxHead
    <3>1. pc \in {"fetching", "archive"} => slotnum \in Nat /\ slotnum <= prev /\ prev <= head
      BY <1>1, <1>2 DEF LoopInv, StreamInv, AfterOne
    <3>2. QED
      BY <2>1, <3>1
  <2>4. {"answer", "by_hash", "archive"} \subseteq SlotFaults \cup AnswerFaults
    BY DEF AnswerFaults
  <2>5. QED
    BY <1>3, <2>2, <2>3, <2>4 DEF FaultInv, Faults
<1>9. \A n : ~Faulty("batches", n) /\ ~Faulty("by_hash", n) /\ ~Faulty("archive", n)
  BY <1>2, Faultless
<1>10. SavedInv'
  <2>1. \A n : ~Faulty("batches", n)'
    <3>1. \A m, n : /\ [kind |-> "answer", slot |-> m] # [kind |-> "batches", slot |-> n]
                    /\ [kind |-> "by_hash", slot |-> m] # [kind |-> "batches", slot |-> n]
                    /\ [kind |-> "archive", slot |-> m] # [kind |-> "batches", slot |-> n]
      BY Z3
    <3>2. QED
      BY <1>3, <3>1 DEF Faulty
  <2>2. \A n : Notified(n)' = Notified(n)
    BY <1>2, <1>9, <2>1 DEF Notified
  <2>3. QED
    BY <1>1, <1>2, <1>4, <2>2 DEF SavedInv
<1>11. LoopInv'
  <2>1. CASE pc \notin {"fetching", "archive"}
    <3>1. pc \notin AfterTwo
      BY <1>1, <1>2, <2>1 DEF PlaceInv, AfterTwo
    <3>2. QED
      BY <1>1, <1>2, <2>1, <3>1 DEF LoopInv, AfterTwo
  <2>2. CASE pc = "fetching"
    <3>1. slotnum \in Nat /\ slotnum <= prev /\ slotnum <= prev + 1 /\ Fetched(slotnum)
      BY <1>1, <1>2, <2>2 DEF LoopInv
    <3>2. \A n \in 0..slotnum - 1 : ViewsAgree(n)'
      <4>1. fault' = [kind |-> "by_hash", slot |-> slotnum]
        BY <1>3, <2>2
      <4>2. \A n \in 0..slotnum - 1 : n # slotnum
        BY <3>1
      <4>3. \A n : [kind |-> "by_hash", slot |-> slotnum] = [kind |-> "by_hash", slot |-> n]
                     => slotnum = n
        BY Z3
      <4>4. QED
        BY <4>1, <4>2, <4>3 DEF ViewsAgree, Faulty
    <3>3. Fetched(slotnum)'
      BY <1>2, <3>1, <3>2 DEF Fetched
    <3>4. QED
      BY <1>2, <2>2, <3>1, <3>3 DEF LoopInv, AfterTwo
  <2>3. CASE pc = "archive"
    <3>1. slotnum \in Nat /\ slotnum <= prev /\ slotnum <= prev + 1 /\ Fetched(prev + 1)
          /\ Checked(slotnum)
      BY <1>1, <1>2, <2>3 DEF LoopInv
    <3>2. fault' = [kind |-> "archive", slot |-> slotnum]
      BY <1>3, <2>3
    <3>3. Fetched(prev + 1)'
      <4>1. \A n : [kind |-> "archive", slot |-> slotnum] # [kind |-> "by_hash", slot |-> n]
        BY Z3
      <4>2. \A n : ViewsAgree(n)'
        BY <3>2, <4>1 DEF ViewsAgree, Faulty
      <4>3. QED
        BY <1>2, <3>1, <4>2 DEF Fetched
    <3>4. Checked(slotnum)'
      <4>1. \A n \in 0..slotnum - 1 : n # slotnum
        BY <3>1
      <4>2. \A n : [kind |-> "archive", slot |-> slotnum] = [kind |-> "archive", slot |-> n]
                     => slotnum = n
        BY Z3
      <4>3. \A n \in 0..slotnum - 1 : ~Faulty("archive", n)'
        BY <3>2, <4>1, <4>2 DEF Faulty
      <4>4. \A n \in 0..slotnum - 1 : ArchivalSupply(n)' = ArchivalSupply(n)
        BY <1>2, <1>9, <4>3, SupplyFrame DEF ArchivalSupply
      <4>5. \A n : ExpectedSupply(n)' = ExpectedSupply(n)
        BY <1>2 DEF ExpectedSupply
      <4>6. QED
        BY <1>2, <3>1, <4>4, <4>5 DEF Checked
    <3>5. QED
      BY <1>2, <2>3, <3>1, <3>3, <3>4 DEF LoopInv, AfterTwo
  <2>4. QED
    BY <2>1, <2>2, <2>3
<1>12. QED
  BY <1>4, <1>5, <1>6, <1>7, <1>8, <1>10, <1>11 DEF Inv
-----------------------------------------------------------------------------
\* A step of the setup that leaves the monitor and the node alone.
LEMMA MonitorFrame ==
    ASSUME Inv, UNCHANGED monVars, accepted' \in 0..3, accepted <= accepted'
    PROVE  /\ LedgerInv' /\ PostedInv' /\ FaultInv' /\ head' = head /\ Aligned' = Aligned
           /\ first_subscribed' = first_subscribed => SavedInv'
<1>1. /\ LedgerInv /\ PostedInv /\ FaultInv /\ SavedInv
      /\ ledger' = ledger /\ fin' = fin /\ next' = next /\ prev' = prev /\ snaps' = snaps
      /\ fault' = fault
  BY DEF Inv, monVars
<1>2. LedgerInv' /\ PostedInv' /\ head' = head
  <2>1. fin' \in 0..head - 1
    BY <1>1 DEF LedgerInv
  <2>2. QED
    BY <1>1, <2>1, LedgerFrame
<1>3. FaultInv' /\ Aligned' = Aligned
  BY <1>1 DEF FaultInv, Aligned
<1>4. \A n : Notified(n)' = Notified(n)
  BY <1>1 DEF Notified, Faulty
<1>5. first_subscribed' = first_subscribed => SavedInv'
  BY <1>1, <1>2, <1>4 DEF SavedInv
<1>6. QED
  BY <1>2, <1>3, <1>5

LEMMA ReadyStep ==
    ASSUME Inv, result = "running", SequencerReady
    PROVE  Inv'
<1>1. /\ PostedInv /\ PlaceInv /\ StreamInv /\ BoundInv /\ FirstInv /\ SecondInv /\ LoopInv
  BY DEF Inv
<1>2. /\ pc = "waiting_ready" /\ pc' = "subscribing" /\ result' = result /\ UNCHANGED monVars
      /\ next' = next /\ prev' = prev /\ accepted' = accepted /\ waited' = waited
      /\ first_subscribed' = first_subscribed /\ first_non_empty' = first_non_empty
      /\ second_non_empty' = second_non_empty /\ slotnum' = slotnum
  BY DEF SequencerReady, Goto, monVars
<1>3. LedgerInv' /\ PostedInv' /\ FaultInv' /\ head' = head /\ SavedInv' /\ Aligned' = Aligned
  <2>1. accepted' \in 0..3 /\ accepted <= accepted'
    BY <1>1, <1>2 DEF PostedInv
  <2>2. QED
    BY <1>2, <2>1, MonitorFrame
<1>4. PlaceInv'
  <2>1. waited = 0 /\ waited' \in Nat /\ waited' <= 3
    BY <1>1, <1>2 DEF PlaceInv, Waits
  <2>2. QED
    BY <1>1, <1>2, <2>1 DEF PlaceInv, Labels, Results, Unsubscribed, Waits, AfterTwo
<1>5. StreamInv'
  BY <1>1, <1>2, <1>3 DEF StreamInv, Unsubscribed, AfterOne
<1>6. BoundInv'
  BY <1>1, <1>2, <1>3 DEF BoundInv, Unsubscribed, StreamInv
<1>7. FirstInv' /\ SecondInv'
  BY <1>1, <1>2, <1>3 DEF FirstInv, SecondInv, AfterOne, AfterTwo
<1>8. LoopInv' /\ RejectedForCause'
  BY <1>1, <1>2 DEF LoopInv, AfterTwo, RejectedForCause
<1>9. QED
  BY <1>3, <1>4, <1>5, <1>6, <1>7, <1>8 DEF Inv

LEMMA UnreachableStep ==
    ASSUME Inv, result = "running", Unreachable
    PROVE  Inv'
<1>1. /\ PostedInv /\ PlaceInv /\ StreamInv /\ BoundInv /\ FirstInv /\ SecondInv /\ LoopInv
  BY DEF Inv
<1>2. /\ pc' = pc /\ result' = "unreachable" /\ UNCHANGED monVars /\ ledger' = ledger
      /\ next' = next /\ prev' = prev /\ accepted' = accepted /\ waited' = waited
      /\ snaps' = snaps /\ fault' = fault
      /\ first_subscribed' = first_subscribed /\ first_non_empty' = first_non_empty
      /\ second_non_empty' = second_non_empty /\ slotnum' = slotnum
  BY DEF Unreachable, monVars
<1>3. LedgerInv' /\ PostedInv' /\ FaultInv' /\ head' = head /\ SavedInv' /\ Aligned' = Aligned
  <2>1. accepted' \in 0..3 /\ accepted <= accepted'
    BY <1>1, <1>2 DEF PostedInv
  <2>2. QED
    BY <1>2, <2>1, MonitorFrame
<1>4. PlaceInv' /\ RejectedForCause'
  BY <1>1, <1>2 DEF PlaceInv, Results, RejectedForCause
<1>5. StreamInv' /\ BoundInv'
  BY <1>1, <1>2, <1>3 DEF StreamInv, BoundInv
<1>6. FirstInv' /\ SecondInv'
  BY <1>1, <1>2, <1>3 DEF FirstInv, SecondInv
<1>7. LoopInv'
  <2>1. pc # "done"
    BY <1>1 DEF PlaceInv
  <2>2. Fetched(prev + 1)' = Fetched(prev + 1)
    BY <1>2 DEF Fetched, ViewsAgree, Faulty
  <2>3. QED
    BY <1>1, <1>2, <2>1, <2>2 DEF LoopInv
<1>8. QED
  BY <1>3, <1>4, <1>5, <1>6, <1>7 DEF Inv

\* A subscription delivers from the slot after the last one announced.
LEMMA SubscribeStep ==
    ASSUME Inv, result = "running", SubscribeNext
    PROVE  Inv'
<1>1. /\ LedgerInv /\ PostedInv /\ PlaceInv /\ StreamInv /\ BoundInv /\ FaultInv
      /\ FirstInv /\ SecondInv /\ SavedInv /\ LoopInv
  BY DEF Inv
<1>2. /\ pc = "subscribing" /\ Subscribe(StreamOrder[waited + 1])
      /\ result' = result /\ ledger' = ledger /\ fin' = fin /\ prev' = prev /\ snaps' = snaps
      /\ fault' = fault /\ accepted' = accepted /\ first_subscribed' = first_subscribed
      /\ first_non_empty' = first_non_empty /\ second_non_empty' = second_non_empty
      /\ slotnum' = slotnum
      /\ waited = 3 => pc' = "create" /\ waited' = 0
      /\ waited # 3 => pc' = "subscribing" /\ waited' = waited + 1
  BY DEF SubscribeNext, Goto
<1>3. LedgerInv' /\ PostedInv' /\ head' = head
  <2>1. accepted' \in 0..3 /\ accepted <= accepted' /\ fin' \in 0..head - 1
    BY <1>1, <1>2 DEF PostedInv, LedgerInv
  <2>2. QED
    BY <1>1, <1>2, <2>1, LedgerFrame
<1>4. head \in Nat \ {0} /\ fin \in 0..head - 1 /\ prev = NoSlot /\ head <= MaxAhead
      /\ waited \in 0..3 /\ next \in [Streams -> Int] /\ next["head_children"] = NoSlot
  BY <1>1, <1>2 DEF LedgerInv, StreamInv, BoundInv, PlaceInv, Unsubscribed
<1>5. PlaceInv'
  <2>1. waited # 3 => waited + 1 \in Nat /\ waited + 1 <= 3
    BY <1>4
  <2>2. QED
    BY <1>1, <1>2, <2>1 DEF PlaceInv, Labels, Results, Unsubscribed, Waits, AfterTwo
<1>6. /\ next' \in [Streams -> Int]
      /\ \A s \in Streams : next'[s] = next[s] \/ next'[s] = fin + 1 \/ next'[s] = head + 1
      /\ waited # 3 => next'["head_children"] = NoSlot
      /\ waited = 3 => next'["head_children"] = head + 1 /\ next'["head"] = next["head"]
  <2>1. waited = 0 \/ waited = 1 \/ waited = 2 \/ waited = 3
    BY <1>4
  <2>2. StreamOrder[waited + 1] \in Streams
    BY <2>1, StreamsAre
  <2>3. /\ waited # 3 => StreamOrder[waited + 1] # "head_children"
        /\ waited = 3 => StreamOrder[waited + 1] = "head_children"
    BY <2>1, StreamsAre
  <2>4. "head" \in Streams /\ "head_children" \in Streams
    BY StreamsAre
  <2>5. fin + 1 \in Int /\ head + 1 \in Int
    BY <1>4
  <2>6. PICK v \in {fin + 1, head + 1} :
            /\ next' = [next EXCEPT ![StreamOrder[waited + 1]] = v]
            /\ StreamOrder[waited + 1] = "head_children" => v = head + 1
    BY <1>2 DEF Subscribe
  <2>7. QED
    BY <1>4, <2>2, <2>3, <2>4, <2>5, <2>6
<1>7. StreamInv'
  <2>1. \A s \in Streams : NoSlot <= next'[s] /\ next'[s] <= head' + 1
    BY <1>1, <1>3, <1>4, <1>6 DEF StreamInv, NoSlot
  <2>2. waited = 3 => next'["head_children"] >= 2 /\ next'["head"] <= next'["head_children"]
    BY <1>1, <1>4, <1>6, StreamsAre DEF StreamInv
  <2>3. QED
    BY <1>1, <1>2, <1>4, <1>6, <2>1, <2>2 DEF StreamInv, Unsubscribed, AfterOne
<1>8. BoundInv'
  <2>1. MaxAhead \in Nat
    BY SlotMonitorConstants
  <2>2. waited = 3 => /\ next'["head_children"] <= MaxAhead + 1
                      /\ head' <= next'["head_children"] - 1 + MaxAhead
    BY <1>3, <1>4, <1>6, <2>1
  <2>3. QED
    BY <1>2, <1>3, <1>4, <2>2 DEF BoundInv, Unsubscribed
<1>9. FirstInv' /\ SecondInv' /\ FaultInv'
  BY <1>1, <1>2, <1>3 DEF FirstInv, SecondInv, FaultInv, AfterOne, AfterTwo
<1>10. SavedInv'
  BY <1>1, <1>2, <1>3, <1>4 DEF SavedInv
<1>11. LoopInv' /\ RejectedForCause'
  BY <1>1, <1>2 DEF LoopInv, AfterTwo, RejectedForCause
<1>12. QED
  BY <1>3, <1>5, <1>7, <1>8, <1>9, <1>10, <1>11 DEF Inv
\* The answers of a sequencer without a fault are the ones expected.
LEMMA SendStep ==
    ASSUME Inv, result = "running", NEW tx \in {Create, Mint, Transfer}, NEW from, NEW label,
           Send(tx, from, label),
           \/ tx = Create /\ from = "create" /\ label = "first_wait"
           \/ tx = Mint /\ from = "mint" /\ label = "transfer"
           \/ tx = Transfer /\ from = "transfer" /\ label = "second_wait"
    PROVE  Inv'
<1>1. /\ LedgerInv /\ PostedInv /\ PlaceInv /\ StreamInv /\ BoundInv /\ FaultInv
      /\ FirstInv /\ SecondInv /\ SavedInv /\ LoopInv
  BY DEF Inv
<1>2. /\ pc = from /\ accepted' = accepted + 1 /\ UNCHANGED monVars
      /\ next' = next /\ prev' = prev /\ waited' = waited /\ ledger' = ledger /\ fault' = fault
      /\ first_subscribed' = first_subscribed /\ first_non_empty' = first_non_empty
      /\ second_non_empty' = second_non_empty /\ slotnum' = slotnum
      /\ \/ pc' = label /\ result' = result
         \/ ~(~Faulty("answer", tx) /\ SupplyAfter(0..tx) = (IF tx = Create THEN 1000 ELSE 1800))
            /\ result' = "rejected" /\ pc' = pc
  BY DEF Send, monVars, Assert, Goto, Reject
<1>3. \/ from = "create" /\ label = "first_wait" /\ accepted = 0
      \/ from = "mint" /\ label = "transfer" /\ accepted = 1
      \/ from = "transfer" /\ label = "second_wait" /\ accepted = 2
  BY <1>1, <1>2 DEF PlaceInv
<1>4. accepted' \in 0..3 /\ accepted <= accepted'
  BY <1>2, <1>3
<1>5. LedgerInv' /\ PostedInv' /\ FaultInv' /\ head' = head /\ SavedInv' /\ Aligned' = Aligned
  BY <1>2, <1>4, MonitorFrame
<1>6. waited = 0 /\ from \notin Unsubscribed /\ from \notin AfterTwo /\ label \notin AfterTwo
  BY <1>1, <1>2, <1>3 DEF PlaceInv, Unsubscribed, AfterTwo, Waits
<1>7. PlaceInv'
  <2>1. 0 <= WaitSlots - 1
    BY SlotMonitorConstants
  <2>2. from # "done" /\ label # "done" /\ pc' \in {from, label}
    BY <1>2, <1>3
  <2>3. result' = "running" => pc' = label /\ accepted' = accepted + 1
    BY <1>2
  <2>4. result' = "running" =>
        /\ pc' \in Unsubscribed \cup {"create"} => accepted' = 0
        /\ pc' \in {"first_wait", "mint"} => accepted' = 1
        /\ pc' = "transfer" => accepted' = 2
        /\ pc' \in AfterTwo \cup {"second_wait"} => accepted' = 3
    <3>1. from = "create" => accepted' = 1
      BY <1>2, <1>3
    <3>2. from = "mint" => accepted' = 2
      BY <1>2, <1>3
    <3>3. from = "transfer" => accepted' = 3
      BY <1>2, <1>3
    <3>4. QED
      BY <1>3, <2>3, <3>1, <3>2, <3>3 DEF Unsubscribed, AfterTwo
  <2>5. QED
    BY <1>1, <1>2, <1>3, <1>6, <2>1, <2>2, <2>4
    DEF PlaceInv, Labels, Results, Unsubscribed, Waits, AfterTwo
<1>8. StreamInv'
  <2>1. label \in AfterOne => from \in AfterOne
    BY <1>3 DEF AfterOne
  <2>2. pc' \in {from, label} /\ from \notin Unsubscribed /\ label \notin Unsubscribed
    BY <1>2, <1>3 DEF Unsubscribed
  <2>3. label = "first_wait" => prev = NoSlot /\ from = "create"
    BY <1>1, <1>2, <1>3 DEF StreamInv
  <2>4. pc' = "first_wait" /\ result' = "running" => pc' = label
    BY <1>2, <1>3
  <2>5. QED
    BY <1>1, <1>2, <1>3, <1>5, <1>6, <2>1, <2>2, <2>3, <2>4 DEF StreamInv
<1>9. BoundInv'
  <2>1. pc' \in {from, label} /\ from \notin Unsubscribed /\ label \notin Unsubscribed
    BY <1>2, <1>3 DEF Unsubscribed
  <2>2. label = "first_wait" => prev = NoSlot
    BY <1>1, <1>2, <1>3 DEF StreamInv
  <2>3. from \in {"mint", "transfer"} \/ prev = NoSlot
    BY <1>3, <2>2
  <2>4. QED
    BY <1>1, <1>2, <1>5, <2>1, <2>2, <2>3, <1>3 DEF BoundInv
<1>10. FirstInv' /\ SecondInv'
  <2>1. pc' \in AfterOne => pc \in AfterOne
    BY <1>2, <1>3 DEF AfterOne
  <2>2. pc' \notin AfterTwo
    BY <1>2, <1>6
  <2>3. pc' \notin AfterOne => pc \notin AfterOne
    BY <1>2, <1>3 DEF AfterOne
  <2>4. QED
    BY <1>1, <1>2, <1>5, <1>6, <2>1, <2>2, <2>3 DEF FirstInv, SecondInv
<1>11. LoopInv'
  BY <1>1, <1>2, <1>6 DEF LoopInv, AfterTwo
<1>12. RejectedForCause'
  <2>1. SupplyAfter(0..tx) = (IF tx = Create THEN 1000 ELSE 1800)
    BY DEF SupplyAfter, Create, Mint, Transfer
  <2>2. result' = "rejected" => fault # NoFault
    BY <1>2, <2>1, Faultless
  <2>3. QED
    BY <1>2, <2>2 DEF RejectedForCause
<1>13. QED
  BY <1>5, <1>7, <1>8, <1>9, <1>10, <1>11, <1>12 DEF Inv

\* A monitor without a fault to report finds streams out of step.
LEMMA MonitorRejectsStep ==
    ASSUME Inv, result = "running", MonitorRejects
    PROVE  Inv'
<1>1. /\ LedgerInv /\ PostedInv /\ PlaceInv /\ StreamInv /\ BoundInv /\ FaultInv
      /\ FirstInv /\ SecondInv /\ SavedInv /\ LoopInv
  BY DEF Inv
<1>2. /\ pc \in Waits /\ SlotsReady /\ ~SlotsConsistent
      /\ pc' = pc /\ result' = "rejected" /\ UNCHANGED monVars /\ ledger' = ledger
      /\ next' = next /\ prev' = prev /\ accepted' = accepted /\ waited' = waited
      /\ fault' = fault
      /\ first_subscribed' = first_subscribed /\ first_non_empty' = first_non_empty
      /\ second_non_empty' = second_non_empty /\ slotnum' = slotnum
  BY DEF MonitorRejects, monVars, Waits, Reject
<1>3. LedgerInv' /\ PostedInv' /\ FaultInv' /\ head' = head /\ SavedInv' /\ Aligned' = Aligned
  <2>1. accepted' \in 0..3 /\ accepted <= accepted'
    BY <1>1, <1>2 DEF PostedInv
  <2>2. QED
    BY <1>2, <2>1, MonitorFrame
<1>4. pc \notin AfterTwo /\ pc # "done"
  BY <1>2 DEF Waits, AfterTwo
<1>5. PlaceInv' /\ StreamInv' /\ BoundInv'
  BY <1>1, <1>2, <1>3, <1>4 DEF PlaceInv, Results, StreamInv, BoundInv
<1>6. FirstInv' /\ SecondInv' /\ LoopInv'
  BY <1>1, <1>2, <1>3, <1>4 DEF FirstInv, SecondInv, LoopInv, AfterTwo
<1>7. RejectedForCause'
  <2>1. ASSUME fault = NoFault, Aligned PROVE SlotsConsistent
    <3>1. \A s \in Streams : Item(s) = next[s]
      BY <2>1, StreamsAre, Faultless DEF Item
    <3>2. /\ Item("fin") = next["fin"] /\ Item("fin_children") = next["fin_children"]
          /\ Item("head") = next["head"] /\ Item("head_children") = next["head_children"]
      BY <3>1, StreamsAre
    <3>3. InSequence /\ PairsMatch
      BY <1>1, <2>1, <3>2 DEF InSequence, PairsMatch, StreamInv, Aligned
    <3>4. prev # NoSlot => next["fin"] = prev
      <4>1. next["fin"] \in Int /\ prev \in Int
        BY <1>1, StreamsAre DEF StreamInv
      <4>2. QED
        BY <1>1, <2>1, <4>1 DEF StreamInv, Aligned
    <3>5. Notified(prev) = ledger[prev]
      BY <2>1, Faultless DEF Notified
    <3>6. FinalizedMatchesPrev
      BY <3>2, <3>4, <3>5 DEF FinalizedMatchesPrev
    <3>7. QED
      BY <3>3, <3>6 DEF SlotsConsistent
  <2>2. QED
    BY <1>2, <1>3, <2>1 DEF RejectedForCause
<1>8. QED
  BY <1>3, <1>5, <1>6, <1>7 DEF Inv
-----------------------------------------------------------------------------
\* The slot that the monitor takes is the one after the last that it took, or the first
\* one after its subscription: a stream that skips a slot is not in step with the others.
LEMMA TakenSlot ==
    ASSUME Inv, result = "running", pc \in Waits, SlotsReady, SlotsConsistent
    PROVE  /\ Item("head_children") = IF prev = NoSlot THEN next["head_children"] ELSE prev + 1
           /\ Item("head") = Item("head_children") /\ Item("fin") = Item("fin_children")
           /\ Item("head_children") \in 2..head
           /\ \A s \in Streams : Item(s) \in Int /\ NoSlot <= Item(s) /\ Item(s) <= head
<1>1. LedgerInv /\ StreamInv
  BY DEF Inv
<1>2. head \in Nat \ {0} /\ fin \in 0..head - 1 /\ prev \in Int /\ next \in [Streams -> Int]
  BY <1>1 DEF LedgerInv, StreamInv
<1>3. pc \notin Unsubscribed
  BY DEF Waits, Unsubscribed
<1>4. Item("head") = Item("head_children") /\ Item("fin") = Item("fin_children")
      /\ (prev # NoSlot => Item("head_children") = prev + 1)
  BY DEF SlotsConsistent, PairsMatch, InSequence
<1>5. ASSUME NEW s \in Streams
      PROVE  Item(s) \in Int /\ NoSlot <= Item(s) /\ Item(s) <= head
  <2>1. next[s] \in Int /\ NoSlot <= next[s]
    BY <1>1, <1>2 DEF StreamInv
  <2>2. Item(s) \in {next[s], next[s] + 1}
    BY DEF Item
  <2>3. Item(s) <= fin \/ Item(s) <= head
    BY DEF SlotsReady, Available
  <2>4. QED
    BY <1>2, <2>1, <2>2, <2>3 DEF NoSlot
<1>6. CASE prev = NoSlot
  <2>1. next["head"] <= next["head_children"] /\ next["head_children"] >= 2
        /\ next["head"] \in Int /\ next["head_children"] \in Int
    BY <1>1, <1>2, <1>3, <1>6, StreamsAre DEF StreamInv
  <2>2. Item("head_children") = next["head_children"]
    <3> SUFFICES ASSUME Faulty("head_children", next["head_children"]) PROVE FALSE
      BY DEF Item
    <3>1. Item("head_children") = next["head_children"] + 1
      BY DEF Item
    <3>2. ~Faulty("head", next["head"])
      BY OneFault
    <3>3. Item("head") = next["head"]
      BY <3>2 DEF Item
    <3>4. QED
      BY <1>4, <2>1, <3>1, <3>3
  <2>3. QED
    BY <1>4, <1>5, <1>6, <2>1, <2>2, StreamsAre
<1>7. CASE prev # NoSlot
  <2>1. 1 <= prev
    BY <1>1, <1>7 DEF StreamInv
  <2>2. QED
    BY <1>2, <1>4, <1>5, <1>7, <2>1, StreamsAre
<1>8. QED
  BY <1>6, <1>7

\* What a step of a wait has in common with one of the other.
LEMMA TakeStep ==
    ASSUME Inv, result = "running", pc \in Waits, SlotsReady, SlotsConsistent, TakeSlots,
           accepted' = accepted,
           first_subscribed' = IF pc = "first_wait" /\ waited = 0 THEN Item("head")
                                                                  ELSE first_subscribed
    PROVE  /\ LedgerInv' /\ PostedInv' /\ FaultInv' /\ SavedInv' /\ head' = head
           /\ ledger' = ledger /\ fault' = fault
           /\ prev' = Item("head_children") /\ prev' \in 2..head
           /\ prev' = IF prev = NoSlot THEN next["head_children"] ELSE prev + 1
           /\ next' \in [Streams -> Int]
           /\ \A s \in Streams : next'[s] = Item(s) + 1 /\ NoSlot <= next'[s] /\ next'[s] <= head + 1
           /\ next'["head"] = prev' + 1 /\ next'["head_children"] = prev' + 1
           /\ next'["fin"] = next'["fin_children"]
<1>1. /\ LedgerInv /\ PostedInv /\ PlaceInv /\ StreamInv /\ FaultInv /\ SavedInv
  BY DEF Inv
<1> DEFINE n == Item("head_children")
<1>2. /\ n = (IF prev = NoSlot THEN next["head_children"] ELSE prev + 1)
      /\ Item("head") = n /\ Item("fin") = Item("fin_children") /\ n \in 2..head
      /\ \A s \in Streams : Item(s) \in Int /\ NoSlot <= Item(s) /\ Item(s) <= head
  BY TakenSlot
<1>3. /\ next' = [s \in Streams |-> Item(s) + 1] /\ prev' = n /\ snaps' = Save(n, Notified(n))
      /\ ledger' = ledger /\ fin' = fin /\ fault' = fault
  BY DEF TakeSlots
<1> HIDE DEF n
<1>4. LedgerInv' /\ PostedInv' /\ head' = head
  <2>1. accepted' \in 0..3 /\ accepted <= accepted' /\ fin' \in 0..head - 1
    BY <1>1, <1>3 DEF PostedInv, LedgerInv
  <2>2. QED
    BY <1>1, <1>3, <2>1, LedgerFrame
<1>5. FaultInv'
  BY <1>1, <1>3 DEF FaultInv
<1>6. head \in Nat
  BY <1>1 DEF LedgerInv
<1>7. /\ next' \in [Streams -> Int]
      /\ \A s \in Streams : next'[s] = Item(s) + 1 /\ NoSlot <= next'[s] /\ next'[s] <= head + 1
  <2>1. \A s \in Streams : Item(s) + 1 \in Int /\ NoSlot <= Item(s) + 1 /\ Item(s) + 1 <= head + 1
    BY <1>2, <1>6 DEF NoSlot
  <2>2. QED
    BY <1>3, <2>1
<1>8. next'["head"] = prev' + 1 /\ next'["head_children"] = prev' + 1
      /\ next'["fin"] = next'["fin_children"]
  BY <1>2, <1>3, <1>7, StreamsAre DEF n
<1>9. SavedInv'
  <2>1. DOMAIN snaps' = DOMAIN snaps \cup {n} /\ snaps'[n] = Notified(n)
        /\ \A m \in DOMAIN snaps : m # n => snaps'[m] = snaps[m]
    BY <1>3 DEF Save
  <2>2. \A m : Notified(m)' = Notified(m)
    BY <1>3 DEF Notified, Faulty
  <2>3. DOMAIN snaps' \subseteq 0..head'
    BY <1>1, <1>2, <1>4, <1>6, <2>1 DEF SavedInv
  <2>4. first_subscribed \in 0..head /\ first_subscribed' \in 0..head'
    BY <1>1, <1>2, <1>4, <1>6 DEF SavedInv
  <2>5. ASSUME NEW m \in first_subscribed'..n PROVE m \in DOMAIN snaps' /\ snaps'[m] = Notified(m)
    <3>1. CASE m = n
      BY <2>1, <3>1
    <3>2. CASE m # n /\ prev = NoSlot
      <4>1. pc = "first_wait" /\ waited = 0
        BY <1>1, <3>2 DEF StreamInv, Waits, AfterOne
      <4>2. first_subscribed' = n
        BY <1>2, <4>1
      <4>3. QED
        BY <1>2, <1>6, <3>2, <4>2
    <3>3. CASE m # n /\ prev # NoSlot
      <4>1. ~(pc = "first_wait" /\ waited = 0)
        BY <1>1, <3>3 DEF StreamInv
      <4>2. first_subscribed' = first_subscribed /\ n = prev + 1 /\ prev \in Int
        BY <1>1, <1>2, <3>3, <4>1 DEF StreamInv
      <4>3. m \in first_subscribed..prev
        BY <1>6, <2>4, <3>3, <4>2
      <4>4. QED
        BY <1>1, <2>1, <3>3, <4>3 DEF SavedInv
    <3>4. QED
      BY <3>1, <3>2, <3>3
  <2>6. QED
    BY <1>3, <2>2, <2>3, <2>4, <2>5 DEF SavedInv
<1>10. QED
  BY <1>2, <1>3, <1>4, <1>5, <1>7, <1>8, <1>9 DEF n

\* The first transaction of a slot.
LEMMA FirstOf ==
    ASSUME NEW slot, IsSlot(slot), slot # <<>>, slot[1] # <<>>
    PROVE  1 \in DOMAIN slot /\ 1 \in DOMAIN slot[1] /\ slot[1][1] \in 0..2
           /\ Carries(slot, slot[1][1])
<1>1. slot \in Seq(Seq(0..2)) /\ 1 \in DOMAIN slot
  BY DEF IsSlot
<1>2. slot[1] \in Seq(0..2)
  BY <1>1
<1>3. 1 \in DOMAIN slot[1] /\ slot[1][1] \in 0..2
  BY <1>2
<1>4. QED
  BY <1>1, <1>3 DEF Carries

\* No slot carries what has not been sent.
LEMMA CarriedWasSent ==
    ASSUME LedgerInv, PostedInv, NEW n \in 0..head, NEW tx \in 0..2, Carries(ledger[n], tx)
    PROVE  tx < accepted
<1>1. head \in Nat /\ tx \in PostedBy(head)
  BY PostedWhere DEF LedgerInv
<1>2. Posted \in 0..accepted /\ PostedBy(head) = 0..Posted - 1 /\ accepted \in 0..3
  BY PostedCount DEF PostedInv
<1>3. QED
  BY <1>1, <1>2
-----------------------------------------------------------------------------
\* The first wait ends with the batch of the creation, or without one; only a fault makes
\* it see another transaction first.
LEMMA FirstWaitStep ==
    ASSUME Inv, result = "running", FirstWait
    PROVE  Inv'
<1> DEFINE n     == Item("head_children")
           slot  == Notified(n)
           found == slot # <<>> /\ slot[1] # <<>>
<1>1. /\ LedgerInv /\ PostedInv /\ PlaceInv /\ StreamInv /\ BoundInv /\ FaultInv
      /\ FirstInv /\ SecondInv /\ SavedInv /\ LoopInv
  BY DEF Inv
<1>2. /\ pc = "first_wait" /\ pc \in Waits /\ SlotsReady /\ SlotsConsistent /\ TakeSlots
      /\ first_subscribed' = (IF waited = 0 THEN Item("head") ELSE first_subscribed)
      /\ accepted' = accepted /\ second_non_empty' = second_non_empty /\ slotnum' = slotnum
  BY DEF FirstWait, Waits
<1>3. /\ first_non_empty' = (IF found THEN Item("head") ELSE first_non_empty)
      /\ waited' = Count(found)
      /\ \/ found /\ slot[1][1] = Create /\ pc' = "mint" /\ result' = result
         \/ found /\ slot[1][1] # Create /\ pc' = pc /\ result' = "rejected"
         \/ ~found /\ pc' = (IF Last(found) THEN "mint" ELSE pc) /\ result' = result
  BY DEF FirstWait, Assert, Goto, Reject
<1> HIDE DEF found, slot
<1>4. found \in BOOLEAN
  BY DEF found
<1>5. /\ LedgerInv' /\ PostedInv' /\ FaultInv' /\ SavedInv' /\ head' = head
      /\ ledger' = ledger /\ fault' = fault
      /\ prev' = n /\ prev' \in 2..head
      /\ prev' = (IF prev = NoSlot THEN next["head_children"] ELSE prev + 1)
      /\ next' \in [Streams -> Int]
      /\ \A s \in Streams : NoSlot <= next'[s] /\ next'[s] <= head + 1
      /\ next'["head"] = prev' + 1 /\ next'["head_children"] = prev' + 1
      /\ next'["fin"] = next'["fin_children"] /\ Item("head") = n
  BY <1>2, TakeStep, TakenSlot
<1> HIDE DEF n
<1>6. /\ accepted = 1 /\ first_non_empty = 0 /\ second_non_empty = 0 /\ slotnum = 0
      /\ head \in Nat /\ n \in 2..head /\ waited \in 0..WaitSlots - 1
      /\ WaitSlots \in Nat \ {0} /\ MaxAhead \in Nat \ {0}
  <2>1. waited \in Nat /\ waited <= WaitSlots - 1 /\ accepted = 1 /\ head \in Nat
    BY <1>1, <1>2 DEF PlaceInv, LedgerInv, Waits
  <2>2. WaitSlots \in Nat \ {0} /\ MaxAhead \in Nat \ {0}
    BY SlotMonitorConstants
  <2>3. first_non_empty = 0 /\ second_non_empty = 0 /\ slotnum = 0
    BY <1>1, <1>2 DEF FirstInv, SecondInv, LoopInv, AfterOne, AfterTwo
  <2>4. QED
    BY <1>5, <2>1, <2>2, <2>3
<1>7. /\ waited' = 0 \/ (waited' = waited + 1 /\ waited + 1 <= WaitSlots - 1)
      /\ pc' = "mint" => waited' = 0
      /\ pc' = "first_wait" /\ result' = "running" => ~found /\ waited' = waited + 1
      /\ pc' \in {"first_wait", "mint"} /\ result' \in {"running", "rejected"}
  <2>1. Last(found) => waited' = 0
    BY <1>3 DEF Count
  <2>2. ~Last(found) => ~found /\ waited' = waited + 1 /\ waited + 1 # WaitSlots
    BY <1>3 DEF Count, Last
  <2>3. waited + 1 # WaitSlots => waited + 1 <= WaitSlots - 1
    BY <1>6
  <2>4. found => Last(found)
    BY DEF Last
  <2>5. QED
    BY <1>2, <1>3, <2>1, <2>2, <2>3, <2>4
<1>8. PlaceInv'
  <2>1. waited' \in Nat /\ waited' <= WaitSlots - 1
    BY <1>6, <1>7
  <2>2. QED
    BY <1>2, <1>6, <1>7, <2>1
    DEF PlaceInv, Labels, Results, Unsubscribed, Waits, AfterTwo
<1>9. StreamInv'
  <2>1. prev' # NoSlot /\ 1 <= prev' /\ prev' <= head' /\ prev' \in Int
        /\ next'["head_children"] >= 2
    BY <1>5, <1>6 DEF NoSlot
  <2>2. pc' = "first_wait" /\ result' = "running" => waited' # 0
    BY <1>6, <1>7
  <2>3. QED
    BY <1>5, <1>7, <2>1, <2>2 DEF StreamInv, Unsubscribed
<1>10. BoundInv'
  <2>1. n <= MaxAhead + waited + 1 /\ head <= n + MaxAhead
    <3>1. CASE prev = NoSlot
      <4>1. /\ waited = 0 /\ n = next["head_children"] /\ next["head_children"] <= MaxAhead + 1
            /\ head <= next["head_children"] - 1 + MaxAhead
        BY <1>1, <1>2, <1>5, <3>1 DEF StreamInv, BoundInv, Unsubscribed
      <4>2. QED
        BY <1>6, <4>1
    <3>2. CASE prev # NoSlot
      <4>1. prev \in Int /\ n = prev + 1 /\ prev <= MaxAhead + waited /\ head <= prev + MaxAhead
        BY <1>1, <1>2, <1>5, <3>2 DEF StreamInv, BoundInv
      <4>2. QED
        BY <1>6, <4>1
    <3>3. QED
      BY <3>1, <3>2
  <2>2. n <= MaxAhead + WaitSlots /\ n <= MaxAhead + 2 * WaitSlots
    BY <1>6, <2>1
  <2>3. waited' = waited + 1 => n <= MaxAhead + waited'
    BY <1>6, <2>1
  <2>4. waited' = 0 => n <= MaxAhead + WaitSlots + waited'
    BY <1>6, <2>2
  <2>5. prev' # NoSlot /\ pc' \notin Unsubscribed
    BY <1>5, <1>7 DEF NoSlot, Unsubscribed
  <2>6. QED
    BY <1>5, <1>7, <2>1, <2>2, <2>3, <2>4, <2>5 DEF BoundInv
<1>11. FirstInv'
  <2>1. first_non_empty' \in 0..head /\ (first_non_empty' = 0 \/ first_non_empty' = n)
        /\ first_non_empty' <= n /\ (~found => first_non_empty' = 0)
    BY <1>3, <1>5, <1>6
  <2>2. ASSUME found, slot[1][1] = Create
        PROVE  Carries(ledger[n], Create) /\ ~Carries(ledger[n], Mint) /\ ~Carries(ledger[n], Transfer)
    <3>1. slot = ledger[n]
      <4>1. slot = ledger[n] \/ slot = <<<<9>>>> \/ slot = <<>>
        BY DEF slot, Notified, OtherBatches
      <4>2. slot # <<>>
        BY <2>2 DEF found
      <4>3. <<<<9>>>>[1][1] = 9
        OBVIOUS
      <4>4. QED
        BY <2>2, <4>1, <4>2, <4>3 DEF Create
    <3>2. IsSlot(ledger[n]) /\ n \in 0..head
      BY <1>1, <1>6 DEF LedgerInv
    <3>3. Carries(ledger[n], Create)
      BY <2>2, <3>1, <3>2, FirstOf DEF found
    <3>4. ~Carries(ledger[n], 1) /\ ~Carries(ledger[n], 2)
      BY <1>1, <1>6, <3>2, CarriedWasSent
    <3>5. QED
      BY <3>3, <3>4 DEF Mint, Transfer
  <2>3. pc' \in AfterOne => ~found \/ (found /\ slot[1][1] = Create)
    BY <1>2, <1>3 DEF AfterOne
  <2>4. pc' \notin AfterOne /\ result' = "running" => ~found
    BY <1>7 DEF AfterOne
  <2>5. QED
    BY <1>5, <2>1, <2>2, <2>3, <2>4 DEF FirstInv
<1>12. SecondInv' /\ LoopInv'
  <2>1. pc' \notin AfterTwo
    BY <1>7 DEF AfterTwo
  <2>2. 0 \in 0..head' /\ 0 \in Nat
    BY <1>5, <1>6
  <2>3. QED
    BY <1>2, <1>6, <2>1, <2>2 DEF SecondInv, LoopInv, AfterTwo
<1>13. RejectedForCause'
  <2>1. ASSUME found, fault = NoFault PROVE slot[1][1] = Create
    <3>1. slot = ledger[n]
      BY <2>1, Faultless DEF slot, Notified
    <3>2. IsSlot(ledger[n]) /\ n \in 0..head
      BY <1>1, <1>6 DEF LedgerInv
    <3>3. slot[1][1] \in 0..2 /\ Carries(ledger[n], slot[1][1])
      BY <2>1, <3>1, <3>2, FirstOf DEF found
    <3>4. slot[1][1] < 1
      BY <1>1, <1>6, <3>2, <3>3, CarriedWasSent
    <3>5. QED
      BY <3>3, <3>4 DEF Create
  <2>2. result' = "rejected" => fault # NoFault
    BY <1>3, <2>1
  <2>3. QED
    BY <1>5, <2>2 DEF RejectedForCause
<1>14. QED
  BY <1>5, <1>8, <1>9, <1>10, <1>11, <1>12, <1>13 DEF Inv
\* The second wait finds the transfer in the slot that the head streams had before: the
\* streams are aligned when it does.
LEMMA SecondWaitStep ==
    ASSUME Inv, result = "running", SecondWait
    PROVE  Inv'
<1> DEFINE n     == Item("head_children")
           slot  == ledger[Item("fin_children")]
           found == slot # <<>> /\ \E j \in DOMAIN slot[1] : slot[1][j] = Transfer
<1>1. /\ LedgerInv /\ PostedInv /\ PlaceInv /\ StreamInv /\ BoundInv /\ FaultInv
      /\ FirstInv /\ SecondInv /\ SavedInv /\ LoopInv
  BY DEF Inv
<1>2. /\ pc = "second_wait" /\ pc \in Waits /\ SlotsReady /\ SlotsConsistent /\ TakeSlots
      /\ first_subscribed' = first_subscribed /\ first_non_empty' = first_non_empty
      /\ accepted' = accepted /\ slotnum' = slotnum /\ result' = result
  BY DEF SecondWait, Waits, Goto
<1>3. /\ second_non_empty' = (IF found THEN Item("fin_children") ELSE second_non_empty)
      /\ waited' = Count(found)
      /\ pc' = (IF Last(found) THEN "fetching" ELSE pc)
  BY DEF SecondWait, Goto
<1> HIDE DEF found, slot
<1>4. found \in BOOLEAN
  BY DEF found
<1>5. /\ LedgerInv' /\ PostedInv' /\ FaultInv' /\ SavedInv' /\ head' = head
      /\ ledger' = ledger /\ fault' = fault
      /\ prev' = n /\ prev' \in 2..head
      /\ prev' = (IF prev = NoSlot THEN next["head_children"] ELSE prev + 1)
      /\ next' \in [Streams -> Int]
      /\ \A s \in Streams : next'[s] = Item(s) + 1 /\ NoSlot <= next'[s] /\ next'[s] <= head + 1
      /\ next'["head"] = prev' + 1 /\ next'["head_children"] = prev' + 1
      /\ next'["fin"] = next'["fin_children"] /\ Item("fin") = Item("fin_children")
  BY <1>2, TakeStep, TakenSlot
<1> HIDE DEF n
<1>6. /\ accepted = 3 /\ second_non_empty = 0 /\ slotnum = 0
      /\ head \in Nat /\ n \in 2..head /\ waited \in 0..WaitSlots - 1
      /\ WaitSlots \in Nat \ {0} /\ MaxAhead \in Nat \ {0}
      /\ prev # NoSlot /\ prev \in 1..head /\ n = prev + 1
  <2>1. waited \in Nat /\ waited <= WaitSlots - 1 /\ accepted = 3 /\ head \in Nat
    BY <1>1, <1>2 DEF PlaceInv, LedgerInv, Waits
  <2>2. WaitSlots \in Nat \ {0} /\ MaxAhead \in Nat \ {0}
    BY SlotMonitorConstants
  <2>3. second_non_empty = 0 /\ slotnum = 0
    BY <1>1, <1>2 DEF SecondInv, LoopInv, AfterTwo
  <2>4. prev # NoSlot /\ prev \in Int /\ 1 <= prev /\ prev <= head
    BY <1>1, <1>2 DEF StreamInv, AfterOne
  <2>5. QED
    BY <1>5, <2>1, <2>2, <2>3, <2>4
<1>7. \/ pc' = "second_wait" /\ ~found /\ waited' = waited + 1 /\ waited + 1 <= WaitSlots - 1
      \/ pc' = "fetching" /\ waited' = 0
  <2>1. Last(found) => waited' = 0 /\ pc' = "fetching"
    BY <1>3 DEF Count
  <2>2. ~Last(found) => ~found /\ waited' = waited + 1 /\ waited + 1 # WaitSlots /\ pc' = pc
    BY <1>3 DEF Count, Last
  <2>3. waited + 1 # WaitSlots => waited + 1 <= WaitSlots - 1
    BY <1>6
  <2>4. QED
    BY <1>2, <2>1, <2>2, <2>3
<1>8. PlaceInv'
  <2>1. waited' \in Nat
    BY <1>6, <1>7
  <2>2. QED
    BY <1>2, <1>6, <1>7, <2>1
    DEF PlaceInv, Labels, Results, Unsubscribed, Waits, AfterTwo
<1>9. StreamInv'
  <2>1. prev' # NoSlot /\ 1 <= prev' /\ prev' <= head' /\ prev' \in Int
        /\ next'["head_children"] >= 2
    BY <1>5, <1>6 DEF NoSlot
  <2>2. pc' # "first_wait" /\ pc' \notin Unsubscribed \cup {"create"}
    BY <1>7 DEF Unsubscribed
  <2>3. QED
    BY <1>5, <2>1, <2>2 DEF StreamInv
<1>10. BoundInv'
  <2>1. prev <= MaxAhead + WaitSlots + waited /\ head <= prev + MaxAhead
    BY <1>1, <1>2, <1>6 DEF BoundInv
  <2>2. n <= MaxAhead + 2 * WaitSlots /\ head <= n + MaxAhead
    BY <1>6, <2>1
  <2>3. waited' = waited + 1 => n <= MaxAhead + WaitSlots + waited'
    BY <1>6, <2>1
  <2>4. prev' # NoSlot /\ pc' \notin Unsubscribed
    BY <1>5, <1>7 DEF NoSlot, Unsubscribed
  <2>5. QED
    BY <1>5, <1>7, <2>2, <2>3, <2>4 DEF BoundInv
<1>11. FirstInv'
  <2>1. first_non_empty \in 0..head /\ first_non_empty <= prev /\ pc \in AfterOne
    BY <1>1, <1>2 DEF FirstInv, AfterOne
  <2>2. first_non_empty <= n
    BY <1>6, <2>1
  <2>3. pc' \in AfterOne
    BY <1>7 DEF AfterOne
  <2>4. QED
    BY <1>1, <1>2, <1>5, <2>1, <2>2, <2>3 DEF FirstInv
<1>12. SecondInv'
  <2>1. CASE found
    <3>1. Item("fin_children") = prev
      BY <1>2, <1>5, <1>6, <2>1 DEF SlotsConsistent, FinalizedMatchesPrev, found, slot
    <3>2. second_non_empty' = prev /\ prev < prev' /\ prev \in 0..head' /\ pc' \in AfterTwo
      BY <1>3, <1>5, <1>6, <2>1, <3>1 DEF Last, AfterTwo
    <3>3. Carries(ledger[prev], Transfer)
      <4>1. IsSlot(ledger[prev]) /\ slot = ledger[prev]
        BY <1>1, <1>6, <3>1 DEF LedgerInv, slot
      <4>2. 1 \in DOMAIN slot
        BY <2>1, <4>1 DEF IsSlot, found
      <4>3. QED
        BY <2>1, <4>1, <4>2 DEF Carries, found
    <3>4. Aligned'
      <4>1. next'["fin"] = prev + 1
        BY <1>5, <3>1, StreamsAre
      <4>2. next'["head"] = next'["fin"] + 1
        BY <1>5, <1>6, <4>1
      <4>3. QED
        BY <1>5, <4>2 DEF Aligned
    <3>5. QED
      BY <1>5, <3>2, <3>3, <3>4 DEF SecondInv
  <2>2. CASE ~found
    <3>1. 0 \in 0..head'
      BY <1>5, <1>6
    <3>2. QED
      BY <1>3, <1>6, <2>2, <3>1 DEF SecondInv
  <2>3. QED
    BY <2>1, <2>2
<1>13. LoopInv'
  <2>1. 0 \in Nat /\ 0 <= prev' /\ 0 <= prev' + 1 /\ \A k : k \notin 0..0 - 1
    BY <1>5
  <2>2. Fetched(slotnum)'
    BY <1>2, <1>6, <2>1 DEF Fetched
  <2>3. pc' \notin {"archive", "done"}
    BY <1>7
  <2>4. QED
    BY <1>2, <1>6, <2>1, <2>2, <2>3 DEF LoopInv
<1>14. RejectedForCause'
  BY <1>2 DEF RejectedForCause
<1>15. QED
  BY <1>5, <1>8, <1>9, <1>10, <1>11, <1>12, <1>13, <1>14 DEF Inv

-----------------------------------------------------------------------------
\* A slot that is fetched is saved before the subscription, and compared after it; it
\* differs from what the monitor has saved only by a fault.
LEMMA FetchSlotStep ==
    ASSUME Inv, result = "running", FetchSlot
    PROVE  Inv'
<1> DEFINE before == slotnum < first_subscribed
           last   == slotnum = prev
           same   == before \/ (slotnum \in DOMAIN snaps /\ snaps[slotnum] = ledger[slotnum])
<1>1. /\ LedgerInv /\ PostedInv /\ PlaceInv /\ StreamInv /\ BoundInv /\ FaultInv
      /\ FirstInv /\ SecondInv /\ SavedInv /\ LoopInv
  BY DEF Inv
<1>2. /\ pc = "fetching" /\ ledger' = ledger /\ fin' = fin /\ next' = next /\ prev' = prev
      /\ fault' = fault /\ accepted' = accepted /\ waited' = waited
      /\ first_subscribed' = first_subscribed /\ first_non_empty' = first_non_empty
      /\ second_non_empty' = second_non_empty
      /\ snaps' = (IF before /\ ViewsAgree(slotnum) THEN Save(slotnum, ledger[slotnum]) ELSE snaps)
      /\ slotnum' = (IF last THEN 0 ELSE slotnum + 1)
      /\ \/ ViewsAgree(slotnum) /\ same /\ pc' = (IF last THEN "archive" ELSE pc)
            /\ result' = result
         \/ ~(ViewsAgree(slotnum) /\ same) /\ result' = "rejected" /\ pc' = pc
  BY DEF FetchSlot, Assert, Goto, Reject
<1>3. /\ head \in Nat /\ prev \in 1..head /\ slotnum \in 0..prev /\ Fetched(slotnum)
      /\ first_subscribed \in 0..head /\ prev # NoSlot
      /\ \A n \in first_subscribed..prev : n \in DOMAIN snaps /\ snaps[n] = Notified(n)
  <2>1. prev # NoSlot /\ prev \in Int /\ 1 <= prev /\ prev <= head
    BY <1>1, <1>2 DEF StreamInv, AfterOne
  <2>2. slotnum \in Nat /\ slotnum <= prev /\ Fetched(slotnum) /\ head \in Nat
    BY <1>1, <1>2 DEF LoopInv, LedgerInv
  <2>3. QED
    BY <1>1, <2>1, <2>2 DEF SavedInv
<1>4. /\ DOMAIN snaps' \subseteq DOMAIN snaps \cup {slotnum} /\ DOMAIN snaps \subseteq DOMAIN snaps'
      /\ \A n \in DOMAIN snaps : n # slotnum => snaps'[n] = snaps[n]
      /\ before /\ ViewsAgree(slotnum) => slotnum \in DOMAIN snaps' /\ snaps'[slotnum] = ledger[slotnum]
      /\ ~before => snaps' = snaps
  BY <1>2 DEF Save
<1>5. LedgerInv' /\ PostedInv' /\ head' = head
  <2>1. accepted' \in 0..3 /\ accepted <= accepted' /\ fin' \in 0..head - 1
    BY <1>1, <1>2 DEF PostedInv, LedgerInv
  <2>2. QED
    BY <1>1, <1>2, <2>1, LedgerFrame
<1>6. /\ pc' \in {"fetching", "archive"}
      /\ pc' = "archive" => last /\ ViewsAgree(slotnum) /\ same /\ result' = "running"
      /\ pc' = "fetching" /\ result' = "running" => ~last /\ ViewsAgree(slotnum) /\ same
      /\ result' \in {"running", "rejected"}
  BY <1>2
<1>7. PlaceInv'
  BY <1>1, <1>2, <1>6 DEF PlaceInv, Labels, Results, Unsubscribed, Waits, AfterTwo
<1>8. StreamInv'
  BY <1>1, <1>2, <1>3, <1>5, <1>6 DEF StreamInv, Unsubscribed
<1>9. BoundInv'
  BY <1>1, <1>2, <1>3, <1>5, <1>6 DEF BoundInv, Unsubscribed
<1>10. FaultInv'
  BY <1>1, <1>2 DEF FaultInv
<1>11. FirstInv' /\ SecondInv'
  <2>1. pc \in AfterOne /\ pc' \in AfterOne /\ pc' \in AfterTwo
    BY <1>2, <1>6 DEF AfterOne, AfterTwo
  <2>2. Aligned' = Aligned
    BY <1>2 DEF Aligned
  <2>3. QED
    BY <1>1, <1>2, <1>5, <2>1, <2>2 DEF FirstInv, SecondInv
<1>12. SavedInv'
  <2>1. DOMAIN snaps' \subseteq 0..head'
    BY <1>1, <1>3, <1>4, <1>5 DEF SavedInv
  <2>2. \A n : Notified(n)' = Notified(n)
    BY <1>2 DEF Notified, Faulty
  <2>3. ASSUME NEW n \in first_subscribed..prev
        PROVE  n \in DOMAIN snaps' /\ snaps'[n] = Notified(n)
    <3>1. n \in DOMAIN snaps /\ snaps[n] = Notified(n)
      BY <1>3
    <3>2. before => n # slotnum
      BY <1>3
    <3>3. QED
      BY <1>4, <3>1, <3>2
  <2>4. QED
    BY <1>2, <1>3, <1>5, <2>1, <2>2, <2>3 DEF SavedInv
<1>13. ASSUME ViewsAgree(slotnum), same
       PROVE  \A n \in 0..slotnum : n \in DOMAIN snaps' /\ snaps'[n] = ledger'[n] /\ ViewsAgree(n)'
  <2>1. slotnum \in DOMAIN snaps' /\ snaps'[slotnum] = ledger[slotnum]
    BY <1>4, <1>13
  <2>2. \A n \in 0..slotnum : n = slotnum \/ n \in 0..slotnum - 1
    BY <1>3
  <2>3. \A n \in 0..slotnum - 1 : n # slotnum /\ n \in DOMAIN snaps /\ snaps[n] = ledger[n]
                                    /\ ViewsAgree(n)
    BY <1>3 DEF Fetched
  <2>4. \A n \in 0..slotnum : n \in DOMAIN snaps' /\ snaps'[n] = ledger[n] /\ ViewsAgree(n)
    BY <1>4, <1>13, <2>1, <2>2, <2>3
  <2>5. \A n : ViewsAgree(n)' = ViewsAgree(n)
    BY <1>2 DEF ViewsAgree, Faulty
  <2>6. QED
    BY <1>2, <2>4, <2>5
<1>14. LoopInv'
  <2>1. /\ \A m \in Nat : (m + 1) - 1 = m /\ m + 1 \in Nat
        /\ \A k : k \notin 0..0 - 1
    OBVIOUS
  <2>2. /\ slotnum \in Nat /\ prev \in Nat
        /\ slotnum + 1 \in Nat /\ slotnum + 1 <= prev + 1 /\ 0 <= prev /\ 0 <= prev + 1
        /\ slotnum # prev => slotnum + 1 <= prev
    BY <1>3
  <2>3. CASE pc' = "archive"
    <3>1. slotnum = prev /\ slotnum' = 0 /\ result' = "running"
      BY <1>2, <1>6, <2>3
    <3>2. Fetched(prev + 1)'
      BY <1>2, <1>6, <1>13, <2>1, <2>2, <2>3, <3>1 DEF Fetched
    <3>3. Checked(slotnum)'
      BY <2>1, <3>1 DEF Checked
    <3>4. QED
      BY <1>2, <2>2, <2>3, <3>1, <3>2, <3>3 DEF LoopInv, AfterTwo
  <2>4. CASE pc' = "fetching" /\ result' = "running"
    <3>1. slotnum # prev /\ slotnum' = slotnum + 1
      BY <1>2, <1>6, <2>4
    <3>2. Fetched(slotnum)'
      BY <1>2, <1>6, <1>13, <2>1, <2>2, <2>4, <3>1 DEF Fetched
    <3>3. QED
      BY <1>2, <2>2, <2>4, <3>1, <3>2 DEF LoopInv, AfterTwo
  <2>5. CASE pc' = "fetching" /\ result' = "rejected"
    BY <1>2, <2>2, <2>5 DEF LoopInv, AfterTwo
  <2>6. QED
    BY <1>6, <2>3, <2>4, <2>5
<1>15. RejectedForCause'
  <2>1. ASSUME fault = NoFault PROVE ViewsAgree(slotnum) /\ same
    <3>1. ViewsAgree(slotnum)
      BY <2>1, Faultless DEF ViewsAgree
    <3>2. \A n : Notified(n) = ledger[n]
      BY <2>1, Faultless DEF Notified
    <3>3. before \/ slotnum \in first_subscribed..prev
      BY <1>3
    <3>4. QED
      BY <1>3, <3>1, <3>2, <3>3
  <2>2. result' = "rejected" => fault # NoFault
    BY <1>2, <2>1
  <2>3. QED
    BY <1>2, <2>2 DEF RejectedForCause
<1>16. QED
  BY <1>5, <1>7, <1>8, <1>9, <1>10, <1>11, <1>12, <1>14, <1>15 DEF Inv
-----------------------------------------------------------------------------
\* What the two batches say of the supply in a past state, when the mint is in the
\* transfer's.
LEMMA SupplyAsExpected ==
    ASSUME Inv, pc \in AfterTwo, first_non_empty # 0, second_non_empty # 0, PostedTogether,
           NEW n \in 0..prev
    PROVE  SupplyAfter(PostedBy(n)) = ExpectedSupply(n)
<1> DEFINE f == first_non_empty
           s == second_non_empty
<1>1. LedgerInv /\ PostedInv /\ StreamInv /\ FirstInv /\ SecondInv
  BY DEF Inv
<1>2. /\ head \in Nat /\ prev \in 0..head /\ n \in 0..head /\ n \in Nat
      /\ f \in 0..head /\ s \in 0..head
  <2>1. head \in Nat /\ prev # NoSlot /\ prev \in Int /\ 1 <= prev /\ prev <= head
    BY <1>1 DEF LedgerInv, StreamInv, AfterTwo, AfterOne
  <2>2. QED
    BY <1>1, <2>1 DEF FirstInv, SecondInv
<1>3. Carries(ledger[f], Create) /\ Carries(ledger[s], Transfer) /\ ~Carries(ledger[f], Transfer)
  BY <1>1 DEF FirstInv, SecondInv, AfterOne, AfterTwo
<1>4. Create \in 0..2 /\ Mint \in 0..2 /\ Transfer \in 0..2 /\ ~(Transfer < Create)
  BY DEF Create, Mint, Transfer
<1>5. f < s
  <2>1. f # s
    BY <1>3
  <2>2. ~(s < f)
    BY <1>1, <1>2, <1>3, <1>4 DEF PostedInv
  <2>3. QED
    BY <1>2, <2>1, <2>2
<1>6. SlotsWith(Mint) = {s}
  BY <1>1, <1>2, <1>3, <1>4, PostedOnce DEF PostedTogether
<1>7. Carries(ledger[s], Mint)
  <2>1. s \in SlotsWith(Mint)
    BY <1>6
  <2>2. QED
    BY <1>1, <1>4, <2>1, FoundWhere
<1>8. (Create \in PostedBy(n) <=> f <= n) /\ (Mint \in PostedBy(n) <=> s <= n)
  BY <1>1, <1>2, <1>3, <1>4, <1>7, PostedOnce
<1>9. f <= n <=> ~(n < f)
  BY <1>2
<1>10. s <= n <=> ~(n < s)
  BY <1>2
<1>11. n < f => n < s
  BY <1>2, <1>5
<1>12. SupplyAfter(PostedBy(n)) =
          (IF Create \in PostedBy(n) THEN 1000 ELSE 0) + (IF Mint \in PostedBy(n) THEN 800 ELSE 0)
  BY DEF SupplyAfter
<1>13. QED
  <2>1. CASE n < f
    BY <1>8, <1>9, <1>10, <1>11, <1>12, <2>1 DEF ExpectedSupply
  <2>2. CASE ~(n < f) /\ n < s
    BY <1>8, <1>9, <1>10, <1>12, <2>2 DEF ExpectedSupply
  <2>3. CASE ~(n < f) /\ ~(n < s)
    BY <1>8, <1>9, <1>10, <1>12, <2>3 DEF ExpectedSupply
  <2>4. QED
    BY <2>1, <2>2, <2>3

\* A state that answers for itself, and the batches seen, have the supply expected.
LEMMA CheckSupplyStep ==
    ASSUME Inv, result = "running", CheckSupply
    PROVE  Inv'
<1>1. /\ LedgerInv /\ PostedInv /\ PlaceInv /\ StreamInv /\ BoundInv /\ FaultInv
      /\ FirstInv /\ SecondInv /\ SavedInv /\ LoopInv
  BY DEF Inv
<1>2. /\ pc = "archive" /\ UNCHANGED monVars /\ ledger' = ledger /\ next' = next /\ prev' = prev
      /\ snaps' = snaps /\ fault' = fault /\ accepted' = accepted /\ waited' = waited
      /\ first_subscribed' = first_subscribed /\ first_non_empty' = first_non_empty
      /\ second_non_empty' = second_non_empty /\ slotnum' = slotnum + 1
      /\ \/ ArchivalSupply(slotnum) # ExpectedSupply(slotnum) /\ result' = "rejected" /\ pc' = pc
         \/ /\ ArchivalSupply(slotnum) = ExpectedSupply(slotnum)
            /\ \/ slotnum = prev /\ pc' = "done" /\ result' = "ok"
               \/ slotnum # prev /\ pc' = pc /\ result' = result
  BY DEF CheckSupply, monVars, Reject
<1>3. LedgerInv' /\ PostedInv' /\ FaultInv' /\ head' = head /\ SavedInv' /\ Aligned' = Aligned
  <2>1. accepted' \in 0..3 /\ accepted <= accepted'
    BY <1>1, <1>2 DEF PostedInv
  <2>2. QED
    BY <1>2, <2>1, MonitorFrame
<1>4. /\ prev # NoSlot /\ prev \in Nat /\ prev <= head /\ slotnum \in 0..prev
      /\ Fetched(prev + 1) /\ Checked(slotnum)
  <2>1. prev # NoSlot /\ prev \in Int /\ 1 <= prev /\ prev <= head
    BY <1>1, <1>2 DEF StreamInv, AfterOne
  <2>2. slotnum \in Nat /\ slotnum <= prev /\ Fetched(prev + 1) /\ Checked(slotnum)
    BY <1>1, <1>2 DEF LoopInv
  <2>3. QED
    BY <2>1, <2>2
<1>5. pc' \in {"archive", "done"} /\ result' \in {"running", "rejected", "ok"}
      /\ (result' = "ok" <=> pc' = "done")
  BY <1>2
<1>6. PlaceInv'
  BY <1>1, <1>2, <1>5 DEF PlaceInv, Labels, Results, Unsubscribed, Waits, AfterTwo
<1>7. StreamInv'
  BY <1>1, <1>2, <1>3, <1>4, <1>5 DEF StreamInv, Unsubscribed
<1>8. BoundInv'
  BY <1>1, <1>2, <1>3, <1>4, <1>5 DEF BoundInv, Unsubscribed
<1>9. FirstInv' /\ SecondInv'
  <2>1. pc \in AfterOne /\ pc' \in AfterOne /\ pc' \in AfterTwo
    BY <1>2, <1>5 DEF AfterOne, AfterTwo
  <2>2. QED
    BY <1>1, <1>2, <1>3, <2>1 DEF FirstInv, SecondInv
<1>10. LoopInv'
  <2>1. \A m \in Nat : (m + 1) - 1 = m /\ m + 1 \in Nat
    OBVIOUS
  <2>2. /\ slotnum \in Nat /\ slotnum + 1 \in Nat /\ slotnum + 1 <= prev + 1
        /\ slotnum # prev => slotnum + 1 <= prev
    BY <1>4
  <2>3. Fetched(prev + 1)'
    BY <1>2, <1>4 DEF Fetched, ViewsAgree, Faulty
  <2>4. ASSUME ArchivalSupply(slotnum) = ExpectedSupply(slotnum) PROVE Checked(slotnum)'
    <3>1. \A n \in 0..slotnum : n = slotnum \/ n \in 0..slotnum - 1
      BY <2>2
    <3>2. \A n \in 0..slotnum : ArchivalSupply(n) = ExpectedSupply(n)
      BY <1>4, <2>4, <3>1 DEF Checked
    <3>3. \A n : ArchivalSupply(n)' = ArchivalSupply(n) /\ ExpectedSupply(n)' = ExpectedSupply(n)
      BY <1>2, SupplyFrame DEF ArchivalSupply, ExpectedSupply, Faulty
    <3>4. \A n \in 0..slotnum' - 1 : n \in 0..slotnum
      BY <1>2, <2>1, <2>2
    <3>5. QED
      BY <3>2, <3>3, <3>4 DEF Checked
  <2>5. CASE result' = "rejected"
    BY <1>2, <1>4, <1>5, <2>2, <2>3, <2>5 DEF LoopInv, AfterTwo
  <2>6. CASE result' # "rejected"
    BY <1>2, <1>4, <1>5, <2>2, <2>3, <2>4, <2>6 DEF LoopInv, AfterTwo
  <2>7. QED
    BY <2>5, <2>6
<1>11. RejectedForCause'
  <2>1. ASSUME fault = NoFault, first_non_empty # 0, second_non_empty # 0, PostedTogether
        PROVE  ArchivalSupply(slotnum) = ExpectedSupply(slotnum)
    <3>1. ArchivalSupply(slotnum) = SupplyAfter(PostedBy(slotnum))
      BY <2>1, Faultless DEF ArchivalSupply
    <3>2. pc \in AfterTwo
      BY <1>2 DEF AfterTwo
    <3>3. QED
      BY <1>4, <2>1, <3>1, <3>2, SupplyAsExpected
  <2>2. PostedTogether' = PostedTogether
    BY <1>2, SupplyFrame
  <2>3. result' = "rejected" =>
            \/ fault # NoFault \/ first_non_empty = 0 \/ second_non_empty = 0 \/ ~PostedTogether
    BY <1>2, <2>1
  <2>4. QED
    BY <1>2, <1>5, <2>2, <2>3 DEF RejectedForCause
<1>12. QED
  BY <1>3, <1>6, <1>7, <1>8, <1>9, <1>10, <1>11 DEF Inv
-----------------------------------------------------------------------------
LEMMA InitInv ==
    ASSUME Init
    PROVE  Inv
<1>1. /\ ledger = [n \in 0..1 |-> <<>>] /\ fin = 0 /\ next = [s \in Streams |-> NoSlot]
      /\ prev = NoSlot /\ snaps = <<>> /\ fault = NoFault
      /\ pc = "waiting_ready" /\ accepted = 0 /\ waited = 0 /\ first_subscribed = 0
      /\ first_non_empty = 0 /\ second_non_empty = 0 /\ slotnum = 0 /\ result = "running"
  BY DEF Init, MonInit
<1>2. head = 1 /\ DOMAIN ledger = 0..1 /\ ledger[0] = <<>> /\ ledger[1] = <<>>
  <2>1. DOMAIN ledger = 0..1 /\ 0 \in 0..1 /\ 1 \in 0..1
    BY <1>1
  <2>2. head = 1
    BY <2>1, HeadOf DEF head
  <2>3. QED
    BY <1>1, <2>1, <2>2
<1>3. \A n \in 0..head : ledger[n] = <<>>
  BY <1>1, <1>2
<1>4. LedgerInv
  <2>1. IsSlot(<<>>)
    BY DEF IsSlot
  <2>2. 0 \in 0..1 - 1
    OBVIOUS
  <2>3. QED
    BY <1>1, <1>2, <1>3, <2>1, <2>2 DEF LedgerInv
<1>5. PostedInv
  <2>1. \A n \in 0..head : \A tx : ~Carries(ledger[n], tx)
    BY <1>3 DEF Carries
  <2>2. PostedBy(head) = {}
    <3>1. head \in Nat
      BY <1>2
    <3>2. \A tx \in 0..2 : tx \notin PostedBy(head)
      BY <2>1, <3>1, PostedWhere
    <3>3. PostedBy(head) \subseteq 0..2
      BY DEF PostedBy
    <3>4. QED
      BY <3>2, <3>3
  <2>3. 0 \in 0..accepted /\ 0..0 - 1 = {} /\ accepted \in 0..3
    BY <1>1
  <2>4. QED
    BY <2>1, <2>2, <2>3 DEF PostedInv
<1>6. PlaceInv
  BY <1>1 DEF PlaceInv, Labels, Results, Unsubscribed, Waits, AfterTwo
<1>7. StreamInv
  <2>1. NoSlot \in Int /\ NoSlot <= NoSlot /\ NoSlot <= head + 1
    BY <1>2 DEF NoSlot
  <2>2. "head_children" \in Streams
    BY StreamsAre
  <2>3. QED
    BY <1>1, <2>1, <2>2 DEF StreamInv, Unsubscribed, AfterOne
<1>8. BoundInv
  <2>1. 1 <= MaxAhead
    BY SlotMonitorConstants
  <2>2. QED
    BY <1>1, <1>2, <2>1 DEF BoundInv, Unsubscribed
<1>9. FaultInv
  BY <1>1 DEF FaultInv, Faults
<1>10. FirstInv /\ SecondInv
  BY <1>1, <1>2 DEF FirstInv, SecondInv, AfterOne, AfterTwo
<1>11. SavedInv
  BY <1>1, <1>2 DEF SavedInv
<1>12. LoopInv /\ RejectedForCause
  BY <1>1 DEF LoopInv, AfterTwo, RejectedForCause
<1>13. QED
  BY <1>4, <1>5, <1>6, <1>7, <1>8, <1>9, <1>10, <1>11, <1>12 DEF Inv

\* A setup that has ended does nothing more.
LEMMA NextInv ==
    ASSUME Inv, [Next]_vars
    PROVE  Inv'
<1>1. CASE UNCHANGED vars
  <2>1. /\ ledger' = ledger /\ fin' = fin /\ next' = next /\ prev' = prev /\ snaps' = snaps
        /\ fault' = fault /\ pc' = pc /\ accepted' = accepted /\ waited' = waited
        /\ first_subscribed' = first_subscribed /\ first_non_empty' = first_non_empty
        /\ second_non_empty' = second_non_empty /\ slotnum' = slotnum /\ result' = result
        /\ UNCHANGED monVars
    BY <1>1 DEF vars, monVars, ownVars
  <2>2. LedgerInv' /\ PostedInv' /\ FaultInv' /\ head' = head /\ SavedInv' /\ Aligned' = Aligned
    <3>1. accepted' \in 0..3 /\ accepted <= accepted'
      BY <2>1 DEF Inv, PostedInv
    <3>2. QED
      BY <2>1, <3>1, MonitorFrame
  <2>3. /\ \A k : Fetched(k)' = Fetched(k)
        /\ \A n : ArchivalSupply(n)' = ArchivalSupply(n) /\ ExpectedSupply(n)' = ExpectedSupply(n)
        /\ PostedTogether' = PostedTogether
    BY <2>1, SupplyFrame DEF Fetched, ViewsAgree, ArchivalSupply, ExpectedSupply, Faulty
  <2>4. PlaceInv' /\ StreamInv' /\ BoundInv'
    BY <2>1, <2>2 DEF Inv, PlaceInv, StreamInv, BoundInv
  <2>5. FirstInv' /\ SecondInv'
    BY <2>1, <2>2 DEF Inv, FirstInv, SecondInv
  <2>6. Checked(slotnum)' = Checked(slotnum) /\ Fetched(slotnum)' = Fetched(slotnum)
        /\ Fetched(prev + 1)' = Fetched(prev + 1)
    BY <2>1, <2>3 DEF Checked, Fetched, ViewsAgree, Faulty
  <2>7. LoopInv' /\ RejectedForCause'
    BY <2>1, <2>2, <2>3, <2>6 DEF Inv, LoopInv, RejectedForCause
  <2>8. QED
    BY <2>2, <2>4, <2>5, <2>7 DEF Inv
<1>2. CASE NodeNext
  BY <1>2, NodeStep
<1>3. CASE NodeFault
  BY <1>3, FaultStep
<1>4. CASE SetupNext
  <2>1. result = "running"
    BY <1>4 DEF SetupNext
  <2>2. CASE SequencerReady
    BY <2>1, <2>2, ReadyStep
  <2>3. CASE SubscribeNext
    BY <2>1, <2>3, SubscribeStep
  <2>4. CASE Send(Create, "create", "first_wait")
    BY <2>1, <2>4, SendStep
  <2>5. CASE Send(Mint, "mint", "transfer")
    BY <2>1, <2>5, SendStep
  <2>6. CASE Send(Transfer, "transfer", "second_wait")
    BY <2>1, <2>6, SendStep
  <2>7. CASE MonitorRejects
    BY <2>1, <2>7, MonitorRejectsStep
  <2>8. CASE FirstWait
    BY <2>1, <2>8, FirstWaitStep
  <2>9. CASE SecondWait
    BY <2>1, <2>9, SecondWaitStep
  <2>10. CASE FetchSlot
    BY <2>1, <2>10, FetchSlotStep
  <2>11. CASE CheckSupply
    BY <2>1, <2>11, CheckSupplyStep
  <2>12. CASE Unreachable
    BY <2>1, <2>12, UnreachableStep
  <2>13. QED
    BY <1>4, <2>2, <2>3, <2>4, <2>5, <2>6, <2>7, <2>8, <2>9, <2>10, <2>11, <2>12 DEF SetupNext
<1>5. CASE Done
  BY <1>1, <1>5 DEF Done
<1>6. QED
  BY <1>1, <1>2, <1>3, <1>4, <1>5 DEF Next

\* The invariant of the manual setup and its monitor holds throughout.
THEOREM SetupInvariant == Spec => []Inv
<1>1. Init => Inv
  BY InitInv
<1>2. Inv /\ [Next]_vars => Inv'
  BY NextInv
<1>3. QED
  BY <1>1, <1>2, PTL DEF Spec
-----------------------------------------------------------------------------
\* A setup that has checked every state has seen both batches: without the second, the
\* first one's state has another supply, and without the first, the oldest two have.
LEMMA BatchesFound ==
    ASSUME Inv, pc = "done"
    PROVE  /\ first_non_empty \in 1..head /\ second_non_empty \in 1..prev - 1
           /\ first_non_empty < second_non_empty /\ prev \in 1..head /\ head \in Nat
           /\ Carries(ledger[first_non_empty], Create) /\ ~Carries(ledger[first_non_empty], Mint)
           /\ Carries(ledger[second_non_empty], Transfer) /\ Aligned
           /\ Checked(prev + 1) /\ Fetched(prev + 1)
<1> DEFINE f == first_non_empty
           s == second_non_empty
<1>1. LedgerInv /\ PostedInv /\ StreamInv /\ FirstInv /\ SecondInv /\ LoopInv
  BY DEF Inv
<1>2. /\ head \in Nat /\ head >= 1 /\ prev \in 1..head /\ f \in 0..head /\ s \in 0..head /\ f <= prev
      /\ Checked(prev + 1) /\ Fetched(prev + 1)
  <2>1. head \in Nat \ {0} /\ prev # NoSlot /\ prev \in Int /\ 1 <= prev /\ prev <= head
    BY <1>1 DEF LedgerInv, StreamInv, AfterOne
  <2>2. slotnum = prev + 1 /\ Checked(slotnum) /\ Fetched(prev + 1)
    BY <1>1 DEF LoopInv
  <2>3. QED
    BY <1>1, <2>1, <2>2 DEF FirstInv, SecondInv, AfterOne
<1>3. /\ f # 0 => Carries(ledger[f], Create) /\ ~Carries(ledger[f], Mint) /\ ~Carries(ledger[f], Transfer)
      /\ s # 0 => s < prev /\ Carries(ledger[s], Transfer) /\ Aligned
  BY <1>1 DEF FirstInv, SecondInv, AfterOne
<1>4. Create \in 0..2 /\ Mint \in 0..2 /\ Transfer \in 0..2 /\ ~(Transfer < Create) /\ ~(Mint < Create)
  BY DEF Create, Mint, Transfer
<1>5. \A n \in 0..prev : ArchivalSupply(n) = ExpectedSupply(n)
  BY <1>2 DEF Checked
<1>6. \A tx \in 0..2 : ~Carries(ledger[0], tx) /\ ~Carries(ledger[1], tx)
  BY <1>1 DEF LedgerInv, Carries
<1>7. \A tx \in 0..2 : tx \notin PostedBy(0) /\ tx \notin PostedBy(1)
  <2>1. (\A m \in 0..0 : m = 0) /\ (\A m \in 0..1 : m = 0 \/ m = 1)
    OBVIOUS
  <2>2. QED
    BY <1>6, <2>1, PostedWhere
<1>8. SupplyAfter(PostedBy(0)) = 0 /\ SupplyAfter(PostedBy(1)) = 0
  BY <1>4, <1>7 DEF SupplyAfter
<1>9. \A n : SupplyAfter(PostedBy(n)) # 1800 => ArchivalSupply(n) # 1800
  BY DEF ArchivalSupply
<1>10. s # 0
  <2> SUFFICES ASSUME s = 0 PROVE FALSE
    OBVIOUS
  <2>1. ExpectedSupply(f) = 1800
    BY <1>2 DEF ExpectedSupply
  <2>2. ArchivalSupply(f) = 1800
    BY <1>2, <1>5, <2>1
  <2>3. SupplyAfter(PostedBy(f)) # 1800
    <3>1. CASE f = 0
      BY <1>8, <3>1
    <3>2. CASE f # 0
      <4>1. Mint \notin PostedBy(f)
        <5>1. f \in Nat /\ 0..f \subseteq 0..head
          BY <1>2
        <5>2. ASSUME NEW m \in 0..f, Carries(ledger[m], Mint) PROVE FALSE
          <6>1. m # f
            BY <1>3, <3>2, <5>2
          <6>2. m < f /\ m \in 0..head
            BY <1>2, <6>1
          <6>3. QED
            BY <1>1, <1>2, <1>3, <1>4, <3>2, <5>2, <6>2 DEF PostedInv
        <5>3. QED
          BY <1>4, <5>1, <5>2, PostedWhere
      <4>2. QED
        BY <4>1 DEF SupplyAfter
    <3>3. QED
      BY <3>1, <3>2
  <2>4. QED
    BY <1>9, <2>2, <2>3
<1>11. f # 0
  <2> SUFFICES ASSUME f = 0 PROVE FALSE
    OBVIOUS
  <2>1. s # 1
    BY <1>3, <1>4, <1>6, <1>10
  <2>2. ExpectedSupply(0) = 1000 /\ ExpectedSupply(1) = 1000
    BY <1>2, <1>10, <2>1 DEF ExpectedSupply
  <2>3. ArchivalSupply(0) = 1000 /\ ArchivalSupply(1) = 1000
    BY <1>2, <1>5, <2>2
  <2>4. Faulty("archive", 0) /\ Faulty("archive", 1)
    BY <1>8, <2>3 DEF ArchivalSupply
  <2>5. QED
    BY <2>4, OneFault
<1>12. f < s
  <2>1. f # s
    BY <1>3, <1>10, <1>11
  <2>2. ~(s < f)
    BY <1>1, <1>2, <1>3, <1>4, <1>10, <1>11 DEF PostedInv
  <2>3. QED
    BY <1>2, <2>1, <2>2
<1>13. f \in 1..head /\ s \in 1..prev - 1
  BY <1>2, <1>3, <1>10, <1>11
<1>14. QED
  BY <1>2, <1>3, <1>10, <1>11, <1>12, <1>13
-----------------------------------------------------------------------------
\* The greatest of a loop's two bounds.
LEMMA GreatestBound ==
    ASSUME NEW a \in Int, NEW b \in Int
    PROVE  a <= Max({a, b}) /\ b <= Max({a, b}) /\ Max({a, b}) \in {a, b}
<1>1. \E x \in {a, b} : \A y \in {a, b} : x >= y
  <2>1. CASE a >= b
    BY <2>1
  <2>2. CASE ~(a >= b)
    BY <2>2
  <2>3. QED
    BY <2>1, <2>2
<1>2. Max({a, b}) \in {a, b} /\ \A y \in {a, b} : Max({a, b}) >= y
  BY <1>1 DEF Max
<1>3. QED
  BY <1>2

\* The variables have their types, in particular the slots keep to the bound.
THEOREM SetupTyped == Spec => []TypeOK
<1>1. Inv => TypeOK
  <2> SUFFICES ASSUME Inv PROVE TypeOK
    OBVIOUS
  <2>1. /\ LedgerInv /\ PostedInv /\ PlaceInv /\ StreamInv /\ BoundInv /\ FaultInv
        /\ FirstInv /\ SecondInv /\ SavedInv /\ LoopInv
    BY DEF Inv
  <2>2. head <= MaxHead /\ MaxHead \in Nat /\ head \in Nat /\ fin \in 0..head - 1
        /\ DOMAIN ledger = 0..head
    BY <2>1, HeadBound DEF LedgerInv
  <2>3. prev \in NoSlot..head
    <3>1. prev \in Int /\ (prev = NoSlot \/ (1 <= prev /\ prev <= head))
      BY <2>1 DEF StreamInv
    <3>2. QED
      BY <2>2, <3>1 DEF NoSlot
  <2>4. MonTypeOK
    <3>1. \A n \in 0..head : Len(ledger[n]) <= 2
      BY <2>1 DEF LedgerInv, IsSlot
    <3>2. next \in [Streams -> NoSlot..MaxHead + 1]
      <4>1. \A s \in Streams : next[s] \in NoSlot..MaxHead + 1
        BY <2>1, <2>2 DEF StreamInv, NoSlot
      <4>2. QED
        BY <2>1, <4>1 DEF StreamInv
    <3>3. fin \in 0..head /\ prev \in NoSlot..MaxHead /\ 0..head \subseteq 0..MaxHead
      BY <2>2, <2>3 DEF NoSlot
    <3>4. DOMAIN snaps \subseteq 0..MaxHead
      BY <2>1, <3>3 DEF SavedInv
    <3>5. QED
      BY <2>1, <2>2, <3>1, <3>2, <3>3, <3>4 DEF MonTypeOK, FaultInv
  <2>5. waited \in 0..Max({3, WaitSlots - 1})
    <3>1. 3 \in Int /\ WaitSlots - 1 \in Int /\ 0 <= WaitSlots - 1
      BY SlotMonitorConstants
    <3>2. 3 <= Max({3, WaitSlots - 1}) /\ WaitSlots - 1 <= Max({3, WaitSlots - 1})
          /\ Max({3, WaitSlots - 1}) \in Int
      BY <3>1, GreatestBound
    <3>3. waited \in Nat /\ (waited = 0 \/ waited <= 3 \/ waited <= WaitSlots - 1)
      BY <2>1 DEF PlaceInv
    <3>4. QED
      BY <3>1, <3>2, <3>3
  <2>6. {first_subscribed, first_non_empty, second_non_empty} \subseteq 0..MaxHead
    <3>1. 0..head \subseteq 0..MaxHead
      BY <2>2
    <3>2. QED
      BY <2>1, <3>1 DEF SavedInv, FirstInv, SecondInv
  <2>7. slotnum \in 0..MaxHead + 1
    <3>1. slotnum \in Nat /\ (slotnum = 0 \/ slotnum <= prev + 1)
      <4>1. pc \notin AfterTwo => slotnum = 0
        BY <2>1 DEF LoopInv
      <4>2. pc \in {"fetching", "archive"} => slotnum <= prev + 1
        BY <2>1 DEF LoopInv
      <4>3. slotnum \in Nat /\ (pc = "done" => slotnum = prev + 1)
        BY <2>1 DEF LoopInv
      <4>4. prev + 1 <= prev + 1
        BY <2>3 DEF NoSlot
      <4>5. QED
        BY <4>1, <4>2, <4>3, <4>4 DEF AfterTwo
    <3>2. QED
      BY <2>2, <2>3, <3>1 DEF NoSlot
  <2>8. pc \in Labels /\ result \in Results /\ accepted \in 0..3
    BY <2>1 DEF PlaceInv, PostedInv
  <2>9. QED
    BY <2>4, <2>5, <2>6, <2>7, <2>8 DEF TypeOK, Labels, Results
<1>2. QED
  BY <1>1, SetupInvariant, PTL

\* A setup is rejected only for a cause: a fault of the node, streams out of step, a wait
\* that ran out, or a mint and a transfer in two slots.
THEOREM RejectionsHaveACause == Spec => []RejectedForCause
<1>1. Inv => RejectedForCause
  BY DEF Inv
<1>2. QED
  BY <1>1, SetupInvariant, PTL

\* The streams of a setup that succeeds are in step: no slot passed between two
\* subscriptions, and none was skipped by one of them.
THEOREM SkewsAreNoticed == Spec => []SkewIsNoticed
<1>1. Inv => SkewIsNoticed
  <2> SUFFICES ASSUME Inv, result = "ok" PROVE Aligned
    BY DEF SkewIsNoticed
  <2>1. pc = "done"
    BY DEF Inv, PlaceInv
  <2>2. QED
    BY <2>1, BatchesFound
<1>2. QED
  BY <1>1, SetupInvariant, PTL

\* What a setup that succeeds leaves on disk is what the ledger has, and each of its
\* states has answered for itself.
THEOREM SuccessesAreSound == Spec => []SuccessIsSound
<1>1. Inv => SuccessIsSound
  <2> SUFFICES ASSUME Inv, result = "ok", NEW n \in 0..prev
               PROVE  /\ n \in DOMAIN snaps /\ snaps[n] = ledger[n] /\ ViewsAgree(n)
                      /\ PostedTogether => ArchivalSupply(n) = SupplyAfter(PostedBy(n))
    BY DEF SuccessIsSound
  <2>1. pc = "done"
    BY DEF Inv, PlaceInv
  <2>2. /\ first_non_empty # 0 /\ second_non_empty # 0 /\ prev \in Nat
        /\ Checked(prev + 1) /\ Fetched(prev + 1)
    BY <2>1, BatchesFound
  <2>3. n \in 0..(prev + 1) - 1
    BY <2>2
  <2>4. n \in DOMAIN snaps /\ snaps[n] = ledger[n] /\ ViewsAgree(n)
    BY <2>2, <2>3 DEF Fetched
  <2>5. ArchivalSupply(n) = ExpectedSupply(n)
    BY <2>2, <2>3 DEF Checked
  <2>6. PostedTogether => SupplyAfter(PostedBy(n)) = ExpectedSupply(n)
    BY <2>1, <2>2, SupplyAsExpected DEF AfterTwo
  <2>7. QED
    BY <2>4, <2>5, <2>6
<1>2. QED
  BY <1>1, SetupInvariant, PTL

\* A setup that succeeds has seen the creation and the transfer in their slots, and the
\* mint with the transfer unless the state between them answered wrongly.
THEOREM BatchesAreSeen == Spec => []BatchesWereSeen
<1>1. Inv => BatchesWereSeen
  <2> DEFINE f == first_non_empty
             s == second_non_empty
  <2> SUFFICES ASSUME Inv, result = "ok"
               PROVE  /\ SlotsWith(Create) = {f} /\ SlotsWith(Transfer) = {s}
                      /\ PostedTogether \/ fault.kind = "archive"
                      /\ f < s /\ s < prev
    BY DEF BatchesWereSeen
  <2>1. pc = "done" /\ LedgerInv /\ PostedInv
    BY DEF Inv, PlaceInv
  <2>2. /\ f \in 1..head /\ s \in 1..prev - 1 /\ f < s /\ prev \in 1..head /\ head \in Nat
        /\ Carries(ledger[f], Create) /\ ~Carries(ledger[f], Mint)
        /\ Carries(ledger[s], Transfer) /\ Checked(prev + 1)
    BY <2>1, BatchesFound
  <2>3. f \in 0..head /\ s \in 0..head /\ s \in 0..prev /\ s < prev
    BY <2>2
  <2>4. Create \in 0..2 /\ Mint \in 0..2 /\ Transfer \in 0..2
        /\ ~(Transfer < Mint) /\ ~(Mint < Create)
    BY DEF Create, Mint, Transfer
  <2>5. SlotsWith(Create) = {f} /\ SlotsWith(Transfer) = {s}
    BY <2>1, <2>2, <2>3, <2>4, PostedOnce
  <2>6. PICK m \in 0..head : Carries(ledger[m], Mint)
    <3>1. Transfer \in PostedBy(head)
      BY <2>2, <2>3, <2>4, PostedWhere
    <3>2. Posted \in Nat /\ PostedBy(head) = 0..Posted - 1
      BY <2>1, PostedCount DEF PostedInv
    <3>3. Mint \in PostedBy(head)
      BY <3>1, <3>2 DEF Mint, Transfer
    <3>4. QED
      BY <2>2, <2>4, <3>3, PostedWhere
  <2>7. m <= s
    <3>1. ~(s < m)
      BY <2>1, <2>2, <2>3, <2>4, <2>6 DEF PostedInv
    <3>2. QED
      BY <2>2, <3>1
  <2>8. CASE m = s
    <3>1. SlotsWith(Mint) = {s}
      BY <2>1, <2>4, <2>6, <2>8, PostedOnce
    <3>2. QED
      BY <2>2, <2>3, <2>5, <3>1 DEF PostedTogether
  <2>9. CASE m # s
    <3>1. f <= m /\ m < s
      <4>1. ~(m < f)
        BY <2>1, <2>2, <2>3, <2>4, <2>6 DEF PostedInv
      <4>2. QED
        BY <2>2, <2>7, <2>9, <4>1
    <3>2. ExpectedSupply(m) = 1000
      BY <2>2, <3>1 DEF ExpectedSupply
    <3>3. m \in 0..(prev + 1) - 1
      BY <2>2, <3>1
    <3>4. ArchivalSupply(m) = 1000
      BY <2>2, <3>2, <3>3 DEF Checked
    <3>5. Mint \in PostedBy(m) /\ Create \in PostedBy(m)
      BY <2>1, <2>2, <2>3, <2>4, <2>6, <3>1, PostedOnce
    <3>6. SupplyAfter(PostedBy(m)) = 1800
      BY <3>5 DEF SupplyAfter
    <3>7. Faulty("archive", m)
      BY <3>4, <3>6 DEF ArchivalSupply
    <3>8. fault.kind = "archive"
      BY <3>7 DEF Faulty
    <3>9. QED
      BY <2>2, <2>3, <2>5, <3>8
  <2>10. QED
    BY <2>8, <2>9
<1>2. QED
  BY <1>1, SetupInvariant, PTL
=============================================================================
