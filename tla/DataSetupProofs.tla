-------------------------- MODULE DataSetupProofs --------------------------
(***************************************************************************)
(* Proof about DataLifecycle: where the data of a setup that succeeds      *)
(* ends, and which of its slots an earlier run may have produced, whatever *)
(* such runs left in the MockDA's files and whichever step they were       *)
(* killed at.                                                              *)
(***************************************************************************)
EXTENDS DataLifecycleProofs, RunPlanProofs

\* A setup that succeeds leaves fewer slots without a snapshot than a version has
\* blocks.  Otherwise an append could find its own version's blocks in the MockDA, and
\* take the snapshots' end for the last version's boundary.
SavedUpToTheVersion == MaxUnsaved \in Nat /\ MaxUnsaved < BlocksPerVersion

\* The databases in a base file and its -wal file.
Blocks(b, w) ==
    (IF b = NoFile THEN {} ELSE {b}) \cup (IF w = NoFile THEN {} ELSE {w.over, w.full})

AllBlocks == {da} \cup Blocks(base, wal) \cup Blocks(pbase, pwal)

\* A slot adds at most one batch.
Counted(d) ==
    /\ \A s \in 1..Len(d) : d[s].end <= s
    /\ \A s, t \in 1..Len(d) :
           s <= t => d[s].end <= d[t].end /\ d[t].end - d[s].end <= t - s

\* What the durable MockDA may hold: no batch; less than the recorded slots, as when
\* a setup was killed before its -wal file was renamed; or what a setup for at most n
\* versions completed, which left the snapshots of all but its last few slots and of
\* the one that creates the token.
TokenRecorded(d, snapped) == \E s \in snapped : s \in DOMAIN d /\ d[s].token
Completed(d, snapped, n) ==
    /\ \E k \in 1..n : End(d) = StopHeight(k, BlocksPerVersion)
    /\ \E s \in snapped : Len(d) - s <= MaxUnsaved
    /\ TokenRecorded(d, snapped)
Durable(d, snapped, n) ==
    \/ End(d) = 0
    \/ \E s \in snapped : Len(d) < s
    \/ Completed(d, snapped, n)

\* What a database is to the file it was opened with.
Grown(over, full, snapped, n) == Durable(over, snapped, n) \/ Len(over) <= Len(full)

\* Before the run generates blocks.
Opening == pc \in {"removing", "copying_base", "copying_wal", "spawning", "manual", "resyncing"}

\* Every database on disk counts its batches, and there is a last recorded slot.
CountInv ==
    /\ \A d \in AllBlocks : Counted(d)
    /\ \E n \in Nat : \A s \in DOMAIN snap : s <= n

\* The durable MockDA's files are those of setups that succeeded, or cannot be taken
\* for such, whichever step a run was killed at.
DurableInv == \A d \in Blocks(pbase, pwal) : Durable(d, DOMAIN snap, versions)
PairInv ==
    wal # NoFile =>
        /\ Grown(wal.over, wal.full, DOMAIN snap, versions)
        /\ base \in {NoFile, wal.over, wal.full} \/ Durable(base, DOMAIN snap, versions)

\* A run that replays recorded data restores the durable MockDA; an append starts at the
\* last version's boundary.
RestoreInv ==
    /\ pc \in {"removing", "copying_base", "copying_wal"} => mode # "genesis"
    /\ mode # "genesis" => Restoring
    /\ pc = "resyncing" => Durable(base, DOMAIN snap, versions)
    /\ mode = "append" /\ Opening =>
           /\ versions >= 2 /\ Readable
           /\ EndHeight = StopHeight(versions - 1, BlocksPerVersion)

\* The slots of earlier runs among a setup's.
Foreign ==
    \A s \in DOMAIN da :
        da[s].run # run => IF mode = "append"
                           THEN da[s].end <= StopHeight(versions - 1, BlocksPerVersion)
                           ELSE ~da[s].token

\* A setup's progress: from genesis, it counts once the token is created; then the
\* file that the node was started on is shorter than the recorded slots.
AppendProgress ==
    /\ Durable(base, DOMAIN snap, versions)
    /\ End(da) <= StopHeight(versions, BlocksPerVersion)
    /\ TokenRecorded(da, DOMAIN snap)
    /\ savedTo \in DOMAIN snap
GenesisProgress ==
    /\ Durable(base, DOMAIN snap, versions) \/ \A s \in DOMAIN da : da[s].token => Len(base) < s
    /\ NoToken(da) \/ End(da) <= StopHeight(versions, BlocksPerVersion)
    /\ \A s \in DOMAIN da : da[s].token /\ s <= savedTo => s \in DOMAIN snap
    /\ savedTo \in DOMAIN snap \/ \A s \in DOMAIN da : s <= savedTo => ~da[s].token

\* A setup generates up to its stop height, and saves what it has completed.
SoakInv ==
    /\ NodeRuns => Grown(base, da, DOMAIN snap, versions)
    /\ pc = "soaking" => savedTo <= Len(da)
    /\ pc = "soaking" /\ mode # "test" => Foreign
    /\ pc = "soaking" /\ mode = "append" => AppendProgress
    /\ pc = "soaking" /\ mode = "genesis" => GenesisProgress

Generated ==
    /\ Foreign
    /\ End(da) = StopHeight(versions, BlocksPerVersion)
    /\ TokenRecorded(da, DOMAIN snap)

SavingInv ==
    /\ pc \in {"baseline", "saving_base", "saving_wal"} =>
           \A d \in Blocks(base, wal) : Durable(d, DOMAIN snap, versions)
    /\ (pc \in {"baseline", "saving_base", "saving_wal", "cleaning"} \/ result = "ok")
           /\ mode # "test" => Generated

SetupInv == CountInv /\ DurableInv /\ PairInv /\ RestoreInv /\ SoakInv /\ SavingInv

AllInv == Inductive /\ SetupInv
-----------------------------------------------------------------------------
(* Databases. *)

LEMMA NoBlocks ==
    /\ Counted(<<>>) /\ Counted(Garbled) /\ End(<<>>) = 0 /\ End(Garbled) = 0
    /\ \A S, n : Durable(<<>>, S, n) /\ Durable(Garbled, S, n)
<1>1. Len(<<>>) = 0 /\ Len(Garbled) = 1 /\ Garbled[1] = [run |-> 0, end |-> 0, token |-> FALSE]
  BY DEF Garbled
<1>2. Garbled # <<>>
  <2>1. Len(<<>>) = 0 /\ Len(Garbled) = 1
    BY <1>1
  <2>2. QED
    BY <2>1
<1>3. End(<<>>) = 0 /\ End(Garbled) = 0
  BY <1>1, <1>2 DEF End
<1>4. Counted(<<>>) /\ Counted(Garbled)
  BY <1>1 DEF Counted
<1>5. QED
  BY <1>3, <1>4 DEF Durable

\* Opening a database yields the blocks of one of its files, or none.
LEMMA OpenedFrom ==
    ASSUME NEW b, NEW w
    PROVE  Opened(b, w) \in {<<>>, Garbled} \cup Blocks(b, w)
BY DEF Opened, Blocks

LEMMA BlocksAreSlots ==
    ASSUME NEW b, NEW w, IsDatabase(b), IsWal(w)
    PROVE  \A d \in Blocks(b, w) : d \in Seq(Slot)
BY DEF Blocks, IsDatabase, IsWal

\* A database ends with as many batches as it has counted, and no more than slots.
LEMMA CountedEnds ==
    ASSUME NEW d \in Seq(Slot), Counted(d)
    PROVE  /\ End(d) \in Nat /\ Len(d) \in Nat /\ End(d) <= Len(d)
           /\ \A s \in 1..Len(d) : /\ d[s].end \in Nat /\ d[s].end <= End(d)
                                   /\ End(d) - d[s].end <= Len(d) - s
<1>1. CASE d = <<>>
  BY <1>1 DEF End
<1>2. CASE d # <<>>
  <2>1. Len(d) \in 1..Len(d) /\ Len(d) \in Nat
    BY <1>2
  <2>2. \A s \in 1..Len(d) : d[s] \in Slot
    OBVIOUS
  <2>3. \A s \in 1..Len(d) : d[s].end \in Nat
    BY <2>2 DEF Slot
  <2>4. End(d) = d[Len(d)].end
    BY <1>2 DEF End
  <2>5. QED
    BY <2>1, <2>3, <2>4 DEF Counted
<1>3. QED
  BY <1>1, <1>2

\* e is d with one slot more.
OneMore(d, e, block) ==
    /\ Counted(e) /\ e \in Seq(Slot) /\ Len(e) = Len(d) + 1
    /\ End(e) = block.end
    /\ \A s \in 1..Len(d) : e[s] = d[s]
    /\ e[Len(d) + 1] = block

\* One more slot, with a batch or without.
LEMMA AppendedCounts ==
    ASSUME NEW d \in Seq(Slot), Counted(d), NEW batch \in {0, 1}, NEW block \in Slot,
           block.end = End(d) + batch, NEW e, e = Append(d, block)
    PROVE  OneMore(d, e, block)
<1>1. /\ End(d) \in Nat /\ Len(d) \in Nat /\ End(d) <= Len(d)
      /\ \A s \in 1..Len(d) : /\ d[s].end \in Nat /\ d[s].end <= End(d)
                              /\ End(d) - d[s].end <= Len(d) - s
  BY CountedEnds
<1>3. /\ e \in Seq(Slot) /\ Len(e) = Len(d) + 1 /\ e # <<>>
      /\ \A s \in 1..Len(d) : e[s] = d[s]
      /\ e[Len(d) + 1] = block
  OBVIOUS
<1>4. End(e) = End(d) + batch
  BY <1>3 DEF End
<1>5. \A s \in 1..Len(e) : s \in 1..Len(d) \/ s = Len(d) + 1
  BY <1>1, <1>3
<1>6. \A s \in 1..Len(e) : e[s].end <= s
  BY <1>1, <1>3, <1>5 DEF Counted
<1>7. ASSUME NEW s \in 1..Len(e), NEW t \in 1..Len(e), s <= t
      PROVE  e[s].end <= e[t].end /\ e[t].end - e[s].end <= t - s
  <2>1. CASE t \in 1..Len(d)
    <3>1. s \in 1..Len(d)
      BY <1>1, <1>7, <2>1
    <3>2. e[s] = d[s] /\ e[t] = d[t]
      BY <1>3, <2>1, <3>1
    <3>3. QED
      BY <1>7, <2>1, <3>1, <3>2 DEF Counted
  <2>2. CASE t = Len(d) + 1 /\ s \in 1..Len(d)
    <3>1. e[s] = d[s] /\ e[t].end = End(d) + batch
      BY <1>3, <2>2
    <3>2. d[s].end \in Nat /\ d[s].end <= End(d) /\ End(d) - d[s].end <= Len(d) - s
      BY <1>1, <2>2
    <3>3. QED
      BY <1>1, <2>2, <3>1, <3>2
  <2>3. CASE t = Len(d) + 1 /\ s = Len(d) + 1
    BY <1>1, <1>3, <2>3
  <2>4. QED
    BY <1>5, <2>1, <2>2, <2>3
<1>8. QED
  BY <1>3, <1>4, <1>6, <1>7 DEF Counted, OneMore

\* More snapshots and more versions leave a database what it was.
LEMMA DurableStays ==
    ASSUME NEW S, NEW T, S \subseteq T, NEW m \in Nat, NEW n \in Nat, m <= n
    PROVE  /\ \A d : Durable(d, S, m) => Durable(d, T, n)
           /\ \A c, d : Grown(c, d, S, m) => Grown(c, d, T, n)
<1>1. 1..m \subseteq 1..n
  OBVIOUS
<1>2. QED
  BY <1>1 DEF Durable, Completed, TokenRecorded, Grown
-----------------------------------------------------------------------------
(* What a step does to the databases. *)

\* Snapshots and versions only grow, unless the data is cleared.
LEMMA DataGrows ==
    ASSUME AllInv, [Next]_vars
    PROVE  /\ versions \in Nat \ {0} /\ versions' \in Nat /\ versions <= versions'
           /\ DOMAIN snap \subseteq DOMAIN snap' \/ ClearData
           /\ pc # "idle" => versions' = versions
           /\ pc # "soaking" => snap' = snap \/ ClearData
<1>1. versions \in Nat \ {0}
  BY DEF AllInv, Inductive, TypeOK
<1>2. /\ versions' = versions \/ (pc = "idle" /\ versions' = versions + 1)
      /\ DOMAIN snap \subseteq DOMAIN snap' \/ ClearData
      /\ pc # "soaking" => snap' = snap \/ ClearData
  <2>1. CASE Start
    BY <2>1 DEF Start, Refuse, Prepare, users
  <2>2. CASE Restore
    BY <2>2 DEF Restore, RemoveStale, CopyBase, CopySidecars, users
  <2>3. CASE Generate
    BY <2>3 DEF Generate, Spawn, ManualSetup, Resync, Produce, SaveSnapshot, SoakEnds,
         WithSnapshot, users
  <2>4. CASE Conclude
    BY <2>4 DEF Conclude, WriteBaseline, SaveBase, SaveSidecars, CheckBaseline, Cleanup,
         users
  <2>5. CASE FailWithNode \/ FailWithoutNode
    BY <2>5 DEF FailWithNode, FailWithoutNode, WithSnapshot, users
  <2>6. CASE GrowSpec
    BY <2>6 DEF GrowSpec
  <2>7. CASE ClearData
    BY <2>7 DEF ClearData, users
  <2>8. CASE UNCHANGED vars
    BY <2>8 DEF vars, users
  <2>9. QED
    BY <2>1, <2>2, <2>3, <2>4, <2>5, <2>6, <2>7, <2>8 DEF Next
<1>3. QED
  BY <1>1, <1>2

LEMMA ClosedBlocks ==
    ASSUME base # NoFile, CloseDatabase
    PROVE  Blocks(base', wal') \subseteq {da} \cup Blocks(base, wal)
<1>1. wal' = NoFile \/ (wal'.over = base /\ wal'.full = da)
  BY DEF CloseDatabase, Wal
<1>2. base' \in {base, da}
  BY DEF CloseDatabase
<1>3. QED
  BY <1>1, <1>2 DEF Blocks

\* Only production makes a database of its own.
LEMMA BlocksMove ==
    ASSUME AllInv, [Next]_vars, ~Produce
    PROVE  AllBlocks' \subseteq AllBlocks \cup {<<>>, Garbled}
<1>1. NodeRuns => base # NoFile
  BY DEF AllInv, Inductive, FilesInv
<1>2. CASE \E kind \in {"setup", "test"}, policy \in Policies : Refuse(kind, policy)
  BY <1>2 DEF Refuse, working, durable, current, AllBlocks
<1>3. CASE \E kind \in {"setup", "test"}, policy \in Policies : Prepare(kind, policy)
  BY <1>3 DEF Prepare, working, durable, AllBlocks
<1>4. CASE RemoveStale
  BY <1>4 DEF RemoveStale, durable, current, AllBlocks, Blocks
<1>5. CASE CopyBase
  BY <1>5 DEF CopyBase, durable, current, AllBlocks, Blocks
<1>6. CASE CopySidecars
  BY <1>6 DEF CopySidecars, durable, current, AllBlocks, Blocks
<1>7. CASE Spawn
  <2>1. da' \in {<<>>, Garbled} \cup Blocks(base, wal)
    BY <1>7, OpenedFrom DEF Spawn
  <2>2. base' \in {base, <<>>} /\ UNCHANGED <<wal, pbase, pwal>> /\ base' # NoFile
    BY <1>7, MarksAreNoValues DEF Spawn, durable
  <2>3. QED
    BY <2>1, <2>2 DEF AllBlocks, Blocks
<1>8. CASE ManualSetup \/ Resync \/ SoakEnds \/ FailWithNode
  <2>1. /\ base # NoFile /\ UNCHANGED <<pbase, pwal, da>>
        /\ CloseDatabase \/ UNCHANGED <<base, wal>>
    BY <1>1, <1>8 DEF ManualSetup, Resync, SoakEnds, FailWithNode, Abort, NodeRuns, working,
         durable, current
  <2>2. QED
    BY <2>1, ClosedBlocks DEF AllBlocks
<1>9. CASE \/ SaveSnapshot \/ WriteBaseline \/ CheckBaseline \/ Cleanup \/ FailWithoutNode
           \/ GrowSpec \/ UNCHANGED vars
  <2>1. UNCHANGED <<base, wal, pbase, pwal, da>>
    BY <1>9 DEF SaveSnapshot, WriteBaseline, CheckBaseline, Cleanup, FailWithoutNode,
         GrowSpec, vars, working, durable, current
  <2>2. QED
    BY <2>1 DEF AllBlocks
<1>10. CASE SaveBase
  BY <1>10 DEF SaveBase, current, AllBlocks, Blocks
<1>11. CASE SaveSidecars
  BY <1>11 DEF SaveSidecars, current, AllBlocks, Blocks
<1>12. CASE ClearData
  BY <1>12 DEF ClearData, current, AllBlocks, Blocks
<1>13. QED
  BY <1>2, <1>3, <1>4, <1>5, <1>6, <1>7, <1>8, <1>9, <1>10, <1>11, <1>12
     DEF Next, Start, Restore, Generate, Conclude

LEMMA Produced ==
    ASSUME AllInv, Produce
    PROVE  /\ UNCHANGED <<base, wal, pbase, pwal, snap, versions, run, mode, pc, savedTo,
                          result>>
           /\ da \in Seq(Slot) /\ Counted(da) /\ run \in 0..MaxRuns
           /\ pc = "soaking" /\ End(da) < StopAt
           /\ \E batch \in {0, 1}, token \in BOOLEAN :
                 /\ token => batch = 1 /\ mode = "genesis" /\ NoToken(da)
                 /\ da' = Append(da, [run |-> run, end |-> End(da) + batch, token |-> token])
BY DEF AllInv, Inductive, TypeOK, SetupInv, CountInv, AllBlocks, Produce, users, working,
       durable, reports

LEMMA ProducedSlot ==
    ASSUME AllInv, Produce
    PROVE  \E batch \in {0, 1}, token \in BOOLEAN :
             /\ Counted(da') /\ da' \in Seq(Slot) /\ Len(da') = Len(da) + 1
             /\ End(da') = End(da) + batch
             /\ \A s \in 1..Len(da) : da'[s] = da[s]
             /\ da'[Len(da) + 1] = [run |-> run, end |-> End(da) + batch, token |-> token]
             /\ token => mode = "genesis" /\ NoToken(da)
<1>1. PICK batch \in {0, 1}, token \in BOOLEAN :
         /\ token => batch = 1 /\ mode = "genesis" /\ NoToken(da)
         /\ da' = Append(da, [run |-> run, end |-> End(da) + batch, token |-> token])
  BY Produced
<1>2. da \in Seq(Slot) /\ Counted(da) /\ run \in 0..MaxRuns
  BY Produced
<1>3. /\ Counted(da') /\ da' \in Seq(Slot) /\ Len(da') = Len(da) + 1
      /\ End(da') = End(da) + batch
      /\ \A s \in 1..Len(da) : da'[s] = da[s]
      /\ da'[Len(da) + 1] = [run |-> run, end |-> End(da) + batch, token |-> token]
  <2> DEFINE block == [run |-> run, end |-> End(da) + batch, token |-> token]
  <2>1. block \in Slot
    <3>1. End(da) + batch \in Nat
      BY <1>1, <1>2, CountedEnds
    <3>2. QED
      BY <1>2, <3>1 DEF Slot
  <2>2. block.end = End(da) + batch /\ da' = Append(da, block)
    BY <1>1
  <2>3. batch \in {0, 1} /\ da \in Seq(Slot) /\ Counted(da)
    BY <1>1, <1>2
  <2>4. OneMore(da, da', block)
    <3> HIDE DEF block
    <3> QED
      BY <2>1, <2>2, <2>3, AppendedCounts
  <2>5. QED
    BY <2>2, <2>4 DEF OneMore
<1>4. QED
  BY <1>1, <1>3

LEMMA CountStep ==
    ASSUME AllInv, [Next]_vars
    PROVE  CountInv'
<1>1. PICK n \in Nat : \A s \in DOMAIN snap : s <= n
  BY DEF AllInv, SetupInv, CountInv
<1>2. \E m \in Nat : \A s \in DOMAIN snap' : s <= m
  <2>1. CASE DOMAIN snap' \subseteq DOMAIN snap
    BY <1>1, <2>1
  <2>2. CASE DOMAIN snap' \subseteq DOMAIN snap \cup {savedTo + 1}
    <3>1. savedTo \in Nat
      BY DEF AllInv, Inductive, TypeOK
    <3>2. PICK m \in Nat : n <= m /\ savedTo + 1 <= m
      <4>1. n <= n + savedTo + 1 /\ savedTo + 1 <= n + savedTo + 1 /\ n + savedTo + 1 \in Nat
        BY <3>1
      <4>2. QED
        BY <4>1
    <3>3. DOMAIN snap \subseteq Nat
      BY DEF AllInv, Inductive, TypeOK
    <3>4. \A s \in DOMAIN snap' : s <= m
      BY <1>1, <2>2, <3>1, <3>2, <3>3
    <3>5. QED
      BY <3>4
  <2>3. CASE ClearData
    BY <2>3 DEF ClearData, NoSnapshots
  <2>4. CASE SaveSnapshot \/ FailWithNode
    <3>1. DOMAIN snap' \subseteq DOMAIN snap \cup {savedTo + 1}
      BY <2>4 DEF SaveSnapshot, FailWithNode, WithSnapshot
    <3>2. QED
      BY <2>2, <3>1
  <2>5. snap' = snap \/ ClearData \/ SaveSnapshot \/ FailWithNode
    BY DEF Next, Start, Refuse, Prepare, Restore, RemoveStale, CopyBase, CopySidecars,
         Generate, Spawn, ManualSetup, Resync, Produce, SoakEnds, Conclude, WriteBaseline,
         SaveBase, SaveSidecars, CheckBaseline, Cleanup, FailWithoutNode, GrowSpec, vars
  <2>6. QED
    BY <2>1, <2>3, <2>4, <2>5
<1>3. \A d \in AllBlocks' : Counted(d)
  <2>1. CASE ~Produce
    BY <2>1, BlocksMove, NoBlocks DEF AllInv, SetupInv, CountInv
  <2>2. CASE Produce
    <3>1. UNCHANGED <<base, wal, pbase, pwal>> /\ Counted(da')
      BY <2>2, Produced, ProducedSlot
    <3>2. QED
      BY <3>1 DEF AllInv, SetupInv, CountInv, AllBlocks
  <2>3. QED
    BY <2>1, <2>2
<1>4. QED
  BY <1>2, <1>3 DEF CountInv

-----------------------------------------------------------------------------
(* The durable MockDA and the working files. *)

LEMMA Keeps ==
    ASSUME AllInv, [Next]_vars, ~ClearData
    PROVE  /\ \A d : Durable(d, DOMAIN snap, versions) => Durable(d, DOMAIN snap', versions')
           /\ \A c, d : Grown(c, d, DOMAIN snap, versions) =>
                            Grown(c, d, DOMAIN snap', versions')
<1>1. /\ DOMAIN snap \subseteq DOMAIN snap' /\ versions \in Nat /\ versions' \in Nat
      /\ versions <= versions'
  BY DataGrows
<1>2. QED
  BY <1>1, DurableStays

\* Only a setup that has completed its database saves it, file by file.
LEMMA DurableStep ==
    ASSUME AllInv, [Next]_vars
    PROVE  DurableInv'
<1>1. CASE ClearData
  BY <1>1 DEF ClearData, DurableInv, Blocks
<1>2. CASE SaveBase \/ SaveSidecars
  <2>1. /\ pc \in {"saving_base", "saving_wal"}
        /\ Blocks(pbase', pwal') \subseteq Blocks(pbase, pwal) \cup Blocks(base, wal)
    BY <1>2 DEF SaveBase, SaveSidecars, Blocks
  <2>2. \A d \in Blocks(pbase, pwal) \cup Blocks(base, wal) : Durable(d, DOMAIN snap, versions)
    BY <2>1 DEF AllInv, SetupInv, DurableInv, SavingInv
  <2>3. ~ClearData
    BY <2>1 DEF ClearData
  <2>4. QED
    BY <2>1, <2>2, <2>3, Keeps DEF DurableInv
<1>3. CASE ~(ClearData \/ SaveBase \/ SaveSidecars)
  <2>1. UNCHANGED <<pbase, pwal>>
    BY <1>3 DEF Next, Start, Refuse, Prepare, Restore, RemoveStale, CopyBase, CopySidecars,
         Generate, Spawn, ManualSetup, Resync, Produce, SaveSnapshot, SoakEnds, Conclude,
         WriteBaseline, CheckBaseline, Cleanup, FailWithNode, FailWithoutNode, GrowSpec, vars,
         durable
  <2>2. QED
    BY <1>3, <2>1, Keeps DEF DurableInv, AllInv, SetupInv
<1>4. QED
  BY <1>1, <1>2, <1>3

\* A node's database is its blocks, or what it was with the blocks in a -wal file
\* of its own.
LEMMA ClosedPair ==
    ASSUME CloseDatabase, NEW S, NEW n, Grown(base, da, S, n)
    PROVE  wal' # NoFile => /\ Grown(wal'.over, wal'.full, S, n)
                            /\ base' \in {NoFile, wal'.over, wal'.full}
BY DEF CloseDatabase, Wal

LEMMA PairStep ==
    ASSUME AllInv, [Next]_vars
    PROVE  PairInv'
<1>1. CASE ClearData
  BY <1>1 DEF ClearData, PairInv
<1> SUFFICES ASSUME ~ClearData PROVE PairInv'
  BY <1>1
<1>2. PairInv
  BY DEF AllInv, SetupInv
<1>3. CASE RemoveStale
  BY <1>3 DEF RemoveStale, PairInv
<1>4. CASE CopyBase
  <2>1. wal' = NoFile
    BY <1>4 DEF CopyBase, AllInv, SetupInv, RestoreInv, Restoring
  <2>2. QED
    BY <2>1 DEF PairInv
<1>5. CASE CopySidecars
  <2>1. base = pbase /\ wal = NoFile /\ base' = base /\ wal' \in {NoFile, pwal}
    BY <1>5 DEF CopySidecars, AllInv, SetupInv, RestoreInv, Restoring
  <2>2. \A d \in Blocks(pbase, pwal) : Durable(d, DOMAIN snap', versions')
    BY Keeps DEF AllInv, SetupInv, DurableInv
  <2>3. QED
    BY <2>1, <2>2 DEF PairInv, Blocks, Grown
<1>6. CASE Spawn
  <2>1. wal' = wal /\ (base' = base \/ base' = <<>>)
    BY <1>6 DEF Spawn
  <2>2. Durable(<<>>, DOMAIN snap', versions')
    BY NoBlocks
  <2>3. QED
    BY <1>2, <2>1, <2>2, Keeps DEF PairInv
<1>7. CASE /\ ManualSetup \/ Resync \/ SoakEnds \/ FailWithNode
           /\ CloseDatabase
  <2>1. Grown(base, da, DOMAIN snap, versions)
    BY <1>7 DEF AllInv, SetupInv, SoakInv, NodeRuns, ManualSetup, Resync, SoakEnds,
         FailWithNode
  <2>2. Grown(base, da, DOMAIN snap', versions')
    BY <2>1, Keeps
  <2>3. QED
    BY <1>7, <2>2, ClosedPair DEF PairInv
<1>8. CASE SaveBase
  <2>1. base' = NoFile /\ wal' = wal
    BY <1>8 DEF SaveBase
  <2>2. QED
    BY <1>2, <2>1, Keeps DEF PairInv
<1>9. CASE SaveSidecars
  BY <1>9 DEF SaveSidecars, PairInv
<1>10. CASE UNCHANGED <<base, wal>>
  BY <1>2, <1>10, Keeps DEF PairInv
<1>11. QED
  <2>1. \/ RemoveStale \/ CopyBase \/ CopySidecars \/ Spawn \/ SaveBase \/ SaveSidecars
        \/ (ManualSetup \/ Resync \/ SoakEnds \/ FailWithNode) /\ CloseDatabase
        \/ UNCHANGED <<base, wal>>
    BY DEF Next, Start, Refuse, Prepare, Restore, Generate, ManualSetup, Resync, Produce,
         SaveSnapshot, SoakEnds, Abort, Conclude, WriteBaseline, CheckBaseline, Cleanup,
         FailWithNode, FailWithoutNode, GrowSpec, vars, working
  <2>2. QED
    BY <1>3, <1>4, <1>5, <1>6, <1>7, <1>8, <1>9, <1>10, <2>1
-----------------------------------------------------------------------------
(* Restoring the durable MockDA. *)

\* The last recorded slot is recorded, and the last.
LEMMA LastIsRecorded ==
    ASSUME AllInv, HasSnapshots
    PROVE  /\ LastRecorded \in DOMAIN snap /\ LastRecorded \in Nat
           /\ \A s \in DOMAIN snap : s <= LastRecorded
<1>1. PICK n \in Nat : \A s \in DOMAIN snap : s <= n
  BY DEF AllInv, SetupInv, CountInv
<1>2. DOMAIN snap \in SUBSET Nat /\ DOMAIN snap # {}
  BY DEF AllInv, Inductive, TypeOK, HasSnapshots
<1>3. Max(DOMAIN snap) \in DOMAIN snap /\ \A s \in DOMAIN snap : s <= Max(DOMAIN snap)
  BY <1>1, <1>2, MaxIsGreatest
<1>4. QED
  BY <1>2, <1>3 DEF LastRecorded

\* An append that is not refused finds recorded data that ends where the version
\* before the last one stops.
LEMMA PreparedAppend ==
    ASSUME AllInv, NEW kind \in {"setup", "test"}, NEW policy \in Policies,
           Prepare(kind, policy), ModeOf(kind) = "append"
    PROVE  /\ versions >= 2 /\ Readable
           /\ EndHeight = StopHeight(versions - 1, BlocksPerVersion)
<1>1. /\ pbase # NoFile /\ versions > 1 /\ versions \in Nat /\ BlocksPerVersion \in Nat \ {0}
  BY DataConstants DEF ModeOf, AllInv, Inductive, TypeOK
<1>2. Readable /\ AppendBoundary(EndHeight, versions, BlocksPerVersion) = "ok"
  BY DEF Prepare, AppendRefused
<1>3. PlanAccepts(EndHeight, versions, BlocksPerVersion)
  BY <1>1, <1>2 DEF Prepare, PlanRefused, BoundsRead, Readable
<1>4. EndHeight \in Nat
  <2>1. LastRecorded \in DOMAIN snap
    BY <1>2, LastIsRecorded DEF Readable
  <2>2. snap[LastRecorded] \in Slot
    BY <1>2, <2>1 DEF Readable, AllInv, Inductive, TypeOK
  <2>3. QED
    BY <2>2 DEF EndHeight, Slot
<1>5. EndHeight = StopHeight(versions - 1, BlocksPerVersion)
  BY <1>1, <1>2, <1>3, <1>4, AppendStartsAtDataEnd
<1>6. QED
  BY <1>1, <1>2, <1>5

LEMMA RestoreStep ==
    ASSUME AllInv, [Next]_vars
    PROVE  RestoreInv'
<1> DEFINE Modes == pc \in {"removing", "copying_base", "copying_wal"} => mode # "genesis"
           Boundary == mode = "append" /\ Opening =>
                          /\ versions >= 2 /\ Readable
                          /\ EndHeight = StopHeight(versions - 1, BlocksPerVersion)
<1>1. RestoreInv /\ PhaseInv
  BY DEF AllInv, SetupInv, Inductive
<1>2. CASE \E kind \in {"setup", "test"}, policy \in Policies : Prepare(kind, policy)
  <2>1. PICK kind \in {"setup", "test"}, policy \in Policies : Prepare(kind, policy)
    BY <1>2
  <2>2. mode' = ModeOf(kind) /\ UNCHANGED <<versions, snap>>
        /\ pc' = IF ModeOf(kind) = "genesis" THEN "spawning" ELSE "removing"
    BY <2>1 DEF Prepare, users
  <2>3. Boundary'
    BY <2>1, <2>2, PreparedAppend DEF Readable, EndHeight, HasSnapshots, LastRecorded
  <2>4. QED
    BY <2>2, <2>3 DEF RestoreInv, Restoring
<1>3. CASE RemoveStale \/ CopyBase \/ CopySidecars
  <2>1. /\ UNCHANGED <<versions, snap, mode, pbase, pwal>> /\ Opening /\ mode # "genesis"
        /\ pc' \in {"copying_base", "copying_wal", "spawning"}
    BY <1>1, <1>3 DEF RestoreInv, RemoveStale, CopyBase, CopySidecars, users, durable, current,
         Opening
  <2>2. Boundary'
    BY <1>1, <2>1 DEF RestoreInv, Readable, EndHeight, HasSnapshots, LastRecorded
  <2>3. Restoring'
    BY <1>1, <1>3, <2>1 DEF RestoreInv, Restoring, RemoveStale, CopyBase, CopySidecars
  <2>4. QED
    BY <2>1, <2>2, <2>3 DEF RestoreInv
<1>4. CASE Spawn
  <2>1. /\ UNCHANGED <<versions, snap, mode, wal, pbase, pwal>> /\ Opening
        /\ pc' = IF mode = "genesis" THEN "manual" ELSE "resyncing"
        /\ base' = IF base = NoFile THEN <<>> ELSE base
        /\ da' = Opened(base, wal)
    BY <1>4 DEF Spawn, users, durable, Opening
  <2>2. Boundary'
    BY <1>1, <2>1 DEF RestoreInv, Readable, EndHeight, HasSnapshots, LastRecorded
  <2>3. mode # "genesis" => base = pbase /\ wal = pwal
    BY <1>1, <1>4 DEF RestoreInv, Restoring, Spawn
  <2>4. mode # "genesis" => Durable(base', DOMAIN snap, versions)
    <3>1. pbase # NoFile => Durable(pbase, DOMAIN snap, versions)
      BY DEF AllInv, SetupInv, DurableInv, Blocks
    <3>2. QED
      BY <2>1, <2>3, <3>1, NoBlocks
  <2>5. QED
    BY <2>1, <2>2, <2>3, <2>4 DEF RestoreInv, Restoring
<1>5. CASE ManualSetup \/ Resync \/ SoakEnds \/ FailWithNode \/ FailWithoutNode \/ Produce
           \/ SaveSnapshot \/ WriteBaseline \/ SaveBase \/ SaveSidecars \/ CheckBaseline
           \/ Cleanup
  <2>1. pc' \notin {"removing", "copying_base", "copying_wal", "spawning", "manual", "resyncing"}
    BY <1>5 DEF ManualSetup, Resync, SoakEnds, FailWithNode, FailWithoutNode, Produce,
         SaveSnapshot, WriteBaseline, SaveBase, SaveSidecars, CheckBaseline, Cleanup, Abort
  <2>2. QED
    BY <2>1 DEF RestoreInv, Restoring, Opening
<1>6. CASE GrowSpec \/ ClearData \/ \E kind \in {"setup", "test"}, policy \in Policies :
                                        Refuse(kind, policy)
  <2>1. pc' = "idle"
    BY <1>6 DEF GrowSpec, ClearData, Refuse
  <2>2. QED
    BY <2>1 DEF RestoreInv, Restoring, Opening
<1>7. CASE UNCHANGED vars
  BY <1>1, <1>7 DEF vars, users, working, durable, current, RestoreInv, Restoring, Opening,
       Readable, EndHeight, HasSnapshots, LastRecorded
<1>8. QED
  BY <1>2, <1>3, <1>4, <1>5, <1>6, <1>7 DEF Next, Start, Restore, Generate, Conclude
-----------------------------------------------------------------------------
(* Generating the blocks of the setup's versions. *)

\* Two stop heights less than a version apart are the same.
LEMMA StopsApart ==
    ASSUME NEW k \in Nat, NEW m \in Nat,
           StopHeight(m, BlocksPerVersion) <= StopHeight(k, BlocksPerVersion),
           StopHeight(k, BlocksPerVersion) - StopHeight(m, BlocksPerVersion) < BlocksPerVersion
    PROVE  k = m
<1>1. BlocksPerVersion \in Nat \ {0}
  BY DataConstants
<1>2. \A i, j \in Nat : i < j => i * BlocksPerVersion + BlocksPerVersion <= j * BlocksPerVersion
  <2> SUFFICES ASSUME NEW i \in Nat, NEW j \in Nat, i < j
               PROVE  i * BlocksPerVersion + BlocksPerVersion <= j * BlocksPerVersion
    OBVIOUS
  <2>1. j - i - 1 \in Nat /\ j = i + 1 + (j - i - 1)
    OBVIOUS
  <2>2. \A d \in Nat : d * BlocksPerVersion >= 0
    BY <1>1, Z3
  <2>3. \A d \in Nat : (i + 1 + d) * BlocksPerVersion
                           = i * BlocksPerVersion + BlocksPerVersion + d * BlocksPerVersion
    BY <1>1
  <2>4. /\ j * BlocksPerVersion = i * BlocksPerVersion + BlocksPerVersion
                                      + (j - i - 1) * BlocksPerVersion
        /\ (j - i - 1) * BlocksPerVersion >= 0
    BY <2>1, <2>2, <2>3
  <2>5. /\ i * BlocksPerVersion \in Int /\ j * BlocksPerVersion \in Int
        /\ (j - i - 1) * BlocksPerVersion \in Int
    BY <1>1, <2>1
  <2>6. QED
    BY <1>1, <2>4, <2>5
<1>3. k * BlocksPerVersion \in Int /\ m * BlocksPerVersion \in Int
  BY <1>1
<1>4. ~(k < m) /\ ~(m < k)
  BY <1>1, <1>2, <1>3 DEF StopHeight
<1>5. QED
  BY <1>4

\* What an append resyncs ends at its version's boundary, in the slots that have no
\* snapshot as well, and holds the recorded slot of a manual setup.
LEMMA ResyncedEnd ==
    ASSUME AllInv, SavedUpToTheVersion, pc = "resyncing", mode = "append", Agrees(da)
    PROVE  /\ End(da) = StopHeight(versions - 1, BlocksPerVersion)
           /\ TokenRecorded(da, DOMAIN snap)
<1>1. /\ versions \in Nat /\ versions >= 2 /\ Readable
      /\ snap[LastRecorded].end = StopHeight(versions - 1, BlocksPerVersion)
  BY DEF AllInv, SetupInv, RestoreInv, Opening, Inductive, TypeOK, EndHeight
<1>2. /\ LastRecorded \in DOMAIN snap /\ LastRecorded \in Nat \ {0}
      /\ \A s \in DOMAIN snap : s <= LastRecorded /\ s \in Nat
  BY LastIsRecorded DEF AllInv, Inductive, FilesInv, TypeOK, Agrees
<1>3. /\ da \in Seq(Slot) /\ Counted(da)
  BY DEF AllInv, SetupInv, CountInv, AllBlocks, Inductive, TypeOK
<1>4. /\ LastRecorded \in 1..Len(da)
      /\ da[LastRecorded].end = StopHeight(versions - 1, BlocksPerVersion)
  BY <1>1, <1>2, <1>3 DEF Agrees
<1>5. /\ End(da) \in Nat /\ Len(da) \in Nat
      /\ StopHeight(versions - 1, BlocksPerVersion) \in Nat
      /\ StopHeight(versions - 1, BlocksPerVersion) <= End(da)
      /\ End(da) - StopHeight(versions - 1, BlocksPerVersion) <= Len(da) - LastRecorded
  BY <1>3, <1>4, CountedEnds
<1>6. BlocksPerVersion \in Nat \ {0} /\ MaxUnsaved \in Nat /\ MaxUnsaved < BlocksPerVersion
  BY DataConstants DEF SavedUpToTheVersion
<1>7. Durable(da, DOMAIN snap, versions)
  <2>1. da = Opened(pbase, pwal)
    BY DEF AllInv, SetupInv, RestoreInv, Restoring
  <2>2. da \in {<<>>, Garbled} \cup Blocks(pbase, pwal)
    BY <2>1, OpenedFrom
  <2>3. QED
    BY <2>2, NoBlocks DEF AllInv, SetupInv, DurableInv
<1>8. End(da) # 0
  <2>1. versions - 1 \in Nat /\ versions - 1 # 0
    BY <1>1
  <2>2. \A m \in Nat : m # 0 => m * BlocksPerVersion # 0
    BY <1>6, Z3
  <2>3. StopHeight(versions - 1, BlocksPerVersion) # 0
    BY <2>1, <2>2 DEF StopHeight
  <2>4. QED
    BY <1>5, <2>3
<1>9. Completed(da, DOMAIN snap, versions)
  <2>1. \A s \in DOMAIN snap : s \in Nat /\ s <= Len(da)
    BY <1>2 DEF Agrees
  <2>2. ~\E s \in DOMAIN snap : Len(da) < s
    BY <1>5, <2>1
  <2>3. QED
    BY <1>7, <1>8, <2>2 DEF Durable
<1>10. PICK k \in 1..versions : End(da) = StopHeight(k, BlocksPerVersion)
  BY <1>9 DEF Completed
<1>11. PICK s \in DOMAIN snap : Len(da) - s <= MaxUnsaved
  BY <1>9 DEF Completed
<1>12. Len(da) - LastRecorded <= MaxUnsaved
  <2>1. s \in Nat /\ s <= LastRecorded
    BY <1>2
  <2>2. QED
    BY <1>2, <1>5, <1>6, <1>11, <2>1
<1>13. k \in Nat /\ versions - 1 \in Nat
  BY <1>1
<1>14. /\ StopHeight(versions - 1, BlocksPerVersion) <= StopHeight(k, BlocksPerVersion)
       /\ StopHeight(k, BlocksPerVersion) - StopHeight(versions - 1, BlocksPerVersion)
              < BlocksPerVersion
  <2>1. End(da) - StopHeight(versions - 1, BlocksPerVersion) < BlocksPerVersion
    BY <1>2, <1>5, <1>6, <1>12
  <2>2. QED
    BY <1>5, <1>10, <2>1
<1>15. k = versions - 1
  BY <1>13, <1>14, StopsApart
<1>16. QED
  BY <1>9, <1>15, <1>10 DEF Completed

\* The slots that a database gains.
LEMMA ProducedSlots ==
    ASSUME AllInv, Produce
    PROVE  /\ da \in Seq(Slot) /\ da' \in Seq(Slot) /\ Len(da) \in Nat
           /\ Len(da') = Len(da) + 1 /\ DOMAIN da = 1..Len(da)
           /\ DOMAIN da \subseteq DOMAIN da' /\ DOMAIN da' = 1..(Len(da) + 1)
           /\ \A s \in DOMAIN da : da'[s] = da[s]
           /\ \A s \in DOMAIN da' : s \in DOMAIN da \/ s = Len(da) + 1
           /\ da'[Len(da) + 1].run = run
           /\ da'[Len(da) + 1].token => mode = "genesis" /\ NoToken(da)
           /\ \E batch \in {0, 1} : End(da') = End(da) + batch
<1>1. PICK batch \in {0, 1}, token \in BOOLEAN :
         /\ da' \in Seq(Slot) /\ Len(da') = Len(da) + 1 /\ End(da') = End(da) + batch
         /\ \A s \in 1..Len(da) : da'[s] = da[s]
         /\ da'[Len(da) + 1] = [run |-> run, end |-> End(da) + batch, token |-> token]
         /\ token => mode = "genesis" /\ NoToken(da)
  BY ProducedSlot
<1>2. da \in Seq(Slot)
  BY Produced
<1>3. /\ Len(da) \in Nat /\ DOMAIN da = 1..Len(da)
      /\ DOMAIN da' = 1..Len(da')
  BY <1>1, <1>2
<1>4. /\ da'[Len(da) + 1].run = run
      /\ da'[Len(da) + 1].token => mode = "genesis" /\ NoToken(da)
  BY <1>1
<1>5. DOMAIN da' = 1..(Len(da) + 1)
  BY <1>1, <1>3
<1>6. /\ DOMAIN da \subseteq DOMAIN da'
      /\ \A s \in DOMAIN da' : s \in DOMAIN da \/ s = Len(da) + 1
  BY <1>3, <1>5
<1>7. QED
  BY <1>1, <1>2, <1>3, <1>4, <1>5, <1>6

\* What the node opens has grown from the base file.
LEMMA SpawnGrown ==
    ASSUME AllInv, Spawn
    PROVE  Grown(base', da', DOMAIN snap, versions)
<1>1. base' = (IF base = NoFile THEN <<>> ELSE base) /\ da' = Opened(base, wal)
  BY DEF Spawn
<1>2. CASE base = NoFile
  BY <1>1, <1>2, NoBlocks DEF Grown
<1>3. CASE base # NoFile
  <2>1. End(base) \in Nat
    BY <1>3, EndIsCount DEF AllInv, Inductive, TypeOK, IsDatabase
  <2>2. CASE wal = NoFile \/ wal.full = base
    BY <1>1, <1>3, <2>1, <2>2 DEF Opened, Grown
  <2>3. CASE wal # NoFile /\ wal.full # base /\ wal.over = base
    <3>1. da' = wal.full
      BY <1>1, <1>3, <2>3 DEF Opened
    <3>2. Grown(wal.over, wal.full, DOMAIN snap, versions)
      BY <2>3 DEF AllInv, SetupInv, PairInv
    <3>3. QED
      BY <1>1, <1>3, <2>3, <3>1, <3>2
  <2>4. CASE wal # NoFile /\ wal.full # base /\ wal.over # base
    <3>1. Durable(base, DOMAIN snap, versions)
      BY <1>3, <2>4 DEF AllInv, SetupInv, PairInv
    <3>2. QED
      BY <1>1, <1>3, <3>1 DEF Grown
  <2>5. QED
    BY <2>2, <2>3, <2>4
<1>4. QED
  BY <1>2, <1>3

LEMMA StopHeights ==
    ASSUME AllInv
    PROVE  /\ versions \in Nat \ {0} /\ BlocksPerVersion \in Nat \ {0}
           /\ StopHeight(versions, BlocksPerVersion) \in Nat
           /\ StopHeight(versions - 1, BlocksPerVersion) \in Nat
           /\ StopHeight(versions - 1, BlocksPerVersion)
                  <= StopHeight(versions, BlocksPerVersion)
<1>1. versions \in Nat \ {0} /\ BlocksPerVersion \in Nat \ {0}
  BY DataConstants DEF AllInv, Inductive, TypeOK
<1>2. versions - 1 \in Nat /\ versions = (versions - 1) + 1
  BY <1>1
<1>3. \A m \in Nat : /\ m * BlocksPerVersion \in Nat
                     /\ (m + 1) * BlocksPerVersion = m * BlocksPerVersion + BlocksPerVersion
  BY <1>1, Z3
<1>4. \A m \in Nat : m * BlocksPerVersion <= (m + 1) * BlocksPerVersion
  BY <1>1, <1>3
<1>5. QED
  BY <1>1, <1>2, <1>3, <1>4 DEF StopHeight

\* From genesis, no replayed slot is the manual setup's.
LEMMA ManualStarts ==
    ASSUME AllInv, ManualSetup, pc' = "soaking"
    PROVE  Foreign' /\ GenesisProgress' /\ mode' = "genesis"
<1>1. /\ NoToken(da) /\ pc = "manual" /\ mode = "genesis"
      /\ UNCHANGED <<base, da, run, mode, snap, versions>>
  BY DEF AllInv, Inductive, PhaseInv, ManualSetup, Abort, working, current, users
<1>2. Foreign
  BY <1>1, Zenon DEF NoToken, Foreign
<1>3. Foreign'
  BY <1>1, <1>2 DEF Foreign
<1>4. GenesisProgress'
  <2>1. NoToken(da') /\ \A s \in DOMAIN da' : ~da'[s].token
    BY <1>1, Zenon DEF NoToken
  <2>2. QED
    BY <2>1, Zenon DEF GenesisProgress
<1>5. QED
  BY <1>1, <1>3, <1>4

\* An append starts with the batches of the old versions, its snapshots' slots.
LEMMA AppendStarts ==
    ASSUME AllInv, SavedUpToTheVersion, Resync, pc' = "soaking", mode = "append"
    PROVE  Foreign' /\ AppendProgress'
<1>1. /\ Agrees(da) /\ pc = "resyncing" /\ savedTo' = LastRecorded
      /\ UNCHANGED <<base, da, run, mode, snap, versions>>
  BY DEF Resync, Abort, working, current, users
<1>2. /\ End(da) = StopHeight(versions - 1, BlocksPerVersion)
      /\ TokenRecorded(da, DOMAIN snap)
  BY <1>1, ResyncedEnd
<1>3. da \in Seq(Slot) /\ Counted(da)
  BY DEF AllInv, SetupInv, CountInv, AllBlocks, Inductive, TypeOK
<1>4. \A s \in DOMAIN da : da[s].end <= StopHeight(versions - 1, BlocksPerVersion)
  BY <1>2, <1>3, CountedEnds
<1>5. Foreign'
  <2>1. Foreign
    BY <1>4 DEF Foreign
  <2>2. QED
    BY <1>1, <2>1 DEF Foreign
<1>6. AppendProgress'
  <2>1. Durable(base, DOMAIN snap, versions)
    BY <1>1 DEF AllInv, SetupInv, RestoreInv
  <2>2. LastRecorded \in DOMAIN snap
    BY <1>1, LastIsRecorded DEF Agrees
  <2>3. End(da) <= StopHeight(versions, BlocksPerVersion)
    BY <1>2, StopHeights
  <2>4. QED
    BY <1>1, <1>2, <2>1, <2>2, <2>3 DEF AppendProgress
<1>7. QED
  BY <1>5, <1>6

\* A slot more is the run's own, and not past its stop height.
LEMMA ProduceProgress ==
    ASSUME AllInv, Produce, mode # "test"
    PROVE  /\ Foreign'
           /\ mode = "append" => AppendProgress'
           /\ mode = "genesis" => GenesisProgress'
<1>1. /\ UNCHANGED <<base, snap, versions, run, mode, savedTo>> /\ pc = "soaking"
      /\ End(da) < StopHeight(versions, BlocksPerVersion) /\ Counted(da)
  BY Produced DEF StopAt
<1>2. /\ da \in Seq(Slot) /\ da' \in Seq(Slot) /\ Len(da) \in Nat
      /\ Len(da') = Len(da) + 1 /\ DOMAIN da = 1..Len(da)
      /\ DOMAIN da \subseteq DOMAIN da' /\ DOMAIN da' = 1..(Len(da) + 1)
      /\ \A s \in DOMAIN da : da'[s] = da[s]
      /\ \A s \in DOMAIN da' : s \in DOMAIN da \/ s = Len(da) + 1
      /\ da'[Len(da) + 1].run = run
      /\ da'[Len(da) + 1].token => mode = "genesis" /\ NoToken(da)
      /\ \E batch \in {0, 1} : End(da') = End(da) + batch
  BY ProducedSlots
<1>3. Foreign /\ (mode = "append" => AppendProgress) /\ (mode = "genesis" => GenesisProgress)
  BY <1>1 DEF AllInv, SetupInv, SoakInv
<1>4. End(da') <= StopHeight(versions, BlocksPerVersion)
  <2>1. End(da) \in Nat
    BY <1>1, <1>2, CountedEnds
  <2>2. QED
    BY <1>1, <1>2, <2>1, StopHeights
<1>5. Foreign'
  <2>1. \A s \in DOMAIN da' :
           da'[s].run # run => IF mode = "append"
                               THEN da'[s].end <= StopHeight(versions - 1, BlocksPerVersion)
                               ELSE ~da'[s].token
    BY <1>2, <1>3 DEF Foreign
  <2>2. QED
    BY <1>1, <2>1 DEF Foreign
<1>6. ASSUME mode = "append"
      PROVE  AppendProgress'
  <2>1. AppendProgress
    BY <1>3, <1>6
  <2>2. TokenRecorded(da', DOMAIN snap)
    BY <1>2, <2>1 DEF AppendProgress, TokenRecorded
  <2>3. QED
    BY <1>1, <1>4, <2>1, <2>2 DEF AppendProgress
<1>7. ASSUME mode = "genesis"
      PROVE  GenesisProgress'
  <2>1. GenesisProgress
    BY <1>3, <1>7
  <2>2. savedTo \in Nat
    BY DEF AllInv, Inductive, TypeOK
  <2>3. savedTo <= Len(da)
    BY <1>1, <1>7 DEF AllInv, SetupInv, SoakInv
  <2>4. Durable(base, DOMAIN snap, versions) \/ \A s \in DOMAIN da' : da'[s].token => Len(base) < s
    <3>1. CASE Durable(base, DOMAIN snap, versions)
      BY <3>1
    <3>2. CASE ~Durable(base, DOMAIN snap, versions)
      <4>1. \A s \in DOMAIN da : da[s].token => Len(base) < s
        BY <2>1, <3>2 DEF GenesisProgress
      <4>2. Len(base) <= Len(da)
        BY <1>1, <3>2 DEF AllInv, SetupInv, SoakInv, NodeRuns, Grown
      <4>3. Len(base) \in Nat
        BY <1>1 DEF AllInv, Inductive, TypeOK, IsDatabase, FilesInv, NodeRuns
      <4>4. Len(base) < Len(da) + 1
        BY <1>2, <4>2, <4>3
      <4>5. QED
        BY <1>2, <4>1, <4>4
    <3>3. QED
      BY <3>1, <3>2
  <2>5. \A s \in DOMAIN da' : s <= savedTo => s \in DOMAIN da
    BY <1>2, <2>2, <2>3
  <2>6. \A s \in DOMAIN da' : da'[s].token /\ s <= savedTo => s \in DOMAIN snap
    BY <1>2, <2>1, <2>5 DEF GenesisProgress
  <2>7. savedTo \in DOMAIN snap \/ \A s \in DOMAIN da' : s <= savedTo => ~da'[s].token
    BY <1>2, <2>1, <2>5 DEF GenesisProgress
  <2>8. QED
    BY <1>1, <1>4, <2>4, <2>6, <2>7 DEF GenesisProgress
<1>8. QED
  BY <1>5, <1>6, <1>7

\* A saved slot has its snapshot.
LEMMA SaveProgress ==
    ASSUME AllInv, SaveSnapshot
    PROVE  /\ Foreign'
           /\ mode = "append" => AppendProgress'
           /\ mode = "genesis" => GenesisProgress'
<1>1. /\ UNCHANGED <<base, da, run, mode, versions>> /\ pc = "soaking" /\ mode # "test"
      /\ savedTo' = savedTo + 1 /\ DOMAIN snap' = DOMAIN snap \cup {savedTo + 1}
      /\ ~ClearData
  BY DEF SaveSnapshot, WithSnapshot, working, current, users, ClearData
<1>2. Foreign /\ (mode = "append" => AppendProgress) /\ (mode = "genesis" => GenesisProgress)
  BY <1>1 DEF AllInv, SetupInv, SoakInv
<1>3. Durable(base, DOMAIN snap, versions) => Durable(base, DOMAIN snap', versions')
  <2>1. [Next]_vars
    BY DEF Next, Generate
  <2>2. QED
    BY Keeps, <1>1, <2>1
<1>4. Foreign'
  BY <1>1, <1>2 DEF Foreign
<1>5. ASSUME mode = "append"
      PROVE  AppendProgress'
  <2>1. AppendProgress
    BY <1>2, <1>5
  <2>2. TokenRecorded(da, DOMAIN snap')
    BY <1>1, <2>1 DEF AppendProgress, TokenRecorded
  <2>3. QED
    BY <1>1, <1>3, <2>1, <2>2 DEF AppendProgress
<1>6. ASSUME mode = "genesis"
      PROVE  GenesisProgress'
  <2>1. GenesisProgress
    BY <1>2, <1>6
  <2>2. savedTo \in Nat /\ da \in Seq(Slot) /\ DOMAIN da = 1..Len(da) /\ Len(da) \in Nat
    BY DEF AllInv, Inductive, TypeOK
  <2>3. \A s \in DOMAIN da : s <= savedTo' => s <= savedTo \/ s = savedTo + 1
    BY <1>1, <2>2
  <2>4. \A s \in DOMAIN da : da[s].token /\ s <= savedTo' => s \in DOMAIN snap'
    BY <1>1, <2>1, <2>3 DEF GenesisProgress
  <2>5. savedTo' \in DOMAIN snap'
    BY <1>1
  <2>6. \/ Durable(base, DOMAIN snap', versions')
        \/ \A s \in DOMAIN da : da[s].token => Len(base) < s
    BY <1>3, <2>1 DEF GenesisProgress
  <2>7. QED
    BY <1>1, <2>1, <2>4, <2>5, <2>6 DEF GenesisProgress
<1>7. QED
  BY <1>4, <1>5, <1>6

LEMMA SoakStep ==
    ASSUME AllInv, SavedUpToTheVersion, [Next]_vars
    PROVE  SoakInv'
<1>1. SoakInv /\ PhaseInv /\ TypeOK
  BY DEF AllInv, SetupInv, Inductive
<1>2. CASE pc' \notin {"manual", "resyncing", "soaking"}
  BY <1>2 DEF SoakInv, NodeRuns
<1>3. CASE \/ RemoveStale \/ CopyBase \/ CopySidecars
           \/ \E kind \in {"setup", "test"}, policy \in Policies : Prepare(kind, policy)
  <2>1. pc' \notin {"manual", "resyncing", "soaking"}
    BY <1>3 DEF RemoveStale, CopyBase, CopySidecars, Prepare
  <2>2. QED
    BY <1>2, <2>1
<1>4. CASE Spawn
  <2>1. UNCHANGED <<snap, versions>> /\ pc' \in {"manual", "resyncing"}
    BY <1>4 DEF Spawn, users
  <2>2. Grown(base', da', DOMAIN snap, versions)
    BY <1>4, SpawnGrown
  <2>3. QED
    BY <2>1, <2>2 DEF SoakInv
<1>5. CASE (ManualSetup \/ Resync) /\ pc' = "soaking"
  <2>1. /\ UNCHANGED <<base, da, snap, versions, mode>>
        /\ pc = (IF mode = "genesis" THEN "manual" ELSE "resyncing")
        /\ NodeRuns
    BY <1>1, <1>5 DEF PhaseInv, ManualSetup, Resync, Abort, working, current, users, NodeRuns
  <2>2. Grown(base', da', DOMAIN snap', versions')
    BY <1>1, <2>1 DEF SoakInv
  <2>3. mode # "test" => Foreign'
    BY <1>1, <1>5, <2>1, ManualStarts, AppendStarts DEF TypeOK, Resync
  <2>4. mode = "append" => AppendProgress'
    BY <1>5, <2>1, AppendStarts DEF ManualSetup
  <2>5. mode = "genesis" => GenesisProgress'
    BY <1>5, <2>1, ManualStarts DEF Resync
  <2>6. savedTo' <= Len(da')
    <3>1. CASE ManualSetup
      <4>1. savedTo' = Len(da) /\ Len(da) \in Nat
        BY <1>1, <1>5, <3>1 DEF ManualSetup, Abort, TypeOK
      <4>2. QED
        BY <2>1, <4>1
    <3>2. CASE Resync
      <4>1. Agrees(da) /\ savedTo' = LastRecorded
        BY <1>5, <3>2 DEF Resync, Abort
      <4>2. LastRecorded \in DOMAIN snap
        BY <4>1, LastIsRecorded DEF Agrees
      <4>3. QED
        BY <2>1, <4>1, <4>2 DEF Agrees
    <3>3. QED
      BY <1>5, <3>1, <3>2
  <2>7. QED
    BY <1>5, <2>1, <2>2, <2>3, <2>4, <2>5, <2>6 DEF SoakInv
<1>6. CASE Produce
  <2>1. UNCHANGED <<base, snap, versions, mode, pc, savedTo>> /\ pc = "soaking" /\ NodeRuns
    BY <1>6, Produced DEF NodeRuns
  <2>2. Len(da) \in Nat /\ Len(da') = Len(da) + 1
    BY <1>6, ProducedSlots
  <2>3. Grown(base, da', DOMAIN snap, versions)
    <3>1. Grown(base, da, DOMAIN snap, versions)
      BY <1>1, <2>1 DEF SoakInv
    <3>2. Len(base) \in Nat
      BY <1>1, <2>1 DEF TypeOK, IsDatabase, AllInv, Inductive, FilesInv
    <3>3. Len(base) <= Len(da) => Len(base) <= Len(da')
      BY <2>2, <3>2
    <3>4. QED
      BY <3>1, <3>3 DEF Grown
  <2>4. savedTo <= Len(da')
    <3>1. savedTo \in Nat /\ savedTo <= Len(da)
      BY <1>1, <2>1 DEF SoakInv, TypeOK
    <3>2. QED
      BY <2>2, <3>1
  <2>5. mode # "test" => Foreign'
    BY <1>6, ProduceProgress
  <2>6. /\ mode = "append" => AppendProgress'
        /\ mode = "genesis" => GenesisProgress'
    BY <1>6, ProduceProgress
  <2>7. QED
    BY <2>1, <2>3, <2>4, <2>5, <2>6 DEF SoakInv
<1>7. CASE SaveSnapshot
  <2>1. /\ UNCHANGED <<base, da, versions, pc, mode>> /\ pc = "soaking" /\ NodeRuns
        /\ savedTo' = savedTo + 1 /\ savedTo < Len(da) /\ ~ClearData
    BY <1>7 DEF SaveSnapshot, working, current, users, NodeRuns, ClearData
  <2>2. Grown(base, da, DOMAIN snap', versions')
    BY <1>1, <2>1, Keeps DEF SoakInv
  <2>3. savedTo' <= Len(da')
    BY <1>1, <2>1 DEF TypeOK
  <2>4. /\ Foreign'
        /\ mode = "append" => AppendProgress'
        /\ mode = "genesis" => GenesisProgress'
    BY <1>7, SaveProgress
  <2>5. QED
    BY <2>1, <2>2, <2>3, <2>4 DEF SoakInv
<1>8. CASE UNCHANGED vars
  <2>1. /\ UNCHANGED <<base, da, mode, versions, pc, snap, savedTo>>
        /\ NodeRuns' = NodeRuns /\ Foreign' = Foreign
        /\ AppendProgress' = AppendProgress /\ GenesisProgress' = GenesisProgress
    BY <1>8 DEF vars, working, current, users, NodeRuns, Foreign, AppendProgress,
         GenesisProgress, TokenRecorded, NoToken
  <2>2. QED
    BY <1>1, <2>1 DEF SoakInv
<1>9. QED
  BY <1>2, <1>3, <1>4, <1>5, <1>6, <1>7, <1>8
     DEF Next, Start, Refuse, Restore, Generate, ManualSetup, Resync, SoakEnds, Abort,
         Conclude, WriteBaseline, SaveBase, SaveSidecars, CheckBaseline, Cleanup,
         FailWithNode, FailWithoutNode, GrowSpec, ClearData

\* A setup whose soak ends has a durable database, whichever file it is in.
LEMMA SoakCompletes ==
    ASSUME AllInv, SavedUpToTheVersion, SoakEnds, mode # "test"
    PROVE  /\ \A d \in Blocks(base', wal') : Durable(d, DOMAIN snap, versions)
           /\ Generated
<1>1. /\ pc = "soaking" /\ End(da) >= StopHeight(versions, BlocksPerVersion)
      /\ Len(da) - savedTo <= MaxUnsaved /\ CloseDatabase
      /\ mode = "genesis" => \E s \in 1..savedTo : da[s].token
  BY DEF SoakEnds, StopAt
<1>2. /\ Foreign
      /\ mode = "append" => AppendProgress
      /\ mode = "genesis" => GenesisProgress
      /\ savedTo <= Len(da)
  BY <1>1 DEF AllInv, SetupInv, SoakInv
<1>3. da \in Seq(Slot) /\ Counted(da) /\ savedTo \in Nat /\ mode \in {"genesis", "append"}
  BY DEF AllInv, SetupInv, CountInv, AllBlocks, Inductive, TypeOK
<1>4. End(da) \in Nat /\ Len(da) \in Nat /\ DOMAIN da = 1..Len(da)
  BY <1>3, CountedEnds
<1>5. ASSUME mode = "genesis"
      PROVE  \E s \in DOMAIN da : da[s].token /\ s <= savedTo
  BY <1>1, <1>2, <1>3, <1>4, <1>5
<1>6. End(da) <= StopHeight(versions, BlocksPerVersion) /\ savedTo \in DOMAIN snap
  <2>1. CASE mode = "append"
    BY <1>2, <2>1 DEF AppendProgress
  <2>2. CASE mode = "genesis"
    BY <1>2, <1>5, <2>2, Zenon DEF GenesisProgress, NoToken
  <2>3. QED
    BY <1>3, <2>1, <2>2
<1>7. TokenRecorded(da, DOMAIN snap)
  <2>1. CASE mode = "append"
    BY <1>2, <2>1 DEF AppendProgress
  <2>2. CASE mode = "genesis"
    BY <1>2, <1>5, <2>2, Zenon DEF GenesisProgress, TokenRecorded
  <2>3. QED
    BY <1>3, <2>1, <2>2
<1>8. End(da) = StopHeight(versions, BlocksPerVersion)
  BY <1>1, <1>4, <1>6, StopHeights
<1>9. Durable(da, DOMAIN snap, versions)
  <2>1. versions \in 1..versions
    BY StopHeights
  <2>2. QED
    BY <1>1, <1>6, <1>7, <1>8, <2>1 DEF Durable, Completed
<1>10. Durable(base, DOMAIN snap, versions)
  <2>1. CASE mode = "append"
    BY <1>2, <2>1 DEF AppendProgress
  <2>2. CASE mode = "genesis"
    <3>1. PICK s \in DOMAIN da : da[s].token /\ s <= savedTo
      BY <1>5, <2>2
    <3>2. s \in DOMAIN snap
      BY <1>2, <2>2, <3>1 DEF GenesisProgress
    <3>3. Durable(base, DOMAIN snap, versions) \/ Len(base) < s
      BY <1>2, <2>2, <3>1 DEF GenesisProgress
    <3>4. QED
      BY <3>2, <3>3 DEF Durable
  <2>3. QED
    BY <1>3, <2>1, <2>2
<1>11. Blocks(base', wal') \subseteq {base, da}
  <2>1. base' \in {base, da}
    BY <1>1 DEF CloseDatabase
  <2>2. wal' = NoFile \/ (wal'.over = base /\ wal'.full = da)
    BY <1>1 DEF CloseDatabase, Wal
  <2>3. QED
    BY <2>1, <2>2 DEF Blocks
<1>12. QED
  BY <1>2, <1>7, <1>8, <1>9, <1>10, <1>11 DEF Generated

LEMMA SavingStep ==
    ASSUME AllInv, SavedUpToTheVersion, [Next]_vars
    PROVE  SavingInv'
<1>1. SavingInv /\ PhaseInv
  BY DEF AllInv, SetupInv, Inductive
<1>2. CASE SoakEnds
  <2>1. /\ UNCHANGED <<snap, versions, run, mode, da, result>> /\ pc = "soaking"
        /\ pc' = IF mode = "test" THEN "checking" ELSE "baseline"
    BY <1>2 DEF SoakEnds, users, current
  <2>2. result' # "ok"
    BY <1>1, <2>1 DEF PhaseInv
  <2>3. mode # "test" => Generated
    BY <1>2, SoakCompletes
  <2>4. (mode # "test" => Generated)'
    BY <2>1, <2>3 DEF Generated, Foreign, TokenRecorded
  <2>5. mode # "test" => \A d \in Blocks(base', wal') : Durable(d, DOMAIN snap', versions')
    BY <1>2, <2>1, SoakCompletes
  <2>6. QED
    BY <2>1, <2>2, <2>4, <2>5 DEF SavingInv
<1>3. CASE WriteBaseline \/ SaveBase \/ SaveSidecars \/ Cleanup
  <2>1. /\ UNCHANGED <<snap, versions, run, mode, da>>
        /\ pc \in {"baseline", "saving_base", "saving_wal", "cleaning"}
    BY <1>3 DEF WriteBaseline, SaveBase, SaveSidecars, Cleanup, users, current
  <2>2. mode # "test" => Generated
    BY <1>1, <2>1 DEF SavingInv
  <2>3. (mode # "test" => Generated)'
    BY <2>1, <2>2 DEF Generated, Foreign, TokenRecorded
  <2>4. pc' \in {"baseline", "saving_base", "saving_wal"} =>
            /\ pc \in {"baseline", "saving_base", "saving_wal"}
            /\ Blocks(base', wal') \subseteq Blocks(base, wal)
    BY <1>3 DEF WriteBaseline, SaveBase, SaveSidecars, Cleanup, working, Blocks
  <2>5. QED
    BY <1>1, <2>1, <2>3, <2>4 DEF SavingInv
<1>4. CASE UNCHANGED vars
  <2>1. /\ UNCHANGED <<snap, versions, mode, pc, result>>
        /\ Blocks(base', wal') = Blocks(base, wal)
        /\ Generated' = Generated
    BY <1>4 DEF vars, working, current, users, Blocks, Generated, Foreign, TokenRecorded
  <2>2. QED
    BY <1>1, <2>1 DEF SavingInv
<1>5. CASE \/ GrowSpec \/ ClearData \/ FailWithNode \/ FailWithoutNode \/ CheckBaseline
           \/ \E kind \in {"setup", "test"}, policy \in Policies :
                  Refuse(kind, policy) \/ Prepare(kind, policy)
  <2>1. CASE CheckBaseline
    <3>1. mode' = "test" /\ pc' \in {"cleaning", "idle"}
      BY <1>1, <2>1 DEF PhaseInv, CheckBaseline, current
    <3>2. QED
      BY <3>1 DEF SavingInv
  <2>2. CASE ~CheckBaseline
    <3>1. /\ pc' \notin {"baseline", "saving_base", "saving_wal", "cleaning"}
          /\ result' # "ok"
      BY <1>1, <1>5, <2>2 DEF GrowSpec, ClearData, FailWithNode, FailWithoutNode, Abort,
           Refuse, Prepare
    <3>2. QED
      BY <3>1 DEF SavingInv
  <2>3. QED
    BY <2>1, <2>2
<1>6. CASE Restore \/ Spawn \/ ManualSetup \/ Resync \/ Produce \/ SaveSnapshot
  <2>1. /\ pc # "idle"
        /\ pc' \notin {"baseline", "saving_base", "saving_wal", "cleaning"}
    BY <1>6 DEF Restore, RemoveStale, CopyBase, CopySidecars, Spawn, ManualSetup, Resync,
         Produce, SaveSnapshot, Abort
  <2>2. result' # "ok"
    BY <1>1, <1>6, <2>1 DEF PhaseInv, Restore, RemoveStale, CopyBase, CopySidecars, Spawn,
         ManualSetup, Resync, Produce, SaveSnapshot, Abort
  <2>3. QED
    BY <2>1, <2>2 DEF SavingInv
<1>7. QED
  BY <1>2, <1>3, <1>4, <1>5, <1>6 DEF Next, Start, Generate, Conclude
-----------------------------------------------------------------------------
LEMMA InitSetup == Init => SetupInv
<1> SUFFICES ASSUME Init PROVE SetupInv
  OBVIOUS
<1>1. /\ base = NoFile /\ wal = NoFile /\ pbase = NoFile /\ pwal = NoFile /\ da = <<>>
      /\ pc = "idle" /\ mode = "genesis" /\ result = "none" /\ run = 0 /\ DOMAIN snap = {}
  BY DEF Init, NoSnapshots
<1>2. AllBlocks = {<<>>} /\ Blocks(pbase, pwal) = {}
  BY <1>1 DEF AllBlocks, Blocks
<1>3. CountInv /\ DurableInv /\ PairInv
  BY <1>1, <1>2, NoBlocks DEF CountInv, DurableInv, PairInv
<1>4. RestoreInv /\ SoakInv /\ SavingInv
  BY <1>1 DEF RestoreInv, SoakInv, SavingInv, Opening, NodeRuns
<1>5. QED
  BY <1>3, <1>4 DEF SetupInv

\* The files a setup works on, and its progress, through every failure and kill.
THEOREM SetupInvHolds == ASSUME SavedUpToTheVersion PROVE Spec => [](Inductive /\ SetupInv)
<1>1. Init => AllInv
  BY InitInductive, InitSetup DEF AllInv
<1>2. AllInv /\ [Next]_vars => AllInv'
  <2> SUFFICES ASSUME AllInv, [Next]_vars PROVE AllInv'
    OBVIOUS
  <2>1. Inductive'
    BY TypeStep, FilesStep, PhaseStep, TestStep, AppendStep, BaselineStep
       DEF AllInv, Inductive
  <2>2. SetupInv'
    BY CountStep, DurableStep, PairStep, RestoreStep, SoakStep, SavingStep
       DEF SetupInv
  <2>3. QED
    BY <2>1, <2>2 DEF AllInv
<1>3. AllInv <=> Inductive /\ SetupInv
  BY DEF AllInv
<1>4. QED
  BY <1>1, <1>2, <1>3, PTL DEF Spec

\* Whatever killed runs left in the MockDA's files, a setup that reports success ends
\* at its versions' stop height and has recorded the manual setup; no batch of an
\* append's new version, and no manual setup of a regeneration, is an earlier run's.
THEOREM SetupsGenerateTheirVersions ==
    ASSUME SavedUpToTheVersion PROVE Spec => []OkSetupGeneratesItsVersions
<1>1. Inductive /\ SetupInv => OkSetupGeneratesItsVersions
  BY DEF SetupInv, SavingInv, OkSetupGeneratesItsVersions, Generated, Foreign, TokenRecorded
<1>2. QED
  BY <1>1, SetupInvHolds, PTL
=============================================================================
