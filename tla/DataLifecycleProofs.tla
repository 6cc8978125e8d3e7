------------------------ MODULE DataLifecycleProofs ------------------------
(***************************************************************************)
(* Proofs about DataLifecycle, for any number of runs and versions: what   *)
(* the verdict of a test and of an append is about, whatever earlier runs  *)
(* left on disk, and what the throughput baseline is.                      *)
(***************************************************************************)
EXTENDS DataLifecycle, WellFoundedInduction, NaturalsInduction, TLAPS

\* Slots are counted from one, and a node runs on an existing database.
FilesInv ==
    /\ DOMAIN snap \subseteq Nat \ {0}
    /\ NodeRuns => base # NoFile

\* A run has a result only once it has ended, and a phase only in its modes.
PhaseInv ==
    /\ pc # "idle" => result = "none"
    /\ pc = "manual" => mode = "genesis"
    /\ pc = "resyncing" => mode # "genesis"
    /\ pc \in {"baseline", "saving_base", "saving_wal"} => mode # "test"
    /\ pc = "checking" => mode = "test"
    /\ result = "mismatch" => mode # "genesis"

\* The MockDA's files as a test restores them.
Restoring ==
    /\ pc = "copying_base" => wal = NoFile
    /\ pc = "copying_wal" => base = pbase /\ wal = NoFile
    /\ pc = "spawning" => base = pbase /\ wal = pwal
    /\ pc = "resyncing" => da = Opened(pbase, pwal)

\* A test runs on the durable MockDA, restored file by file, and decides on it.
TestInv ==
    mode = "test" =>
        /\ Restoring
        /\ pc \in {"soaking", "checking", "cleaning"} \/ result = "ok" =>
              Agrees(Opened(pbase, pwal))
        /\ result = "mismatch" => ~Agrees(Opened(pbase, pwal))

\* The snapshots of an append are those of its MockDA from the resync on.
AppendInv ==
    mode = "append" =>
        (pc \in {"soaking", "baseline", "saving_base", "saving_wal", "cleaning"}
            \/ result = "ok" => Agrees(da))

\* Without a readable baseline, no setup is accounted for; a setup has one as soon
\* as it has written its report.
BaselineInv ==
    /\ \/ baseline \in Throughputs /\ best = baseline
       \/ baseline \in {NoFile, Torn} /\ best = 0
    /\ pc \in {"saving_base", "saving_wal"} => baseline \in Throughputs
    /\ (pc = "cleaning" \/ result = "ok") /\ mode # "test" => baseline \in Throughputs

Inductive == TypeOK /\ FilesInv /\ PhaseInv /\ TestInv /\ AppendInv /\ BaselineInv
-----------------------------------------------------------------------------
\* The last recorded slot of a nonempty set of recorded slots, none of which is
\* past n, is one of them and the greatest.
LEMMA MaxIsGreatest ==
    ASSUME NEW S \in SUBSET Nat, S # {}, NEW n \in Nat, \A s \in S : s <= n
    PROVE  Max(S) \in S /\ \A s \in S : s <= Max(S)
<1> DEFINE Bounds == {b \in Nat : \A s \in S : s <= b}
<1>1. Bounds \subseteq Nat /\ Bounds # {}
  OBVIOUS
<1>2. PICK b \in Bounds : \A c \in Bounds : ~(<<c, b>> \in OpToRel(<, Nat))
  BY <1>1, NatLessThanWellFounded, WFMin
<1>3. \A c \in Bounds : ~(c < b)
  <2>1. Bounds \subseteq Nat
    OBVIOUS
  <2> HIDE DEF Bounds
  <2> QED  BY <1>2, <2>1, Zenon DEF OpToRel
<1>4. b \in S
  <2> SUFFICES ASSUME b \notin S PROVE FALSE
    OBVIOUS
  <2>1. \A s \in S : s <= b - 1 /\ b - 1 \in Nat
    OBVIOUS
  <2>2. b - 1 \in Bounds
    BY <2>1
  <2> QED  BY <2>2, <1>3
<1>5. \E x \in S : \A y \in S : x >= y
  BY <1>4
<1> QED  BY <1>5 DEF Max
-----------------------------------------------------------------------------
\* The files a run finds, opens and leaves are databases.

\* Opening a database with any -wal file yields blocks.
LEMMA OpenedIsBlocks ==
    ASSUME NEW b, NEW w, IsDatabase(b), IsWal(w)
    PROVE  Opened(b, w) \in Seq(Slot)
<1>1. Garbled \in Seq(Slot)
  <2>1. [run |-> 0, end |-> 0, token |-> FALSE] \in Slot
    BY DataConstants DEF Slot
  <2> QED  BY <2>1 DEF Garbled
<1>2. <<>> \in Seq(Slot)
  OBVIOUS
<1> QED  BY <1>1, <1>2 DEF Opened, IsDatabase, IsWal

\* A database counts its batches.
LEMMA EndIsCount == ASSUME NEW d \in Seq(Slot) PROVE End(d) \in Nat
<1>1. CASE d = <<>>
  BY <1>1 DEF End
<1>2. CASE d # <<>>
  <2>1. d[Len(d)] \in Slot
    BY <1>2
  <2> QED  BY <1>2, <2>1 DEF End, Slot
<1> QED  BY <1>1, <1>2

\* A node leaves its database closed, or with its blocks in a -wal file.
LEMMA ClosedIsDatabase ==
    ASSUME TypeOK, base # NoFile, CloseDatabase
    PROVE  IsDatabase(base') /\ IsWal(wal')
BY DEF TypeOK, IsDatabase, IsWal, CloseDatabase, Wal

\* The slots of a database that agrees with the snapshots end at or after the
\* last recorded one.
LEMMA LastRecordedIsSlot ==
    ASSUME TypeOK, Agrees(da)
    PROVE  LastRecorded \in DOMAIN snap /\ LastRecorded \in Nat
<1>1. DOMAIN snap \in SUBSET Nat /\ DOMAIN snap # {} /\ Len(da) \in Nat
  BY DEF TypeOK, Agrees, HasSnapshots
<1>2. \A s \in DOMAIN snap : s <= Len(da)
  BY DEF Agrees
<1>3. Max(DOMAIN snap) \in DOMAIN snap
  BY <1>1, <1>2, MaxIsGreatest
<1> QED  BY <1>1, <1>3 DEF LastRecorded
-----------------------------------------------------------------------------
\* Every step keeps the types.
LEMMA TypeStep == Inductive /\ [Next]_vars => TypeOK'
<1> SUFFICES ASSUME Inductive, [Next]_vars PROVE TypeOK'
  OBVIOUS
<1> USE DEF Inductive, TypeOK, Labels, Results
<1>1. ASSUME NEW kind \in {"setup", "test"}, NEW policy \in Policies,
             Refuse(kind, policy)
      PROVE  TypeOK'
  BY <1>1 DEF Refuse, users, working, durable, reports, current
<1>2. ASSUME NEW kind \in {"setup", "test"}, NEW policy \in Policies,
             Prepare(kind, policy)
      PROVE  TypeOK'
  <2>1. run' \in 0..MaxRuns /\ mode' \in {"genesis", "append", "test"}
    BY <1>2, DataConstants DEF Prepare, ModeOf
  <2>2. da' \in Seq(Slot) /\ savedTo' \in Nat
    BY <1>2 DEF Prepare
  <2> QED  BY <1>2, <2>1, <2>2 DEF Prepare, users, working, durable, reports
<1>3. CASE RemoveStale
  BY <1>3 DEF RemoveStale, users, durable, reports, current, IsDatabase, IsWal
<1>4. CASE CopyBase
  BY <1>4 DEF CopyBase, users, durable, reports, current, IsDatabase, IsWal
<1>5. CASE CopySidecars
  BY <1>5 DEF CopySidecars, users, durable, reports, current, IsDatabase, IsWal
<1>6. CASE Spawn
  <2>1. da' \in Seq(Slot)
    BY <1>6, OpenedIsBlocks DEF Spawn
  <2>2. IsDatabase(base')
    BY <1>6 DEF Spawn, IsDatabase
  <2> QED  BY <1>6, <2>1, <2>2 DEF Spawn, users, durable, reports
<1>7. CASE ManualSetup
  <2>1. IsDatabase(base') /\ IsWal(wal')
    BY <1>7, ClosedIsDatabase DEF ManualSetup, Abort, working, FilesInv, NodeRuns
  <2>2. savedTo' \in Nat
    BY <1>7 DEF ManualSetup
  <2> QED  BY <1>7, <2>1, <2>2 DEF ManualSetup, Abort, users, durable, reports, current
<1>8. CASE Resync
  <2>1. IsDatabase(base') /\ IsWal(wal')
    BY <1>8, ClosedIsDatabase DEF Resync, Abort, working, FilesInv, NodeRuns
  <2>2. savedTo' \in Nat
    BY <1>8, LastRecordedIsSlot DEF Resync
  <2> QED  BY <1>8, <2>1, <2>2 DEF Resync, Abort, users, durable, reports, current
<1>9. CASE Produce
  <2>1. PICK batch \in {0, 1}, token \in BOOLEAN :
            da' = Append(da, [run |-> run, end |-> End(da) + batch, token |-> token])
    BY <1>9 DEF Produce
  <2>2. [run |-> run, end |-> End(da) + batch, token |-> token] \in Slot
    <3>1. End(da) \in Nat
      BY EndIsCount
    <3> QED  BY <2>1, <3>1 DEF Slot
  <2>3. da' \in Seq(Slot)
    BY <2>1, <2>2
  <2> QED  BY <1>9, <2>3 DEF Produce, users, working, durable, reports
<1>10. CASE SaveSnapshot
  <2>1. savedTo' \in Nat /\ da[savedTo + 1] \in Slot
    BY <1>10 DEF SaveSnapshot
  <2> QED
    BY <1>10, <2>1 DEF SaveSnapshot, WithSnapshot, users, working, durable, reports,
       current
<1>11. CASE SoakEnds
  <2>1. IsDatabase(base') /\ IsWal(wal')
    BY <1>11, ClosedIsDatabase DEF SoakEnds, FilesInv, NodeRuns
  <2> QED  BY <1>11, <2>1 DEF SoakEnds, users, durable, reports, current
<1>12. CASE WriteBaseline
  BY <1>12 DEF WriteBaseline, ShouldOverwrite, users, working, durable, current,
     Throughputs
<1>13. CASE SaveBase
  BY <1>13 DEF SaveBase, users, reports, current, IsDatabase
<1>14. CASE SaveSidecars
  BY <1>14 DEF SaveSidecars, users, reports, current, IsWal
<1>15. CASE CheckBaseline
  BY <1>15 DEF CheckBaseline, users, working, durable, reports, current
<1>16. CASE Cleanup
  BY <1>16 DEF Cleanup, users, working, durable, reports, current
<1>17. CASE FailWithNode
  <2>1. IsDatabase(base') /\ IsWal(wal')
    BY <1>17, ClosedIsDatabase DEF FailWithNode, Abort, FilesInv
  <2>2. DOMAIN snap' \subseteq Nat /\ \A s \in DOMAIN snap' : snap'[s] \in Slot \cup {Torn}
    BY <1>17 DEF FailWithNode, WithSnapshot
  <2> QED  BY <1>17, <2>1, <2>2 DEF FailWithNode, Abort, users, durable, reports, current
<1>18. CASE FailWithoutNode
  BY <1>18 DEF FailWithoutNode, NodeRuns, users, working, durable, reports,
     current, Throughputs
<1>19. CASE GrowSpec
  BY <1>19, DataConstants DEF GrowSpec, working, durable, reports, current,
     users
<1>20. CASE ClearData
  BY <1>20 DEF ClearData, NoSnapshots, users, current, IsDatabase, IsWal,
     Throughputs
<1>21. CASE UNCHANGED vars
  BY <1>21 DEF vars, users, working, durable, reports, current
<1> QED  BY <1>1, <1>2, <1>3, <1>4, <1>5, <1>6, <1>7, <1>8, <1>9, <1>10, <1>11,
   <1>12, <1>13, <1>14, <1>15, <1>16, <1>17, <1>18, <1>19, <1>20, <1>21 DEF
   Next, Start, Restore, Generate, Conclude

\* Every step keeps slots counted from one, and the node's database there.
LEMMA FilesStep == Inductive /\ [Next]_vars => FilesInv'
<1> SUFFICES ASSUME Inductive, [Next]_vars PROVE FilesInv'
  OBVIOUS
<1> USE DEF Inductive, FilesInv, NodeRuns
<1>1. ASSUME NEW kind \in {"setup", "test"}, NEW policy \in Policies,
             Refuse(kind, policy)
      PROVE  FilesInv'
  BY <1>1 DEF Refuse, users, working, durable, reports, current
<1>2. ASSUME NEW kind \in {"setup", "test"}, NEW policy \in Policies,
             Prepare(kind, policy)
      PROVE  FilesInv'
  BY <1>2 DEF Prepare, users, working, durable, reports
<1>3. CASE RemoveStale
  BY <1>3 DEF RemoveStale, users, durable, reports, current
<1>4. CASE CopyBase
  BY <1>4 DEF CopyBase, users, durable, reports, current
<1>5. CASE CopySidecars
  BY <1>5 DEF CopySidecars, users, durable, reports, current
<1>6. CASE Spawn
  <2>1. base' # NoFile
    BY <1>6, MarksAreNoValues DEF Spawn
  <2> QED  BY <1>6, <2>1 DEF Spawn, durable, users, reports
<1>7. CASE ManualSetup
  BY <1>7 DEF ManualSetup, Abort, CloseDatabase, users, working, durable,
     reports, current
<1>8. CASE Resync
  <2>1. CASE Agrees(da)
    BY <1>8, <2>1 DEF Resync, working
  <2>2. CASE ~Agrees(da)
    BY <1>8, <2>2 DEF Resync, Abort
  <2> QED  BY <2>1, <2>2
<1>9. CASE Produce
  BY <1>9 DEF Produce, users, working, durable, reports
<1>10. CASE SaveSnapshot
  BY <1>10 DEF SaveSnapshot, WithSnapshot, users, working, durable, reports,
     current, TypeOK
<1>11. CASE SoakEnds
  BY <1>11 DEF SoakEnds, CloseDatabase, users, durable, reports, current
<1>12. CASE WriteBaseline
  BY <1>12 DEF WriteBaseline, ShouldOverwrite, users, working, durable, current
<1>13. CASE SaveBase
  BY <1>13 DEF SaveBase, users, reports, current
<1>14. CASE SaveSidecars
  BY <1>14 DEF SaveSidecars, users, reports, current
<1>15. CASE CheckBaseline
  BY <1>15 DEF CheckBaseline, users, working, durable, reports, current
<1>16. CASE Cleanup
  BY <1>16 DEF Cleanup, users, working, durable, reports, current
<1>17. CASE FailWithNode
  BY <1>17 DEF FailWithNode, Abort, WithSnapshot, CloseDatabase, users, durable,
     reports, current, TypeOK
<1>18. CASE FailWithoutNode
  BY <1>18 DEF FailWithoutNode, users, working, durable, reports, current
<1>19. CASE GrowSpec
  BY <1>19 DEF GrowSpec, working, durable, reports, current
<1>20. CASE ClearData
  BY <1>20 DEF ClearData, NoSnapshots, users, current
<1>21. CASE UNCHANGED vars
  BY <1>21 DEF vars, users, working, durable, reports, current
<1> QED  BY <1>1, <1>2, <1>3, <1>4, <1>5, <1>6, <1>7, <1>8, <1>9, <1>10, <1>11,
   <1>12, <1>13, <1>14, <1>15, <1>16, <1>17, <1>18, <1>19, <1>20, <1>21 DEF
   Next, Start, Restore, Generate, Conclude

\* Every step keeps the phases in their modes.
LEMMA PhaseStep == Inductive /\ [Next]_vars => PhaseInv'
<1> SUFFICES ASSUME Inductive, [Next]_vars PROVE PhaseInv'
  OBVIOUS
<1> USE DEF Inductive, PhaseInv
<1>1. ASSUME NEW kind \in {"setup", "test"}, NEW policy \in Policies,
             Refuse(kind, policy)
      PROVE  PhaseInv'
  BY <1>1 DEF Refuse, users, working, durable, reports, current
<1>2. ASSUME NEW kind \in {"setup", "test"}, NEW policy \in Policies,
             Prepare(kind, policy)
      PROVE  PhaseInv'
  BY <1>2 DEF Prepare, users, working, durable, reports, ModeOf
<1>3. CASE RemoveStale
  BY <1>3 DEF RemoveStale, users, durable, reports, current
<1>4. CASE CopyBase
  BY <1>4 DEF CopyBase, users, durable, reports, current
<1>5. CASE CopySidecars
  BY <1>5 DEF CopySidecars, users, durable, reports, current
<1>6. CASE Spawn
  BY <1>6 DEF Spawn, users, durable, reports
<1>7. CASE ManualSetup
  BY <1>7 DEF ManualSetup, Abort, CloseDatabase, users, working, durable,
     reports, current
<1>8. CASE Resync
  BY <1>8 DEF Resync, Abort, CloseDatabase, users, working, durable, reports,
     current
<1>9. CASE Produce
  BY <1>9 DEF Produce, users, working, durable, reports
<1>10. CASE SaveSnapshot
  BY <1>10 DEF SaveSnapshot, WithSnapshot, users, working, durable, reports,
     current
<1>11. CASE SoakEnds
  BY <1>11 DEF SoakEnds, CloseDatabase, users, durable, reports, current
<1>12. CASE WriteBaseline
  BY <1>12 DEF WriteBaseline, ShouldOverwrite, users, working, durable, current
<1>13. CASE SaveBase
  BY <1>13 DEF SaveBase, users, reports, current
<1>14. CASE SaveSidecars
  BY <1>14 DEF SaveSidecars, users, reports, current
<1>15. CASE CheckBaseline
  BY <1>15 DEF CheckBaseline, users, working, durable, reports, current
<1>16. CASE Cleanup
  BY <1>16 DEF Cleanup, users, working, durable, reports, current
<1>17. CASE FailWithNode
  BY <1>17 DEF FailWithNode, Abort, WithSnapshot, NodeRuns, CloseDatabase,
     users, durable, reports, current
<1>18. CASE FailWithoutNode
  BY <1>18 DEF FailWithoutNode, NodeRuns, users, working, durable, reports,
     current
<1>19. CASE GrowSpec
  BY <1>19 DEF GrowSpec, working, durable, reports, current
<1>20. CASE ClearData
  BY <1>20 DEF ClearData, NoSnapshots, users, current
<1>21. CASE UNCHANGED vars
  BY <1>21 DEF vars, users, working, durable, reports, current
<1> QED  BY <1>1, <1>2, <1>3, <1>4, <1>5, <1>6, <1>7, <1>8, <1>9, <1>10, <1>11,
   <1>12, <1>13, <1>14, <1>15, <1>16, <1>17, <1>18, <1>19, <1>20, <1>21 DEF
   Next, Start, Restore, Generate, Conclude

\* A test restores the durable MockDA and judges it, whatever it finds.
LEMMA TestStep == Inductive /\ [Next]_vars => TestInv'
<1> SUFFICES ASSUME Inductive, [Next]_vars PROVE TestInv'
  OBVIOUS
<1> USE DEF Inductive, TestInv, Restoring, PhaseInv
<1>1. ASSUME NEW kind \in {"setup", "test"}, NEW policy \in Policies,
             Refuse(kind, policy)
      PROVE  TestInv'
  BY <1>1 DEF Refuse, users, working, durable, reports, current
<1>2. ASSUME NEW kind \in {"setup", "test"}, NEW policy \in Policies,
             Prepare(kind, policy)
      PROVE  TestInv'
  BY <1>2 DEF Prepare, users, working, durable, reports, ModeOf
<1>3. CASE RemoveStale
  BY <1>3 DEF RemoveStale, users, durable, reports, current
<1>4. CASE CopyBase
  BY <1>4 DEF CopyBase, users, durable, reports, current
<1>5. CASE CopySidecars
  BY <1>5 DEF CopySidecars, users, durable, reports, current
<1>6. CASE Spawn
  BY <1>6 DEF Spawn, users, durable, reports
<1>7. CASE ManualSetup
  BY <1>7 DEF ManualSetup, Abort, CloseDatabase, users, working, durable,
     reports, current
<1>8. CASE Resync
  <2>1. CASE Agrees(da)
    BY <1>8, <2>1 DEF Resync, Agrees, HasSnapshots, users, working, durable, reports,
       current
  <2>2. CASE ~Agrees(da)
    BY <1>8, <2>2 DEF Resync, Abort, Agrees, HasSnapshots, users, durable, reports,
       current
  <2> QED  BY <2>1, <2>2
<1>9. CASE Produce
  BY <1>9 DEF Produce, users, working, durable, reports, Agrees, HasSnapshots
<1>10. CASE SaveSnapshot
  BY <1>10 DEF SaveSnapshot, WithSnapshot, users, working, durable, reports,
     current
<1>11. CASE SoakEnds
  BY <1>11 DEF SoakEnds, CloseDatabase, users, durable, reports, current,
     Agrees, HasSnapshots
<1>12. CASE WriteBaseline
  BY <1>12 DEF WriteBaseline, ShouldOverwrite, users, working, durable, current
<1>13. CASE SaveBase
  BY <1>13 DEF SaveBase, users, reports, current
<1>14. CASE SaveSidecars
  BY <1>14 DEF SaveSidecars, users, reports, current
<1>15. CASE CheckBaseline
  BY <1>15 DEF CheckBaseline, users, working, durable, reports, current, Agrees,
     HasSnapshots
<1>16. CASE Cleanup
  BY <1>16 DEF Cleanup, users, working, durable, reports, current, Agrees,
     HasSnapshots
<1>17. CASE FailWithNode
  BY <1>17 DEF FailWithNode, Abort, WithSnapshot, NodeRuns, CloseDatabase,
     users, durable, reports, current
<1>18. CASE FailWithoutNode
  BY <1>18 DEF FailWithoutNode, NodeRuns, users, working, durable, reports,
     current
<1>19. CASE GrowSpec
  BY <1>19 DEF GrowSpec, working, durable, reports, current
<1>20. CASE ClearData
  BY <1>20 DEF ClearData, NoSnapshots, users, current
<1>21. CASE UNCHANGED vars
  BY <1>21 DEF vars, users, working, durable, reports, current, Agrees,
     HasSnapshots
<1> QED  BY <1>1, <1>2, <1>3, <1>4, <1>5, <1>6, <1>7, <1>8, <1>9, <1>10, <1>11,
   <1>12, <1>13, <1>14, <1>15, <1>16, <1>17, <1>18, <1>19, <1>20, <1>21 DEF
   Next, Start, Restore, Generate, Conclude

\* An append saves the slots of the MockDA it resynced.
LEMMA AppendStep == Inductive /\ [Next]_vars => AppendInv'
<1> SUFFICES ASSUME Inductive, [Next]_vars PROVE AppendInv'
  OBVIOUS
<1> USE DEF Inductive, AppendInv, PhaseInv
<1>1. ASSUME NEW kind \in {"setup", "test"}, NEW policy \in Policies,
             Refuse(kind, policy)
      PROVE  AppendInv'
  BY <1>1 DEF Refuse, users, working, durable, reports, current
<1>2. ASSUME NEW kind \in {"setup", "test"}, NEW policy \in Policies,
             Prepare(kind, policy)
      PROVE  AppendInv'
  BY <1>2 DEF Prepare, users, working, durable, reports
<1>3. CASE RemoveStale
  BY <1>3 DEF RemoveStale, users, durable, reports, current
<1>4. CASE CopyBase
  BY <1>4 DEF CopyBase, users, durable, reports, current
<1>5. CASE CopySidecars
  BY <1>5 DEF CopySidecars, users, durable, reports, current
<1>6. CASE Spawn
  BY <1>6 DEF Spawn, users, durable, reports
<1>7. CASE ManualSetup
  BY <1>7 DEF ManualSetup, Abort, CloseDatabase, users, working, durable,
     reports, current
<1>8. CASE Resync
  <2>1. CASE Agrees(da)
    BY <1>8, <2>1 DEF Resync, Agrees, HasSnapshots, users, working, durable, reports,
       current
  <2>2. CASE ~Agrees(da)
    BY <1>8, <2>2 DEF Resync, Abort, current
  <2> QED  BY <2>1, <2>2
<1>9. CASE Produce
  <2>1. PICK block : da' = Append(da, block)
    BY <1>9 DEF Produce
  <2>2. SUFFICES ASSUME mode = "append" PROVE Agrees(da)'
    BY <1>9 DEF Produce
  <2>3. snap' = snap /\ Agrees(da)
    BY <1>9, <2>2 DEF Produce
  <2>4. ASSUME NEW s \in DOMAIN snap PROVE s <= Len(da') /\ snap[s] = da'[s]
    <3>1. s \in 1..Len(da) /\ snap[s] = da[s]
      BY <2>3 DEF Agrees, FilesInv, TypeOK
    <3> QED  BY <2>1, <3>1 DEF TypeOK
  <2> QED  BY <2>3, <2>4 DEF Agrees, HasSnapshots
<1>10. CASE SaveSnapshot
  <2>1. savedTo + 1 \in 1..Len(da)
    BY <1>10 DEF SaveSnapshot, TypeOK
  <2>2. SUFFICES ASSUME mode = "append" PROVE Agrees(da)'
    BY <1>10 DEF SaveSnapshot, current
  <2>3. Agrees(da) /\ da' = da
    BY <1>10, <2>2 DEF SaveSnapshot, current
  <2> QED
    BY <1>10, <2>1, <2>3 DEF SaveSnapshot, WithSnapshot, Agrees, HasSnapshots
<1>11. CASE SoakEnds
  BY <1>11 DEF SoakEnds, CloseDatabase, users, durable, reports, current,
     Agrees, HasSnapshots
<1>12. CASE WriteBaseline
  BY <1>12 DEF WriteBaseline, ShouldOverwrite, users, working, durable, current,
     Agrees, HasSnapshots
<1>13. CASE SaveBase
  BY <1>13 DEF SaveBase, users, reports, current, Agrees, HasSnapshots
<1>14. CASE SaveSidecars
  BY <1>14 DEF SaveSidecars, users, reports, current, Agrees, HasSnapshots
<1>15. CASE CheckBaseline
  BY <1>15 DEF CheckBaseline, users, working, durable, reports, current
<1>16. CASE Cleanup
  BY <1>16 DEF Cleanup, users, working, durable, reports, current, Agrees,
     HasSnapshots
<1>17. CASE FailWithNode
  BY <1>17 DEF FailWithNode, Abort, WithSnapshot, NodeRuns, CloseDatabase,
     users, durable, reports, current
<1>18. CASE FailWithoutNode
  BY <1>18 DEF FailWithoutNode, NodeRuns, users, working, durable, reports,
     current
<1>19. CASE GrowSpec
  BY <1>19 DEF GrowSpec, working, durable, reports, current
<1>20. CASE ClearData
  BY <1>20 DEF ClearData, NoSnapshots, users, current
<1>21. CASE UNCHANGED vars
  BY <1>21 DEF vars, users, working, durable, reports, current, Agrees,
     HasSnapshots
<1> QED  BY <1>1, <1>2, <1>3, <1>4, <1>5, <1>6, <1>7, <1>8, <1>9, <1>10, <1>11,
   <1>12, <1>13, <1>14, <1>15, <1>16, <1>17, <1>18, <1>19, <1>20, <1>21 DEF
   Next, Start, Restore, Generate, Conclude

\* The baseline changes only with the best throughput.
LEMMA BaselineStep == Inductive /\ [Next]_vars => BaselineInv'
<1> SUFFICES ASSUME Inductive, [Next]_vars PROVE BaselineInv'
  OBVIOUS
<1> USE DEF Inductive, BaselineInv, PhaseInv
<1>1. ASSUME NEW kind \in {"setup", "test"}, NEW policy \in Policies,
             Refuse(kind, policy)
      PROVE  BaselineInv'
  BY <1>1 DEF Refuse, users, working, durable, reports, current
<1>2. ASSUME NEW kind \in {"setup", "test"}, NEW policy \in Policies,
             Prepare(kind, policy)
      PROVE  BaselineInv'
  BY <1>2 DEF Prepare, users, working, durable, reports
<1>3. CASE RemoveStale
  BY <1>3 DEF RemoveStale, users, durable, reports, current
<1>4. CASE CopyBase
  BY <1>4 DEF CopyBase, users, durable, reports, current
<1>5. CASE CopySidecars
  BY <1>5 DEF CopySidecars, users, durable, reports, current
<1>6. CASE Spawn
  BY <1>6 DEF Spawn, users, durable, reports
<1>7. CASE ManualSetup
  BY <1>7 DEF ManualSetup, Abort, CloseDatabase, users, working, durable,
     reports, current
<1>8. CASE Resync
  BY <1>8 DEF Resync, Abort, CloseDatabase, users, working, durable, reports,
     current
<1>9. CASE Produce
  BY <1>9 DEF Produce, users, working, durable, reports
<1>10. CASE SaveSnapshot
  BY <1>10 DEF SaveSnapshot, WithSnapshot, users, working, durable, reports,
     current
<1>11. CASE SoakEnds
  BY <1>11 DEF SoakEnds, CloseDatabase, users, durable, reports, current
<1>12. CASE WriteBaseline
  <2>1. PICK new \in Throughputs :
            /\ baseline' = IF ShouldOverwrite(new) THEN new ELSE baseline
            /\ best' = IF new > best THEN new ELSE best
    BY <1>12 DEF WriteBaseline
  <2>2. baseline' \in Throughputs /\ best' = baseline'
    <3>1. CASE baseline \in {NoFile, Torn} /\ best = 0
      BY <2>1, <3>1 DEF ShouldOverwrite, Throughputs
    <3>2. CASE baseline \in Throughputs /\ best = baseline
      <4>1. baseline \notin {NoFile, Torn}
        BY <3>2, MarksAreNoValues
      <4> QED  BY <2>1, <3>2, <4>1 DEF ShouldOverwrite
    <3> QED  BY <3>1, <3>2
  <2> QED  BY <2>2
<1>13. CASE SaveBase
  BY <1>13 DEF SaveBase, users, reports, current
<1>14. CASE SaveSidecars
  BY <1>14 DEF SaveSidecars, users, reports, current
<1>15. CASE CheckBaseline
  BY <1>15 DEF CheckBaseline, users, working, durable, reports, current
<1>16. CASE Cleanup
  BY <1>16 DEF Cleanup, users, working, durable, reports, current
<1>17. CASE FailWithNode
  BY <1>17 DEF FailWithNode, Abort, WithSnapshot, NodeRuns, CloseDatabase,
     users, durable, reports, current
<1>18. CASE FailWithoutNode
  BY <1>18 DEF FailWithoutNode, NodeRuns, users, working, durable, reports,
     current
<1>19. CASE GrowSpec
  BY <1>19 DEF GrowSpec, working, durable, reports, current
<1>20. CASE ClearData
  BY <1>20 DEF ClearData, NoSnapshots, users, current
<1>21. CASE UNCHANGED vars
  BY <1>21 DEF vars, users, working, durable, reports, current
<1> QED  BY <1>1, <1>2, <1>3, <1>4, <1>5, <1>6, <1>7, <1>8, <1>9, <1>10, <1>11,
   <1>12, <1>13, <1>14, <1>15, <1>16, <1>17, <1>18, <1>19, <1>20, <1>21 DEF
   Next, Start, Restore, Generate, Conclude
-----------------------------------------------------------------------------
\* A project without recorded data satisfies the invariant.
LEMMA InitInductive == Init => Inductive
<1> SUFFICES ASSUME Init PROVE Inductive
  OBVIOUS
<1> USE DEF Init
<1>1. TypeOK
  <2>1. versions \in 1..MaxVersions /\ run \in 0..MaxRuns
    BY DataConstants
  <2>2. IsDatabase(base) /\ IsDatabase(pbase) /\ IsWal(wal) /\ IsWal(pwal)
    BY DEF IsDatabase, IsWal
  <2>3. DOMAIN snap = {}
    BY DEF NoSnapshots
  <2>4. da \in Seq(Slot)
    OBVIOUS
  <2> QED  BY <2>1, <2>2, <2>3, <2>4 DEF TypeOK, Labels, Results
<1>2. FilesInv
  BY DEF FilesInv, NodeRuns, NoSnapshots
<1>3. PhaseInv /\ TestInv /\ AppendInv /\ BaselineInv
  BY DEF PhaseInv, TestInv, AppendInv, BaselineInv
<1> QED  BY <1>1, <1>2, <1>3 DEF Inductive

\* The invariant of the data on disk and of the run that works on it, through every
\* failure and every kill between two steps.
THEOREM DataLifecycleInvHolds == Spec => []Inductive
<1>1. Inductive /\ [Next]_vars => Inductive'
  BY TypeStep, FilesStep, PhaseStep, TestStep, AppendStep, BaselineStep
     DEF Inductive
<1> QED  BY InitInductive, <1>1, PTL DEF Spec

\* The files, the run and its reports stay within their types, for any number of
\* runs, versions and blocks, whatever -wal file a run leaves.
THEOREM DataTypeCorrect == Spec => []TypeOK
<1>1. Inductive => TypeOK
  BY DEF Inductive
<1> QED  BY DataLifecycleInvHolds, <1>1, PTL

\* A test that gets past its resync, or reports a mismatch, has judged the durable
\* MockDA against the snapshots, after any history of failed, killed and
\* successful runs before it.
THEOREM TestsJudgeRecordedData == Spec => []TestJudgesRecordedData
<1>1. Inductive => TestJudgesRecordedData
  BY DEF Inductive, PhaseInv, TestInv, TestJudgesRecordedData, Verified
<1> QED  BY DataLifecycleInvHolds, <1>1, PTL

\* The snapshots of a successful append are those of its MockDA, from the first
\* version's to its own.
THEOREM AppendsLeaveMatchingSnapshots == Spec => []OkAppendMatchesSnapshots
<1>1. Inductive => OkAppendMatchesSnapshots
  BY DEF Inductive, AppendInv, OkAppendMatchesSnapshots
<1> QED  BY DataLifecycleInvHolds, <1>1, PTL

\* No setup lowers the throughput baseline, and none that failed sets it.
THEOREM BaselineIsAlwaysBest == Spec => []BaselineIsBest
<1>1. Inductive => BaselineIsBest
  BY MarksAreNoValues DEF Inductive, BaselineInv, BaselineIsBest
<1> QED  BY DataLifecycleInvHolds, <1>1, PTL
=============================================================================
