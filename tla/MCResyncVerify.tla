--------------------------- MODULE MCResyncVerify ---------------------------
(***************************************************************************)
(* Recorded data sets for ResyncVerify.  With one batch per block and two  *)
(* blocks per version, a data set is a string of slots that carry a batch  *)
(* or not; a snapshot may be missing among the first IgnoreMissingBelow.   *)
(***************************************************************************)
EXTENDS ResyncVerify, SequencesExt

\* The recording with one slot after genesis per element of carries, a slot
\* carrying a batch where the element is 1, and all snapshots but missing.
Recording(carries, missing, mayCrash) ==
    LET last == Len(carries)
    IN  [last  |-> last,
         end   |-> [s \in 0..last |-> FoldSeq(+, 0, SubSeq(carries, 1, s))],
         saved |-> (0..last) \ missing,
         mayCrash |-> mayCrash]

\* Data of two versions: with a handover gap and without a warm-up snapshot,
\* with a hole before the last batch, and with one after it; and, replayed by a
\* node that may crash, without a gap.
TwoVersions ==
    { Recording(<<1, 1, 0, 1, 1>>, {1}, FALSE),
      Recording(<<1, 1, 1, 1>>, {3}, FALSE),
      Recording(<<1, 1, 1, 1, 0, 0>>, {5}, FALSE),
      Recording(<<1, 1, 1, 1>>, {1}, TRUE) }

\* Data that ends where the second version begins.
OneVersion == { Recording(<<1, 1>>, {}, FALSE),
                Recording(<<0, 1, 1>>, {0, 1}, FALSE) }

\* Data of three versions, one block each when BlocksPerVersion is 1.
ThreeVersions == { Recording(<<1, 1, 1>>, {}, FALSE) }
=============================================================================
