--------------------------- MODULE ResyncContract ---------------------------
(***************************************************************************)
(* What resync_and_verify_slots promises its callers, without the node,    *)
(* the subscription and the reconnects: the snapshots are compared in the  *)
(* order of their slots, none is passed over, and the resync succeeds at   *)
(* most once every batch of the recorded data has been compared, with the  *)
(* first slot that holds none of it.  ResyncVerify implements this.        *)
(***************************************************************************)
EXTENDS Integers

CONSTANTS Recordings, IgnoreMissingBelow

VARIABLES
    rec,        \* the recorded data
    matched,    \* the slots whose snapshot was compared and matched
    verdict,    \* "running", "ok" or "failed"
    firstNew    \* the returned first_new_slot

vars == <<rec, matched, verdict, firstNew>>

Init ==
    /\ rec \in Recordings
    /\ matched = {} /\ verdict = "running" /\ firstNew = 0

\* The next snapshot, in the order of the slots.
IsNext(s) ==
    /\ s \in rec.saved \ matched
    /\ \A t \in rec.saved : t < s => t \in matched

MatchNext == \E s \in rec.saved : IsNext(s) /\ matched' = matched \cup {s}

Compare ==
    /\ verdict = "running"
    /\ MatchNext
    /\ UNCHANGED <<rec, verdict, firstNew>>

\* Slots with a batch must have been compared, those without a snapshot among the first
\* few excepted.
Covers(slots) ==
    \A s \in 0..rec.last :
        s > 0 /\ rec.end[s] # rec.end[s - 1] /\ s >= IgnoreMissingBelow => s \in slots

Succeed ==
    /\ verdict = "running" /\ verdict' = "ok"
    /\ UNCHANGED matched \/ MatchNext
    /\ Covers(matched')
    /\ \A s \in rec.saved : s < firstNew' => s \in matched'
    /\ UNCHANGED rec

GiveUp ==
    /\ verdict = "running" /\ verdict' = "failed"
    /\ UNCHANGED matched \/ MatchNext
    /\ UNCHANGED <<rec, firstNew>>

Next == Compare \/ Succeed \/ GiveUp

Spec == Init /\ [][Next]_vars
=============================================================================
