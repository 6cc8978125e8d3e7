--------------------------- MODULE RunPlanProofs ---------------------------
(***************************************************************************)
(* What the checks of a run plan guarantee, for every number of versions   *)
(* and every span.                                                         *)
(***************************************************************************)
EXTENDS RunPlan, Integers, TLAPS

\* A version starts right after the height at which the one before it stops:
\* prepare_acceptance_run_plan leaves neither a gap nor an overlap.
THEOREM VersionsTile ==
    ASSUME NEW v \in Nat \ {0}, NEW bpv \in Nat
    PROVE  StartHeight(v + 1, bpv) = StopHeight(v, bpv) + 1
BY DEF StartHeight, StopHeight

\* Data that passes the plan's check ends where one of the last two versions
\* stops: what a resync replays is a whole number of versions.
THEOREM AcceptedDataEndsAtAStop ==
    ASSUME NEW end \in Nat, NEW n \in Nat \ {0}, NEW bpv \in Nat \ {0},
           PlanAccepts(end, n, bpv)
    PROVE  \E v \in {n - 1, n} : end = StopHeight(v, bpv)
<1> DEFINE q == end \div bpv
<1>1. q \in Nat /\ end = q * bpv
  BY DEF PlanAccepts
<1>2. n - 1 <= q /\ q <= n
  BY DEF PlanAccepts, SaturatingSub
<1>3. q = n - 1 \/ q = n
  BY <1>1, <1>2
<1>4. QED
  BY <1>1, <1>3 DEF StopHeight

\* When setup goes on to append, the recorded data ends exactly where the
\* appended version's predecessor stops, so the version starts on the next
\* height and nothing is generated twice or left out.
THEOREM AppendStartsAtDataEnd ==
    ASSUME NEW end \in Nat, NEW n \in Nat, n > 1, NEW bpv \in Nat \ {0},
           PlanAccepts(end, n, bpv), AppendBoundary(end, n, bpv) = "ok"
    PROVE  /\ end = StopHeight(n - 1, bpv)
           /\ StartHeight(n, bpv) = end + 1
<1> DEFINE stop == (n - 1) * bpv
<1>1. stop \in Nat /\ stop >= 1
  OBVIOUS
<1>2. SaturatingSub(end, 1) = SaturatingSub(stop, 1)
  BY <1>1 DEF AppendBoundary, ClassifyAppendBoundary, StopHeight, NoBatch, SaturatingSub
<1>3. end >= 1
  <2>1. CASE end = 0
    <3>1. \E v \in {n - 1, n} : 0 = v * bpv
      BY <2>1, AcceptedDataEndsAtAStop DEF StopHeight
    <3>2. \A v \in {n - 1, n} : v * bpv >= 1
      OBVIOUS
    <3>3. QED
      BY <3>1, <3>2
  <2>2. QED
    BY <2>1
<1>4. end = stop
  BY <1>1, <1>2, <1>3 DEF SaturatingSub
<1>5. QED
  BY <1>4 DEF StopHeight, StartHeight

\* The soak workers of different versions never share a salt, so a version's
\* accounts are never those of another one.
THEOREM SaltsAreDisjoint ==
    ASSUME NEW v \in Nat \ {0}, NEW u \in Nat \ {0}, v < u,
           NEW base \in Nat, NEW workers \in Nat
    PROVE  SoakSalts(v, base, workers) \cap SoakSalts(u, base, workers) = {}
<1>1. SUFFICES ASSUME NEW w \in 0..(workers - 1), NEW x \in 0..(workers - 1)
              PROVE  base + workers * (v - 1) + w # base + workers * (u - 1) + x
  BY DEF SoakSalts
<1>2. workers * (u - 1) >= workers * (v - 1) + workers
  <2>1. u - v - 1 \in Nat
    OBVIOUS
  <2>2. workers * (u - v - 1) >= 0
    <3>1. \A d \in Nat : workers * d >= 0
      BY Z3
    <3>2. QED
      BY <2>1, <3>1
  <2>3. workers * (u - 1) = workers * (v - 1) + workers + workers * (u - v - 1)
    <3>1. \A a, d \in Int : workers * (a + 1 + d) = workers * a + workers + workers * d
      OBVIOUS
    <3>2. u - 1 = (v - 1) + 1 + (u - v - 1)
      OBVIOUS
    <3>3. QED
      BY <3>1, <3>2
  <2>4. workers * (v - 1) \in Int /\ workers * (u - 1) \in Int
    OBVIOUS
  <2>5. QED
    BY <2>1, <2>2, <2>3, <2>4
<1>3. QED
  BY <1>2

\* The segment that an append generates uses the salts a from-genesis run
\* gives the last version, and none of the resynced ones'.
THEOREM AppendUsesFreshSalts ==
    ASSUME NEW n \in Nat \ {0}, NEW v \in 1..(n - 1),
           NEW base \in Nat, NEW workers \in Nat
    PROVE  LastVersionSoakSalts(n, base, workers) \cap SoakSalts(v, base, workers) = {}
<1>1. LastVersionSoakSalts(n, base, workers) = SoakSalts(n, base, workers)
  <2>1. SaturatingSub(n, 1) = n - 1
    BY DEF SaturatingSub
  <2>2. QED
    BY <2>1 DEF LastVersionSoakSalts, SoakSalts
<1>2. QED
  BY <1>1, SaltsAreDisjoint
=============================================================================
