-------------------------- MODULE MCJobProcessing ---------------------------
(***************************************************************************)
(* JobProcessing on small instances.  Amounts are raw (tenths of a         *)
(* micro-unit); two jobs of cost 3 and 2 do not fit the limit 4 together.  *)
(***************************************************************************)
EXTENDS JobProcessing, TLC

CONSTANTS c1, c2, w1, w2, k1, k2

MCCosts == {25, 30}
MCActuals == {10}
MCLimits == {30}
OneCost == {30}
None == {}
AllTargets == JobState \ {"queued", "partial"}
Symmetry == Permutations(Clients) \cup Permutations(Workers) \cup Permutations(Keys)
=============================================================================
