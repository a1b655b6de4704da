--------------------------- MODULE MCUsageBudget ----------------------------
(***************************************************************************)
(* UsageBudget with three jobs and amounts around the edges of the limit   *)
(* and of normalized_cost (tenths of a micro-unit: 25 rounds to 2, 35 to   *)
(* 4, -4 to 0, and -10 is refused).                                        *)
(***************************************************************************)
EXTENDS UsageBudget

MCCosts   == {-10, -4, 25, 35}
MCActuals == {0, 11, 40}
MCLimits  == {0, 50, 80}
=============================================================================
