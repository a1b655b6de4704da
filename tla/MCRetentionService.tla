-------------------------- MODULE MCRetentionService --------------------------
(***************************************************************************)
(* RetentionService on a small instance.                                   *)
(***************************************************************************)
EXTENDS RetentionService

CONSTANTS c1, w1, s1, s2, v1, r1
=============================================================================
