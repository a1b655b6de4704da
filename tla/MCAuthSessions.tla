--------------------------- MODULE MCAuthSessions ---------------------------
(***************************************************************************)
(* Instances of AuthSessions for TLC.                                      *)
(***************************************************************************)
EXTENDS AuthSessions, TLC

CONSTANTS p1, p2, s1, s2, u1, u2, i1

\* Requests run the same code, and session ids and accounts are only compared.
Symmetry == Permutations(Procs) \cup Permutations(Sessions) \cup Permutations(Users)
=============================================================================
