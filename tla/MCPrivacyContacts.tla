-------------------------- MODULE MCPrivacyContacts --------------------------
(***************************************************************************)
(* Instances of PrivacyContacts for TLC.                                   *)
(***************************************************************************)
EXTENDS PrivacyContacts, TLC

CONSTANTS c1, c2, w1, v1, v2, v3, r1, r2

\* Clients run the same code, and request ids are only compared.
Symmetry == Permutations(Clients) \cup Permutations(Requests)
=============================================================================
