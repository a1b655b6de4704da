------------------------------- MODULE Lists --------------------------------
(***************************************************************************)
(* The list comprehension with a filter, [x for x in s if ...], which the  *)
(* command line (main.py) and unique_candidates (domain/discovery.py) use. *)
(* It is a recursive function over the prefixes of s, so that facts about  *)
(* it can be proved by induction (Lists_proofs).                           *)
(***************************************************************************)
EXTENDS Naturals, Sequences

\* One turn of the loop: t is what was kept before the n-th element of s.
Extend(t, s, I, n) == IF n \in I THEN Append(t, s[n]) ELSE t

\* The elements of s whose index is in I, in the order of s.
SelectAt(s, I) ==
  LET kept[n \in 0..Len(s)] == IF n = 0 THEN <<>> ELSE Extend(kept[n - 1], s, I, n)
  IN  kept[Len(s)]
=============================================================================
