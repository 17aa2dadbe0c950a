---------------------------- MODULE Enumeration ----------------------------
(***************************************************************************)
(* Numbers in ascending order, and what is left of a list if only some of  *)
(* its positions are kept.                                                 *)
(***************************************************************************)
EXTENDS Integers, FiniteSets

\* The numbers in S from the least to the greatest.
Ascending(S) ==
  CHOOSE f \in [1..Cardinality(S) -> S] : \A i, j \in DOMAIN f : i < j => f[i] < f[j]

\* The elements of a list at the positions in S.
Kept(list, S) ==
  LET f == Ascending(S) IN [k \in DOMAIN f |-> list[f[k]]]

=============================================================================
