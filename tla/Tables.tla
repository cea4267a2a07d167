-------------------------------- MODULE Tables --------------------------------
(***************************************************************************)
(* Go maps as functions: an entry set, an entry read with the value a      *)
(* missing one has, and the sum of a map's numbers.                        *)
(***************************************************************************)
EXTENDS Integers

With(f, k, v) == [x \in DOMAIN f \cup {k} |-> IF x = k THEN v ELSE f[x]]
Lookup(f, k, none) == IF k \in DOMAIN f THEN f[k] ELSE none

TotalOf(f) ==
  LET sum[S \in SUBSET DOMAIN f] ==
        IF S = {} THEN 0 ELSE LET x == CHOOSE y \in S : TRUE IN f[x] + sum[S \ {x}]
  IN sum[DOMAIN f]
===============================================================================
