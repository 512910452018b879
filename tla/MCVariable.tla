----------------------------- MODULE MCVariable -----------------------------
(* Small instances of module Variable for TLC. *)
EXTENDS Variable, TLC

CONSTANTS a, b, h, v1, v2, w1, w2, x

\* Variable b is there or not; the contents of the others are interchangeable.
ContentsOf == [n \in Names |-> CASE n = a -> {v1, v2} [] n = b -> {x} [] n = h -> {w1, w2}]
ValueSymmetry == Permutations({v1, v2}) \cup Permutations({w1, w2})

\* A record of variable b fills the common part of the store.
Sizes == [n \in Names |-> IF n = b THEN CommonSpace ELSE 2]
=============================================================================
