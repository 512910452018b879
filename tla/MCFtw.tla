------------------------------- MODULE MCFtw -------------------------------
(* Instances of the fault tolerant write driver for TLC. *)
EXTENDS Ftw, TLC

CONSTANTS t1, t2

TwoTargets == {t1, t2}
SharedTarget == {t1, "work"}
EveryTarget == {t1, t2, "work", "boot"}

\* The contents of a cell are interchangeable.
DataSymmetry == Permutations(Data)

OneWrite == {<<1, 0>>}
TwoWrites == {<<2, 0>>}
OneTwo == {<<1, 0>>, <<2, 0>>}
=============================================================================
