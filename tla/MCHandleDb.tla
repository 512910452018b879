----------------------------- MODULE MCHandleDb -----------------------------
(* Instances of the handle database for TLC. *)
EXTENDS HandleDb, TLC

CONSTANTS h1, h2, i1, i2, d1, d2

\* Two drivers and an application with exclusive access.
Agents == {<<d1, "driver", "c">>, <<d2, "driver", "c">>, <<"a", "exclusive", "none">>}

\* Two applications that want exclusive access, and a driver in their way.
Rivals == {<<d1, "driver", "c">>, <<"a", "exclusive", "none">>, <<"b", "exclusive", "none">>}

Symmetry == Permutations(Handles) \cup Permutations(Interfaces) \cup Permutations({d1, d2})
=============================================================================
