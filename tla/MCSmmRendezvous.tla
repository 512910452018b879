-------------------------- MODULE MCSmmRendezvous --------------------------
(* Instances of SmmRendezvous for TLC. *)
EXTENDS SmmRendezvous

Config(sync, mtrrs, debug, election) ==
  [sync |-> sync, mtrrs |-> mtrrs, debug |-> debug, election |-> election]

AllFlows ==
  {Config(TRUE, FALSE, FALSE, TRUE), Config(TRUE, TRUE, FALSE, TRUE),
   Config(FALSE, FALSE, TRUE, TRUE), Config(TRUE, FALSE, FALSE, FALSE)}

\* The MTRRs and the election with the same barriers as without; three CPUs.
ThreeFlows == AllFlows \ {Config(TRUE, FALSE, FALSE, TRUE)}

Tradition == {Config(TRUE, FALSE, FALSE, TRUE)}
Relaxed == {Config(FALSE, FALSE, FALSE, TRUE)}
=============================================================================
