----------------------------- MODULE FtwAtomic -----------------------------
(***************************************************************************)
(* What the fault tolerant write protocol promises its callers             *)
(* (EFI_FAULT_TOLERANT_WRITE_PROTOCOL.Write): the contents of a target     *)
(* block change by whole writes only, so that at all times either the      *)
(* original or the modified contents are available.  Power loss, restarts, *)
(* workspace reclaims and device errors never show.                        *)
(***************************************************************************)
EXTENDS Naturals

CONSTANTS
  Targets,   (* the blocks that are updated through the protocol           *)
  DU,        (* cells of a block: the grain at which power can fail        *)
  Data       (* what a programmed cell can hold                            *)

VARIABLE content   (* [Targets -> [1..DU -> Data]]                         *)

Init == content \in [Targets -> [1 .. DU -> Data]]

\* One write: the cells lo..hi of block t take the caller's data.
Write(t, lo, hi, d) ==
  content' = [content EXCEPT ![t] =
                [u \in 1 .. DU |-> IF u \in lo .. hi THEN d ELSE @[u]]]

Next ==
  \E t \in Targets, lo \in 1 .. DU, hi \in 1 .. DU, d \in Data : Write(t, lo, hi, d)

Spec == Init /\ [][Next]_content
=============================================================================
