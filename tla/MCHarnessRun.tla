----------------------------- MODULE MCHarnessRun -----------------------------
(* HarnessRun on small instances.                                          *)
EXTENDS HarnessRun, TLC

CONSTANTS c1, c2

TwoContents == {c1, c2}
ContentSymmetry == Permutations(TwoContents)

(* One serious finding in code, one editorial finding in documentation.    *)
SeriousAndEditorial == {[name |-> "a", severity |-> "P1", file |-> "code"],
                        [name |-> "b", severity |-> "P3", file |-> "doc"]}

(* Still to be fixed, fixed, and refuted.                                  *)
OpenFixedRefuted == {[disposition |-> "accepted", resolved |-> FALSE],
                     [disposition |-> "accepted", resolved |-> TRUE],
                     [disposition |-> "rejected", resolved |-> TRUE]}

SeriousOnly == {[name |-> "a", severity |-> "P1", file |-> "code"]}
=============================================================================
