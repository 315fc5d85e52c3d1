-------------------------------- MODULE MCOrca ---------------------------------
(* Orca on a small instance: dispatches that are alike, so that a          *)
(* permutation of them changes nothing.                                    *)
EXTENDS Orca, TLC

(* The audit; a stage that is not; and the audit without a base, over a     *)
(* verdict that was merged before.                                         *)
MCSettings ==
  {[audit |-> TRUE, based |-> TRUE, before |-> Absent],
   [audit |-> FALSE, based |-> TRUE, before |-> Absent],
   [audit |-> TRUE, based |-> FALSE, before |-> "pass"]}

Symmetry == Permutations(Handles)
=============================================================================
