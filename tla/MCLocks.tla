------------------------------- MODULE MCLocks -------------------------------
(***************************************************************************)
(* Locks on a small instance: processes that are alike, so that a          *)
(* permutation of them changes nothing.                                    *)
(***************************************************************************)
EXTENDS Locks, TLC

Symmetry == Permutations(Procs)

=============================================================================
