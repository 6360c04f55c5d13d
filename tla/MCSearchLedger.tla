-------------------------- MODULE MCSearchLedger --------------------------
(* Instances of SearchLedger for the model checker. *)
EXTENDS SearchLedgerInv, TLC

Symmetry == Permutations(Rid)
===========================================================================
