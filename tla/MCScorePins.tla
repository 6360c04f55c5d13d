---------------------------- MODULE MCScorePins ----------------------------
(* Instances of ScorePins for the model checker. *)
EXTENDS ScorePins, TLC

Symmetry == Permutations(Weights) \cup Permutations(Card)
=============================================================================
