--------------------------- MODULE MCScoreQueue ---------------------------
(* Instances of ScoreQueue for the model checker. *)
EXTENDS ScoreQueue
===========================================================================
