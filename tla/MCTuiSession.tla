---------------------------- MODULE MCTuiSession ----------------------------
(* TuiSession on a small instance.                                         *)
EXTENDS TuiSession

LineSymmetry == Permutations(Line)
=============================================================================
