---------------------------- MODULE MCOqsCodec -----------------------------
EXTENDS OqsCodec, TLC

(* Algorithms differ in name alone.                                         *)
MCSymmetry == Permutations(Types)
=============================================================================
