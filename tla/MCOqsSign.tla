------------------------------ MODULE MCOqsSign ------------------------------
EXTENDS OqsSign, TLC

CONSTANTS long, short

(* A pair with a classical private key as long as the table says, one with  *)
(* a shorter one.                                                           *)
MCClassLen == (long :> 2) @@ (short :> 1)

MCSymmetry == Permutations(Keys) \cup Permutations(Msgs) \cup Permutations(Runs)
=============================================================================
