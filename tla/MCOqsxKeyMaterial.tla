------------------------- MODULE MCOqsxKeyMaterial -------------------------
EXTENDS OqsxKeyMaterial, TLC

CONSTANTS long, short

(* One pair whose classical private key is as long as the table says, one   *)
(* shorter: the RSA case.                                                   *)
MCClassLen == (long :> 3) @@ (short :> 1)
MCSymmetry == Permutations(Keys)
=============================================================================
