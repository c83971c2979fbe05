------------------------------ MODULE MCOqsKem -------------------------------
EXTENDS OqsKem, TLC

MCClassLen == [id \in Ids |-> CPriv]

(* Key objects, key pairs and runs are interchangeable.                     *)
MCSymmetry == Permutations(Keys) \cup Permutations(Ids) \cup Permutations(Runs)
=============================================================================
