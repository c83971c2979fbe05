----------------------------- MODULE MCOqsSigCtx -----------------------------
EXTENDS OqsSigCtx, TLC

\* Contexts, pieces of a message and digests are interchangeable.
Symmetry == Permutations(Ctxs) \cup Permutations(Chunks) \cup Permutations(Digests)
=============================================================================
