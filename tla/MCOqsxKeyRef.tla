---------------------------- MODULE MCOqsxKeyRef ----------------------------
\* No symmetry: the run checks liveness.
EXTENDS OqsxKeyRef
=============================================================================
