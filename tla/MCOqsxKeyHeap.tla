--------------------------- MODULE MCOqsxKeyHeap ---------------------------
EXTENDS OqsxKeyHeap
=============================================================================
