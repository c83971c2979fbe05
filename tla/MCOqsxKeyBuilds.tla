--------------------------- MODULE MCOqsxKeyBuilds ---------------------------
(****************************************************************************)
(* OqsxKeyMaterial in both builds at once: which one a behaviour is of is   *)
(* chosen at its start.  The configuration gives NoPubInPriv = FALSE.       *)
(****************************************************************************)
EXTENDS MCOqsxKeyMaterial

VARIABLE nopub   \* built with NOPUBKEY_IN_PRIVKEY

NoPub == INSTANCE OqsxKeyMaterial WITH NoPubInPriv <- TRUE

MCInit == Init /\ nopub \in BOOLEAN

MCNext == \/ ~nopub /\ Next /\ UNCHANGED nopub
          \/ nopub /\ NoPub!Next /\ UNCHANGED nopub

MCSpec == MCInit /\ [][MCNext]_<<vars, nopub>>

(* EqTellsPairs in both builds: EVP_PKEY_eq tells key pairs apart, as far   *)
(* as oqsx_match of the build compares keys (oqs_kmgmt.c:126-192).          *)
EqTellsPairsInBuild == IF nopub THEN NoPub!EqTellsPairs ELSE EqTellsPairs
=============================================================================
