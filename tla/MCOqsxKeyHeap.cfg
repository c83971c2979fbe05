SPECIFICATION Spec
CONSTANTS
  k1 = k1
  g1 = g1
  Keys = {k1}
  Gens = {g1}
  Kinds = {"SIG", "KEM", "ECP", "ECX", "HYB_SIG", "HYB_RSA"}
  Addrs = {1, 2}
  NoAtomic = TRUE
  NoPubInPriv = FALSE
INVARIANTS OwnedOnce LeaksAreKnown HalvesLead
CHECK_DEADLOCK FALSE
