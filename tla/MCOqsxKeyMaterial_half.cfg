CONSTANTS
  Keys = {k1, k2}
  Ids = {long, short}
  long = long
  short = short
  Types = {"HYB_SIG", "HYB_KEM"}
  SizeOfUint32 = 2
  CPriv = 3
  CPub = 2
  QPriv = 2
  QPub = 1
  ClassLen <- MCClassLen
  NoPubInPriv = FALSE
SPECIFICATION Spec
INVARIANT HybridKeysAreComplete
CHECK_DEADLOCK FALSE
