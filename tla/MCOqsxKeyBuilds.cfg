CONSTANTS
  Keys = {k1, k2}
  Ids = {long, short}
  long = long
  short = short
  Types = {"SIG", "KEM", "HYB_SIG", "HYB_KEM"}
  SizeOfUint32 = 2
  CPriv = 3
  CPub = 2
  QPriv = 2
  QPub = 1
  ClassLen <- MCClassLen
  NoPubInPriv = FALSE
SPECIFICATION MCSpec
SYMMETRY MCSymmetry
INVARIANTS
  PartsReadBack
  SameEndState
  NothingRefused
  EqTellsPairsInBuild
  PeerKeyIsPublic
CHECK_DEADLOCK FALSE
