CONSTANTS
  Keys = {k1, k2}
  Ids = {long, short}
  long = long
  short = short
  Types = {"SIG", "HYB_SIG"}
  Msgs = {m1, m2}
  Runs = {r1, r2}
  SizeOfUint32 = 1
  CPriv = 2
  CPub = 1
  QPriv = 1
  QPub = 1
  ClassLen <- MCClassLen
  NoPubInPriv = FALSE
  CSig = 2
  QSig = 2
SPECIFICATION SignSpec
SYMMETRY MCSymmetry
INVARIANTS
  BothHalvesSign
PROPERTIES
  SchemeRefinement
CHECK_DEADLOCK FALSE
