CONSTANTS
  Keys = {k1, k2}
  Ids = {a, b}
  Runs = {r1, r2}
  Types = {"KEM", "HYB_KEM"}
  SizeOfUint32 = 1
  CPriv = 2
  CPub = 2
  QPriv = 1
  QPub = 1
  ClassLen <- MCClassLen
  NoPubInPriv = FALSE
  CSec = 1
  QCt = 2
  QSec = 2
SPECIFICATION Spec
SYMMETRY MCSymmetry
INVARIANTS
  SecretsAgree
  SecretsBind
  SecretsWhole
CHECK_DEADLOCK FALSE
