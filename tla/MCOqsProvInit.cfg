CONSTANTS
  Loads = {l1, l2}
  OidList <- MCOidList
  NidNames <- MCNidNames
  Kems = {"kyber512"}
  Enabled = {"kyber512", "dilithium2"}
  DefaultOid <- MCDefaultOid
  TlsNames <- MCTlsNames
  DefaultCode <- MCDefaultCode
  Environments <- MCEnvironments
  Preloaded <- MCPreloaded
SPECIFICATION Spec
SYMMETRY MCSymmetry
INVARIANTS
  LoadedKnowsAlgorithms
  DecodersKnowTheirType
  OidsLeadToAlgorithms
  ResourcesFollowTheLoad
  OwnCodePoints
PROPERTIES
  LoneLoadsSucceed
  NidsStick
CHECK_DEADLOCK FALSE
