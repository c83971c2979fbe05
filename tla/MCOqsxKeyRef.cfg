SPECIFICATION FairSpec
CONSTANTS
  t1 = t1
  t2 = t2
  k1 = k1
  k2 = k2
  h1 = h1
  h2 = h2
  s1 = s1
  s2 = s2
  Threads = {t1, t2}
  Keys = {k1, k2}
  Handles = {h1, h2}
  SigCtxs = {s1, s2}
  KemCtxs = {}
  Null = Null
  Lost = Lost
INVARIANTS TypeOK RefsCountOwners NoUseAfterFree AssertionsHold ContextsHoldLiveKeys
PROPERTIES UnheldKeysAreFreed NoRevival LifeRefinement
CHECK_DEADLOCK FALSE
