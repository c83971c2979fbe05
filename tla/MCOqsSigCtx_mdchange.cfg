SPECIFICATION Spec
CONSTANTS
  c1 = c1
  c2 = c2
  a = a
  b = b
  sha = sha
  sm3 = sm3
  Ctxs = {c1, c2}
  Chunks = {a}
  Digests = {sha, sm3}
  Raw = Raw
  Null = Null
  MaxUpdates = 2
PROPERTIES NoMdChangeAfterUpdate
CHECK_DEADLOCK FALSE
