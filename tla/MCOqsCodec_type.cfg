CONSTANTS
  Types = {a1, a2}
  Ciphers = {aes}
  NoPubInPriv = FALSE
SPECIFICATION CodecSpec
INVARIANTS
  KeysKeepType
