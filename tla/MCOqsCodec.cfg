CONSTANTS
  Types = {a1, a2}
  Ciphers = {aes}
  NoPubInPriv = FALSE
SPECIFICATION CodecSpec
SYMMETRY MCSymmetry
INVARIANTS
  TypeOK
  NoClearWhenAsked
  FileSaysWhatItHolds
  PrivateKeysKeepType
  GivenAsAsked
  NoNullMethod
