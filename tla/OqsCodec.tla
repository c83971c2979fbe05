------------------------------ MODULE OqsCodec -------------------------------
(****************************************************************************)
(* The encoders (oqs_encode_key2any.c) and decoders (oqs_decode_der2key.c)  *)
(* around one key object and one file: which structure is written for a     *)
(* selection, whether it is encrypted, which decoder accepts a file, and as *)
(* what type of key the result is announced to libcrypto.                   *)
(*                                                                          *)
(* DER and PEM differ in the last call of a writer alone and are one here.  *)
(* The bytes of a key are in OqsxKeyLayout; a file has an algorithm         *)
(* identifier (oid), the halves it carries and, as ghosts, the algorithm    *)
(* its bytes are really a key of and what its writer was asked for.         *)
(****************************************************************************)
EXTENDS Integers

CONSTANTS
  Types,         \* algorithms in use, each with its object identifier
  Ciphers,       \* names that EVP_CIPHER_fetch may find
  NoPubInPriv    \* built with NOPUBKEY_IN_PRIVKEY

ASSUME BuildAssumption == NoPubInPriv \in BOOLEAN

VARIABLES
  key,      \* the key object the program holds
  enc,      \* the encoder context made for it
  file,     \* the last thing an encoder wrote
  crashed   \* a method the descriptor does not have was called

codecVars == <<key, enc, file, crashed>>

None == "none"
PKI == "PrivateKeyInfo"
EPKI == "EncryptedPrivateKeyInfo"
SPKI == "SubjectPublicKeyInfo"
Text == "text"
Structures == {PKI, EPKI, SPKI}
Selections == SUBSET {"priv", "pub", "params"}
AllHalves == {"priv", "pub"}

(* type: the name the key is known to libcrypto by; name: its tls_name; of: *)
(* the algorithm it is a key of; level: the half its decoder was asked for. *)
NoKey == [type |-> None, name |-> None, of |-> None, halves |-> {}, level |-> None]

(* cipher_intent and cipher of key2any_ctx_st; asked: whether the caller    *)
(* last named a cipher.                                                     *)
NoCtx == [type |-> None, structure |-> None, intent |-> FALSE, cipher |-> None,
          asked |-> FALSE]

NoFile == [structure |-> None, oid |-> None, of |-> None, halves |-> {},
           asked |-> FALSE, level |-> None]

-----------------------------------------------------------------------------
(* DO_{kind}_selection_mask.                                                *)
Mask(s) == IF s = SPKI THEN {"pub"} ELSE {"priv"}

(* The selections are levels: the first one asked for is what counts.       *)
Level(sel) ==
  IF "priv" \in sel THEN "priv" ELSE IF "pub" \in sel THEN "pub"
  ELSE IF "params" \in sel THEN "params" ELSE None

CheckAny(sel, mask) == sel = {} \/ sel \cap mask # {}   \* mutant: any bit in common will do

(* key2any_check_selection, der2key_check_selection: libcrypto asks them    *)
(* before it takes an encoder or a decoder into a context.                  *)
CheckSelection(sel, mask) == sel = {} \/ Level(sel) \in mask

PrepareAnyType(k, type) == TRUE     \* mutant: the name of the key is not compared

(* prepare_oqsx_params: the identifier to be written is that of the type    *)
(* the encoder is for, and the key must have the same name.                 *)
PrepareParams(k, type) == k.name = type

(* oqsx_pki_priv_to_der and oqsx_spki_pub_to_der: the halves they put in    *)
(* the blob; without all of them they fail.                                 *)
PrivToDer == IF NoPubInPriv THEN {"priv"} ELSE {"priv", "pub"}
PubToDer == {"pub"}
DerHalves(s) == IF s = SPKI THEN PubToDer ELSE PrivToDer

(* key_to_pki_* with cipher_intent is key_to_epki_*; that fails without the *)
(* intent, and p8info_to_encp8 without a cipher or a passphrase callback.   *)
Written(c, pwcb) ==
  IF c.structure = SPKI THEN {SPKI}
  ELSE IF c.structure = PKI /\ ~c.intent THEN {PKI}
  ELSE IF c.intent /\ c.cipher # None /\ pwcb THEN {EPKI}
  ELSE {}

-----------------------------------------------------------------------------
CodecInit ==
  /\ key = NoKey
  /\ enc = NoCtx
  /\ file = NoFile
  /\ crashed = FALSE

(* A key imported with the halves given, or generated by the constructor of *)
(* its algorithm.                                                           *)
NewKey(a, halves) ==
  /\ key = NoKey
  /\ key' = [type |-> a, name |-> a, of |-> a, halves |-> halves, level |-> None]
  /\ UNCHANGED <<enc, file, crashed>>

(* A group name set for the generation (oqsx_gen_set_params) becomes the    *)
(* name of the key; the algorithm stays that of the generation context.     *)
GenerateAs(a, g) ==
  /\ key = NoKey
  /\ key' = [type |-> a, name |-> g, of |-> a, halves |-> AllHalves, level |-> None]
  /\ UNCHANGED <<enc, file, crashed>>

FreeKey ==
  /\ key # NoKey
  /\ key' = NoKey
  /\ UNCHANGED <<enc, file, crashed>>

(* key2any_newctx, of the encoders registered under the key's type.         *)
NewCtx(s) ==
  /\ enc = NoCtx
  /\ key # NoKey
  /\ enc' = [NoCtx EXCEPT !.type = key.type, !.structure = s]
  /\ UNCHANGED <<key, file, crashed>>

FreeCtx ==
  /\ enc # NoCtx
  /\ enc' = NoCtx
  /\ UNCHANGED <<key, file, crashed>>

SetParamsKeepsCipher(name, fetched) ==    \* mutant: the old cipher goes only when one is named
  /\ enc # NoCtx
  /\ enc' = [enc EXCEPT !.cipher = IF name = None THEN @ ELSE IF fetched THEN name ELSE None,
                        !.intent = name # None,
                        !.asked = name # None]
  /\ UNCHANGED <<key, file, crashed>>

SetParamsFetchDecides(name, fetched) ==   \* mutant: the intent is that a cipher was found
  /\ enc # NoCtx
  /\ LET c == IF fetched THEN name ELSE None
     IN  enc' = [enc EXCEPT !.cipher = c, !.intent = c # None, !.asked = name # None]
  /\ UNCHANGED <<key, file, crashed>>

(* key2any_set_ctx_params with a cipher name, or with the NULL that takes   *)
(* it back.  The old cipher goes in any case, and the intent stays when the *)
(* new one cannot be fetched.                                               *)
SetCtxParams(name, fetched) ==
  /\ enc # NoCtx
  /\ enc' = [enc EXCEPT !.cipher = IF fetched THEN name ELSE None,
                        !.intent = name # None,
                        !.asked = name # None]
  /\ UNCHANGED <<key, file, crashed>>

(* {impl}_to_{kind}_{output}_encode.  An empty selection passes             *)
(* does_selection and then matches no DO_ macro: an error.                  *)
Encode(sel, pwcb) ==
  /\ enc # NoCtx
  /\ key.type = enc.type
  /\ CheckSelection(sel, Mask(enc.structure))
  /\ sel \cap Mask(enc.structure) # {}
  /\ PrepareParams(key, enc.type)
  /\ DerHalves(enc.structure) \subseteq key.halves
  /\ \E s \in Written(enc, pwcb) :
       file' = [structure |-> s, oid |-> enc.type, of |-> key.of,
                halves |-> DerHalves(enc.structure), asked |-> enc.asked,
                level |-> Level(sel)]
  /\ UNCHANGED <<key, enc, crashed>>

(* key2text_encode: the first half asked for must be there, the other is    *)
(* printed if it is.  The heading is the name of the key.                   *)
EncodeText(sel) ==
  /\ key # NoKey
  /\ "priv" \in sel => "priv" \in key.halves
  /\ "priv" \notin sel /\ "pub" \in sel => "pub" \in key.halves
  /\ file' = [structure |-> Text, oid |-> key.name, of |-> key.of,
              halves |-> sel \cap key.halves, asked |-> FALSE,
              level |-> IF Level(sel) = "params" THEN None ELSE Level(sel)]
  /\ UNCHANGED <<key, enc, crashed>>

(* libcrypto's own decoder takes the encryption off.                        *)
Decrypt ==
  /\ file.structure = EPKI
  /\ file' = [file EXCEPT !.structure = PKI, !.asked = FALSE]
  /\ UNCHANGED <<key, enc, crashed>>

-----------------------------------------------------------------------------
(* What the decoder of algorithm d makes of the file: the d2i_ methods of   *)
(* its two descriptors.  The type of key is checked for private keys only.  *)
FileKey(d, sel) ==
  [type |-> d, name |-> file.oid, of |-> file.oid, halves |-> file.halves,
   level |-> Level(sel)]

DecodeP8AnyType(d, sel) ==       \* mutant: the algorithm is not compared with evp_type
  IF file.structure = PKI THEN FileKey(d, sel) ELSE NoKey

DecodeP8(d, sel) ==
  IF file.structure = PKI /\ file.oid = d THEN FileKey(d, sel) ELSE NoKey

D2iPubkey(d, sel) ==
  IF file.structure = SPKI THEN FileKey(d, sel) ELSE NoKey

(* oqs_der2key_decode up to its label next.  s: the descriptor's structure. *)
(* A descriptor lacks the methods of the other structure; for a private key *)
(* the code looks before it calls, for a public key it does not.            *)
Effective(sel, s) == IF sel = {} THEN Mask(s) ELSE sel

PrivateKeyOf(d, s, sel) ==
  IF "priv" \in Effective(sel, s) /\ s = PKI THEN DecodeP8(d, sel) ELSE NoKey

NeverGivesUp(d, s, sel) ==       \* mutant: no "goto next" after a private key that did not decode
  FALSE

GivesUp(d, s, sel) ==
  "priv" \in Effective(sel, s) /\ PrivateKeyOf(d, s, sel) = NoKey /\ sel # {}

TriesPublic(d, s, sel) ==
  /\ Effective(sel, s) \cap Mask(s) # {}
  /\ PrivateKeyOf(d, s, sel) = NoKey
  /\ ~GivesUp(d, s, sel)
  /\ "pub" \in Effective(sel, s)

DecodedKey(d, s, sel) ==
  IF Effective(sel, s) \cap Mask(s) = {} THEN NoKey
  ELSE IF TriesPublic(d, s, sel) THEN D2iPubkey(d, sel)
  ELSE PrivateKeyOf(d, s, sel)

(* oqs_der2key_decode.  There is no check_key method, and the object goes   *)
(* to the callback under the descriptor's keytype_name.  What the callback  *)
(* does not take (oqsx_load) is freed again.                                *)
Decode(d, s, sel, taken) ==
  /\ key = NoKey
  /\ file # NoFile
  /\ IF TriesPublic(d, s, sel) /\ s # SPKI
     THEN crashed' = TRUE /\ UNCHANGED key
     ELSE /\ UNCHANGED crashed
          /\ key' = IF taken THEN DecodedKey(d, s, sel) ELSE NoKey
  /\ UNCHANGED <<enc, file>>

CodecNext ==
  \/ \E a \in Types, halves \in (SUBSET AllHalves) \ {{}} : NewKey(a, halves)
  \/ \E a, g \in Types : GenerateAs(a, g)
  \/ FreeKey
  \/ \E s \in Structures : NewCtx(s)
  \/ FreeCtx
  \/ \E c \in Ciphers \cup {None}, fetched \in BOOLEAN : SetCtxParams(c, fetched)
  \/ \E sel \in Selections, pwcb \in BOOLEAN : Encode(sel, pwcb)
  \/ \E sel \in Selections : EncodeText(sel)
  \/ Decrypt
  \/ \E d \in Types, s \in {PKI, SPKI}, sel \in Selections, taken \in BOOLEAN :
       Decode(d, s, sel, taken)

CodecSpec == CodecInit /\ [][CodecNext]_codecVars
-----------------------------------------------------------------------------
(* Types; and an encoder context holds a cipher only with the intent to use *)
(* it, so that a cipher taken back is gone.                                 *)
TypeOK ==
  /\ enc.cipher # None => enc.intent
  /\ key \in [type : Types \cup {None}, name : Types \cup {None}, of : Types \cup {None},
              halves : SUBSET AllHalves, level : AllHalves \cup {"params", None}]
  /\ enc \in [type : Types \cup {None}, structure : Structures \cup {None},
              intent : BOOLEAN, cipher : Ciphers \cup {None}, asked : BOOLEAN]
  /\ file \in [structure : Structures \cup {Text, None}, oid : Types \cup {None},
               of : Types \cup {None}, halves : SUBSET AllHalves, asked : BOOLEAN,
               level : AllHalves \cup {None}]
  /\ crashed \in BOOLEAN

(* "if there is an intent to encrypt the data, the corresponding            *)
(* key_to_epki_* function is used instead" (oqs_encode_key2any.c:182): once *)
(* a caller named a cipher, no structure with a private key is written in   *)
(* the clear, even if the cipher could not be fetched or there is nobody to *)
(* ask for a passphrase.                                                    *)
NoClearWhenAsked ==
  file.asked /\ "priv" \in file.halves => file.structure = EPKI

(* The algorithm identifier in a file is that of the key in it, whatever    *)
(* name the key went by when it was encoded: one that another algorithm's   *)
(* decoder announced, or that was generated under a group name.  A text is  *)
(* headed by the name.                                                      *)
FileSaysWhatItHolds == file.structure # Text => file.oid = file.of

(* A key object with a private half is announced to libcrypto as what it    *)
(* is, whichever algorithm's decoder libcrypto tried on the file.           *)
PrivateKeysKeepType == "priv" \in key.halves => key.type = key.of

(* A decoder that gives a key gives the half it was asked for first: a      *)
(* caller who asks for a private key never gets a public one.               *)
DecodedAsAsked == key.level # None => key.level \in key.halves

(* So does an encoder: what it reports as written has the half asked for.   *)
EncodedAsAsked == file.level # None => file.level \in file.halves

(* A selection is served by its first half or by an error, at either end.   *)
GivenAsAsked == DecodedAsAsked /\ EncodedAsAsked

(* The decoder calls d2i_public_key without looking whether there is one;   *)
(* no selection and no file makes it do so for a descriptor without.        *)
NoNullMethod == ~crashed
-----------------------------------------------------------------------------
(* "Last minute check to see if this was the correct type of key"           *)
(* (oqs_decode_der2key.c:353): what a decoder announces is a key of the     *)
(* decoder's type.                                                          *)
KeysKeepType == key.type = key.of
=============================================================================
