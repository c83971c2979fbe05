---------------------------- MODULE OqsxKeyLayout ----------------------------
(****************************************************************************)
(* How an OQSX_KEY lays out its key material, and the functions of          *)
(* oqsprov_keys.c that write and read that layout: key generation, the      *)
(* composite pointers, the re-creation of the classical key, fromdata, and  *)
(* the private key blob of oqs_encode_key2any.c.                            *)
(*                                                                          *)
(* A hybrid key keeps two keys in one buffer,                               *)
(*                                                                          *)
(*     length (SIZE_OF_UINT32) || classical key || OQS key                  *)
(*                                                                          *)
(* sized for the longest classical key, while the OQS key follows the       *)
(* ACTUAL one (an RSA private key's DER is shorter for some keys).  The     *)
(* PKCS#8 blob drops the unused tail and the classical public key, which is *)
(* computed from the private one when the blob is read.  comp_privkey and   *)
(* comp_pubkey point into the buffers: they are offsets here.               *)
(*                                                                          *)
(* A buffer is a function from its offsets to cells; a cell names the part  *)
(* it belongs to, the key pair that part is of, and its index in it.        *)
(****************************************************************************)
EXTENDS Integers

CONSTANTS
  Ids,           \* key pairs; a hybrid pair is a classical and an OQS pair
  SizeOfUint32,  \* bytes of the length field
  CPriv, CPub,   \* evp_info->length_private_key, length_public_key
  QPriv, QPub,   \* length_secret_key and length_public_key of liboqs
  ClassLen,      \* the actual length of a pair's encoded classical private key
  NoPubInPriv    \* built with NOPUBKEY_IN_PRIVKEY

(* ECX and ECP hybrids differ in the classical library calls alone.         *)
KeyTypes == {"SIG", "KEM", "HYB_SIG", "HYB_KEM"}

(* Lengths are those of the tables of oqsprov_keys.c, which hold the length *)
(* of every EC, X25519 and X448 key and the longest RSA private key.        *)
ASSUME SizesAssumption ==
  /\ {SizeOfUint32, CPriv, CPub, QPriv, QPub} \subseteq Nat \ {0}
  /\ ClassLen \in [Ids -> 1 .. CPriv]
  /\ NoPubInPriv \in BOOLEAN

-----------------------------------------------------------------------------
(* Buffers.  NULL is the buffer without cells.                              *)
NoBuf == <<>>
NULL == -1          \* a pointer: offsets into the buffer are 0 and above
Uninit == -2        \* a pointer of OPENSSL_malloc'd memory, never set
Heap == -3          \* a pointer to memory of its own

Part(p, id) ==
  LET n == CASE p = "cpriv" -> ClassLen[id] [] p = "cpub" -> CPub
             [] p = "qpriv" -> QPriv        [] p = "qpub" -> QPub
  IN  [i \in 0 .. n - 1 |-> <<p, id, i>>]

Zalloc(n) == [i \in 0 .. n - 1 |-> <<"zero">>]
Memcpy(dst, off, src) ==
  [i \in DOMAIN dst |-> IF i - off \in DOMAIN src THEN src[i - off] ELSE dst[i]]
Slice(buf, off, n) == [i \in 0 .. n - 1 |-> buf[off + i]]
EncodeUint32(buf, n) ==
  Memcpy(buf, 0, [i \in 0 .. SizeOfUint32 - 1 |-> <<"len", n, i>>])
DecodeUint32(buf) == IF buf[0][1] = "len" THEN buf[0][2] ELSE 0

Hybrid(ty) == ty \in {"HYB_SIG", "HYB_KEM"}
PrivKeyLen(ty) == IF Hybrid(ty) THEN SizeOfUint32 + CPriv + QPriv ELSE QPriv
PubKeyLen(ty) == IF Hybrid(ty) THEN SizeOfUint32 + CPub + QPub ELSE QPub

(* oqsx_key_new: no material, and comp pointers nobody has set.  comp_*[0]  *)
(* of a hybrid key is its field cl; comp_*[numkeys-1] is the field oqs.     *)
OqsxKeyNew(ty) ==
  [ty |-> ty, st |-> "new", priv |-> NoBuf, pub |-> NoBuf,
   compPriv |-> [cl |-> Uninit, oqs |-> Uninit],
   compPub |-> [cl |-> Uninit, oqs |-> Uninit], pkey |-> {}]

Unused == [OqsxKeyNew("none") EXCEPT !.st = "none"]

CompsIgnoreLengthField(ty, buf) ==   \* mutant: the OQS key is not placed after the length field
  IF buf = NoBuf THEN [cl |-> NULL, oqs |-> NULL]
  ELSE IF Hybrid(ty)
       THEN [cl |-> SizeOfUint32, oqs |-> DecodeUint32(buf)]
       ELSE [cl |-> NULL, oqs |-> 0]

(* oqsx_key_set_composites for one of the two buffers.                      *)
Comps(ty, buf) ==
  IF buf = NoBuf THEN [cl |-> NULL, oqs |-> NULL]
  ELSE IF Hybrid(ty)
       THEN [cl |-> SizeOfUint32, oqs |-> SizeOfUint32 + DecodeUint32(buf)]
       ELSE [cl |-> NULL, oqs |-> 0]

SetComposites(key0) ==
  [key0 EXCEPT !.compPriv = Comps(key0.ty, key0.priv),
               !.compPub = Comps(key0.ty, key0.pub)]

(* The pairs whose part the bytes are: what d2i and the raw constructors    *)
(* make of them.  Bytes of no pair are refused.                             *)
PairsOf(p, bytes) == {id \in Ids : bytes = Part(p, id)}

(* The pair that bytes a library takes unchecked are a part of; bytes that  *)
(* are no key of a pair stand for nobody's.                                 *)
Nobody == "nobody"
Owner(p, bytes) == IF PairsOf(p, bytes) = {} THEN Nobody
                   ELSE CHOOSE id \in Ids : bytes = Part(p, id)

(* The n bytes of a library's output, each named by what it is part of.     *)
Bytes(n, what) == [i \in 0 .. n - 1 |-> <<what, i>>]

RecreateKeepsPub(key0, op) ==    \* mutant: the classical public key is not computed again
  IF ~Hybrid(key0.ty) THEN {key0}
  ELSE IF op = "public"
       THEN {[key0 EXCEPT !.pkey = {<<"cpub", id>>}] :
               id \in PairsOf("cpub", Slice(key0.pub, key0.compPub.cl,
                                            DecodeUint32(key0.pub)))}
       ELSE {[key0 EXCEPT !.pkey = {<<"cpriv", id>>, <<"cpub", id>>}] :
               id \in PairsOf("cpriv", Slice(key0.priv, key0.compPriv.cl,
                                             DecodeUint32(key0.priv)))}

(* oqsx_key_recreate_classickey: the resulting key, or none on error.  With *)
(* a private key the classical public key is written into its place; where  *)
(* there is no public buffer the library gets NULL and writes nothing.      *)
RecreateClassicKey(key0, op) ==
  IF ~Hybrid(key0.ty) THEN {key0}
  ELSE IF op = "public"
       THEN {[key0 EXCEPT !.pkey = {<<"cpub", id>>}] :
               id \in PairsOf("cpub", Slice(key0.pub, key0.compPub.cl,
                                            DecodeUint32(key0.pub)))}
       ELSE {[key0 EXCEPT !.pkey = {<<"cpriv", id>>, <<"cpub", id>>},
                          !.pub = IF NoPubInPriv THEN @
                                  ELSE Memcpy(@, key0.compPub.cl, Part("cpub", id))] :
               id \in PairsOf("cpriv", Slice(key0.priv, key0.compPriv.cl,
                                             DecodeUint32(key0.priv)))}
-----------------------------------------------------------------------------
(* Key generation: oqsx_key_gen_evp_key fills the classical half and the    *)
(* lengths, oqsx_key_gen_oqs the OQS half, at the comp pointers.            *)
GenEvpKey(key0, id) ==
  [key0 EXCEPT
     !.pub = EncodeUint32(Memcpy(@, SizeOfUint32, Part("cpub", id)), CPub),
     !.priv = EncodeUint32(Memcpy(@, SizeOfUint32, Part("cpriv", id)), ClassLen[id]),
     !.pkey = {<<"cpriv", id>>, <<"cpub", id>>}]

GenOqs(key0, id) ==
  [key0 EXCEPT !.pub = Memcpy(@, key0.compPub.oqs, Part("qpub", id)),
               !.priv = Memcpy(@, key0.compPriv.oqs, Part("qpriv", id))]

(* oqsx_key_allocate_keymaterial for both buffers of a new key.             *)
AllocateKeyMaterial(key0) ==
  [key0 EXCEPT !.priv = Zalloc(PrivKeyLen(key0.ty)),
               !.pub = Zalloc(PubKeyLen(key0.ty))]

KeyGen(ty, id) ==
  LET new == AllocateKeyMaterial(OqsxKeyNew(ty))
      classical == IF Hybrid(ty) THEN GenEvpKey(new, id) ELSE new
  IN  [GenOqs(SetComposites(classical), id) EXCEPT !.st = "ready"]

(* oqsx_key_fromdata on a new key.                                          *)
KeyFromData(ty, priv, pub) ==
  {[r EXCEPT !.st = "ready"] :
     r \in RecreateClassicKey(
             SetComposites([OqsxKeyNew(ty) EXCEPT !.priv = priv, !.pub = pub]),
             IF priv # NoBuf THEN "private" ELSE "public")}

(* oqsx_key_op on the bit string of a SubjectPublicKeyInfo.                 *)
KeyOpPublic(ty, p) ==
  IF DOMAIN p # 0 .. PubKeyLen(ty) - 1 THEN {}
  ELSE KeyFromData(ty, NoBuf, p)

KeyOpPrivateFull(ty, p) ==       \* mutant: the expected size not adjusted to the actual classical key
  LET actual == PrivKeyLen(ty)
      expected == actual + IF NoPubInPriv THEN 0 ELSE QPub
      pub0 == EncodeUint32(Zalloc(PubKeyLen(ty)), CPub)
  IN  IF DOMAIN p # 0 .. expected - 1 THEN {}
      ELSE KeyFromData(ty, Memcpy(Zalloc(PrivKeyLen(ty)), 0, Slice(p, 0, actual)),
             IF NoPubInPriv THEN NoBuf
             ELSE IF Hybrid(ty) THEN Memcpy(pub0, SizeOfUint32 + CPub, Slice(p, actual, QPub))
                  ELSE Slice(p, actual, QPub))

(* oqsx_key_op on the octet string of a PKCS#8 structure.                   *)
KeyOpPrivate(ty, p) ==
  LET n == DecodeUint32(p)
      actual == IF Hybrid(ty) THEN PrivKeyLen(ty) - (CPriv - n) ELSE PrivKeyLen(ty)
      expected == actual + IF NoPubInPriv THEN 0 ELSE QPub
      pub0 == EncodeUint32(Zalloc(PubKeyLen(ty)), CPub)
  IN  IF (Hybrid(ty) /\ n > CPriv) \/ DOMAIN p # 0 .. expected - 1 THEN {}
      ELSE KeyFromData(ty, Memcpy(Zalloc(PrivKeyLen(ty)), 0, Slice(p, 0, actual)),
             IF NoPubInPriv THEN NoBuf
             ELSE IF Hybrid(ty) THEN Memcpy(pub0, SizeOfUint32 + CPub, Slice(p, actual, QPub))
                  ELSE Slice(p, actual, QPub))

(* oqsx_pki_priv_to_der: the private key without its unused tail, then the  *)
(* OQS public key.                                                          *)
PkiPrivBytes(key0) ==
  LET len == IF Hybrid(key0.ty)
             THEN PrivKeyLen(key0.ty) - (CPriv - DecodeUint32(key0.priv))
             ELSE PrivKeyLen(key0.ty)
  IN  IF NoPubInPriv THEN Slice(key0.priv, 0, len)
      ELSE Memcpy(Memcpy(Zalloc(len + QPub), 0, Slice(key0.priv, 0, len)),
                  len, Slice(key0.pub, key0.compPub.oqs, QPub))
-----------------------------------------------------------------------------
(* OSSL_PKEY_PARAM_ENCODED_PUBLIC_KEY of oqsx_get_params: hybrid KEMs leave *)
(* the length field out.                                                    *)
PointBytes(key0) ==
  LET skip == IF key0.ty = "HYB_KEM" THEN SizeOfUint32 ELSE 0
  IN  Slice(key0.pub, skip, PubKeyLen(key0.ty) - skip)

SetEncodedPubKeepsPriv(key0, p) ==   \* mutant: the private key is not dropped
  IF key0.ty # "HYB_KEM"
  THEN [key0 EXCEPT !.st = "pubset", !.pub = p]
  ELSE IF key0.compPub.cl \in {NULL, Heap}
       THEN [key0 EXCEPT !.st = "pubset", !.compPub.cl = Heap]
       ELSE [key0 EXCEPT !.st = "pubset", !.pub = Memcpy(@, key0.compPub.cl, p)]

(* That parameter in oqsx_set_params.  The point is copied to where the     *)
(* pointer passed points (OSSL_PARAM_get_octet_string), or to new memory    *)
(* kept in the pointer if it is NULL.  The private key goes; comp_privkey   *)
(* and classical_pkey stay.                                                 *)
SetEncodedPub(key0, p) ==
  IF key0.ty # "HYB_KEM"
  THEN [key0 EXCEPT !.st = "pubset", !.pub = p, !.priv = NoBuf]
  ELSE IF key0.compPub.cl \in {NULL, Heap}
       THEN [key0 EXCEPT !.st = "pubset", !.compPub.cl = Heap, !.priv = NoBuf]
       ELSE [key0 EXCEPT !.st = "pubset", !.priv = NoBuf,
                         !.pub = Memcpy(@, key0.compPub.cl, p)]
-----------------------------------------------------------------------------
(* oqsx_has, for a selection of "priv", "pub" and "domain".                 *)
Has(key0, sel) ==
  /\ "pub" \in sel => key0.pub # NoBuf
  /\ "priv" \in sel => key0.priv # NoBuf

MatchPrivIgnored(key1, key2, sel) ==  \* mutant: private keys are not compared for the special case
  IF (key1.pub = NoBuf) # (key2.pub = NoBuf)
  THEN "domain" \in sel /\ key1.priv # NoBuf /\ key2.priv # NoBuf
  ELSE key1.pub = key2.pub

(* oqsx_match on two keys of one algorithm.  Two buffers match if both are  *)
(* NULL or both have the same bytes.  Private keys are compared only where  *)
(* public keys are not asked for, or where one of these is missing and      *)
(* domain parameters were asked for.                                        *)
MatchPublic(key1, key2, sel) ==
  IF (key1.pub = NoBuf) # (key2.pub = NoBuf)
  THEN "domain" \in sel /\ key1.priv # NoBuf /\ key1.priv = key2.priv
  ELSE key1.pub = key2.pub

Match(key1, key2, sel) ==
  \/ NoPubInPriv /\ {"priv", "pub"} \subseteq sel    \* the "leap of faith"
  \/ /\ "priv" \in sel /\ "pub" \notin sel => key1.priv = key2.priv
     /\ "pub" \in sel => MatchPublic(key1, key2, sel)

(* EVP_PKEY_eq: parameters, and public keys if both sides have one, or else *)
(* whole key pairs.                                                         *)
PkeyEq(key1, key2) ==
  Match(key1, key2,
        IF Has(key1, {"pub"}) /\ Has(key2, {"pub"})
        THEN {"pub", "domain"} ELSE {"priv", "pub", "domain"})
=============================================================================
