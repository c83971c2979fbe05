--------------------------- MODULE OqsxKeyMaterial ---------------------------
(****************************************************************************)
(* The ways key material enters and leaves a key object: generation, export *)
(* and import of parameters (oqs_kmgmt.c), the DER blobs of the encoder     *)
(* (oqs_encode_key2any.c) read back by the decoder, and the encoded public  *)
(* point a TLS peer sends.  What each does to the buffers is in             *)
(* OqsxKeyLayout.                                                           *)
(*                                                                          *)
(* Each call is one step: a key object under construction is seen by one    *)
(* thread, and OqsxKeyRef covers sharing.  A failed allocation frees the    *)
(* key being built and leaves everything as it was, so it is no step.       *)
(****************************************************************************)
EXTENDS OqsxKeyLayout

CONSTANTS
  Keys,          \* key objects a program may hold at once
  Types          \* the kinds of algorithm in use

ASSUME TypesAssumption == Types \subseteq KeyTypes

VARIABLES
  key,      \* the key objects
  of,       \* ghost: the pair each object is meant to hold, and which halves
  wire,     \* the last thing that left a key: parameters, a blob or a point
  used,     \* the pairs generated so far
  refused   \* ghost: something a key gave out was not accepted back

vars == <<key, of, wire, used, refused>>

-----------------------------------------------------------------------------
NoWire == [kind |-> "none", ty |-> "none", priv |-> NoBuf, pub |-> NoBuf,
           of |-> {}]

(* of: the halves a key or a wire holds, as pairs of half and key pair.     *)
Both(id) == {<<"priv", id>>, <<"pub", id>>}
Halves(parts, halves) == {h \in halves : h[1] \in parts}

(* A key whose generation lost its classical half is not used further: its  *)
(* comp pointers are those of fresh memory.                                 *)
Usable(k) == key[k].st \in {"ready", "pubset"}

Init ==
  /\ key = [k \in Keys |-> Unused]
  /\ of = [k \in Keys |-> {}]
  /\ wire = NoWire
  /\ used = {}
  /\ refused = FALSE

(* oqsx_genkey.  Every generation makes a pair nobody had before.           *)
Gen(k, ty, id) ==
  /\ key[k].st = "none"
  /\ id \notin used
  /\ key' = [key EXCEPT ![k] = KeyGen(ty, id)]
  /\ of' = [of EXCEPT ![k] = Both(id)]
  /\ used' = used \cup {id}
  /\ UNCHANGED <<wire, refused>>

(* oqsx_key_gen jumps to err with ret = 0 when the classical generation     *)
(* fails, which is its value for success: genkey returns the zeroed key.    *)
GenClassicalFails(k, ty) ==
  /\ key[k].st = "none"
  /\ Hybrid(ty)
  /\ key' = [key EXCEPT ![k] =
               [AllocateKeyMaterial(OqsxKeyNew(ty)) EXCEPT !.st = "half"]]
  /\ UNCHANGED <<of, wire, used, refused>>

(* oqsx_export: the public key whatever the selection, the private key if   *)
(* it is asked for, as far as the key has them.                             *)
Export(k, parts) ==
  /\ Usable(k)
  /\ parts # {}
  /\ wire' = [kind |-> "params", ty |-> key[k].ty,
              priv |-> IF "priv" \in parts THEN key[k].priv ELSE NoBuf,
              pub |-> key[k].pub, of |-> Halves(parts \cup {"pub"}, of[k])]
  /\ UNCHANGED <<key, of, used, refused>>

(* Something read back becomes a key object in a free slot, or is refused.  *)
Accept(k, keys, halves) ==
  /\ key[k].st = "none"
  /\ \/ /\ \E r \in keys : key' = [key EXCEPT ![k] = r]
        /\ of' = [of EXCEPT ![k] = halves]
        /\ UNCHANGED refused
     \/ /\ keys = {}
        /\ refused' = TRUE
        /\ UNCHANGED <<key, of>>
  /\ UNCHANGED <<wire, used>>

(* A new key filled by oqsx_import from some of the exported parameters.    *)
Import(k, parts) ==
  LET priv == IF "priv" \in parts THEN wire.priv ELSE NoBuf
      pub == IF "pub" \in parts THEN wire.pub ELSE NoBuf
  IN  /\ wire.kind = "params"
      /\ priv # NoBuf \/ pub # NoBuf
      /\ Accept(k, KeyFromData(wire.ty, priv, pub), Halves(parts, wire.of))

(* oqsx_spki_pub_to_der, and oqsx_key_from_x509pubkey on its blob.          *)
EncodeSpki(k) ==
  /\ Usable(k)
  /\ key[k].pub # NoBuf
  /\ wire' = [kind |-> "spki", ty |-> key[k].ty, priv |-> NoBuf,
              pub |-> key[k].pub, of |-> Halves({"pub"}, of[k])]
  /\ UNCHANGED <<key, of, used, refused>>

DecodeSpki(k) ==
  /\ wire.kind = "spki"
  /\ Accept(k, KeyOpPublic(wire.ty, wire.pub), wire.of)

(* oqsx_pki_priv_to_der, and oqsx_key_from_pkcs8 on its blob.               *)
EncodePki(k) ==
  /\ Usable(k)
  /\ key[k].priv # NoBuf
  /\ NoPubInPriv \/ key[k].pub # NoBuf
  /\ wire' = [kind |-> "pki", ty |-> key[k].ty,
              priv |-> PkiPrivBytes(key[k]), pub |-> NoBuf,
              of |-> Halves(IF NoPubInPriv THEN {"priv"} ELSE {"priv", "pub"}, of[k])]
  /\ UNCHANGED <<key, of, used, refused>>

DecodePki(k) ==
  /\ wire.kind = "pki"
  /\ Accept(k, KeyOpPrivate(wire.ty, wire.priv), wire.of)

(* OSSL_PKEY_PARAM_ENCODED_PUBLIC_KEY, got from one key and set in another. *)
GetEncodedPub(k) ==
  /\ Usable(k)
  /\ key[k].pub # NoBuf
  /\ wire' = [kind |-> "point", ty |-> key[k].ty, priv |-> NoBuf,
              pub |-> PointBytes(key[k]), of |-> Halves({"pub"}, of[k])]
  /\ UNCHANGED <<key, of, used, refused>>

SetParams(k) ==
  /\ Usable(k)
  /\ wire.kind = "point"
  /\ key[k].ty = wire.ty
  /\ key' = [key EXCEPT ![k] = SetEncodedPub(key[k], wire.pub)]
  /\ of' = [of EXCEPT ![k] = IF key'[k].pub = NoBuf THEN {} ELSE wire.of]
  /\ UNCHANGED <<wire, used, refused>>

(* The last reference goes: oqsx_key_free.                                  *)
Free(k) ==
  /\ key[k].st # "none"
  /\ key' = [key EXCEPT ![k] = Unused]
  /\ of' = [of EXCEPT ![k] = {}]
  /\ UNCHANGED <<wire, used, refused>>

Next ==
  \E k \in Keys :
    \/ \E ty \in Types, id \in Ids : Gen(k, ty, id)
    \/ \E ty \in Types : GenClassicalFails(k, ty)
    \/ \E parts \in SUBSET {"priv", "pub"} : Export(k, parts) \/ Import(k, parts)
    \/ EncodeSpki(k) \/ DecodeSpki(k)
    \/ EncodePki(k) \/ DecodePki(k)
    \/ GetEncodedPub(k) \/ SetParams(k)
    \/ Free(k)

Spec == Init /\ [][Next]_vars
-----------------------------------------------------------------------------
(* What a signature, a decapsulation or a verification reads through the    *)
(* comp pointers of a key that was generated, imported or decoded is        *)
(* exactly the key it stands for: the halves of one pair, the classical     *)
(* one with its own length.                                                 *)
PartsReadBack ==
  \A k \in Keys : key[k].st = "ready" =>
    \A h \in of[k] :
      LET ky == key[k]
          id == h[2]
          buf == IF h[1] = "priv" THEN ky.priv ELSE ky.pub
          comp == IF h[1] = "priv" THEN ky.compPriv ELSE ky.compPub
          classical == Part(IF h[1] = "priv" THEN "cpriv" ELSE "cpub", id)
          oqs == Part(IF h[1] = "priv" THEN "qpriv" ELSE "qpub", id)
          ReadsAs(off, bytes) ==
            \A i \in DOMAIN bytes : off + i \in DOMAIN buf /\ buf[off + i] = bytes[i]
      IN  /\ ReadsAs(comp.oqs, oqs)
          /\ Hybrid(ky.ty) => /\ ReadsAs(comp.cl, classical)
                              /\ DOMAIN classical = 0 .. DecodeUint32(buf) - 1
                              /\ ky.pkey # {}
                              /\ \A c \in ky.pkey : c[2] = id

(* "Re-create OQSX_KEY from encoding(s): Same end-state as after ken-gen"   *)
(* (oqsprov_keys.c:314): a key that came through parameters or a blob is    *)
(* the generated key, cell for cell, less the half that did not travel.     *)
SameEndState ==
  \A k \in Keys : key[k].st = "ready" =>
    \E id \in Ids :
      LET gen == KeyGen(key[k].ty, id)
          Keep(half, x, none) == IF <<half, id>> \in of[k] THEN x ELSE none
          off == [cl |-> NULL, oqs |-> NULL]
      IN  /\ of[k] # {} /\ of[k] \subseteq Both(id)
          /\ key[k] = [gen EXCEPT !.priv = Keep("priv", @, NoBuf),
                                  !.compPriv = Keep("priv", @, off),
                                  !.pub = Keep("pub", @, NoBuf),
                                  !.compPub = Keep("pub", @, off),
                                  !.pkey = Keep("priv", @, @ \ {<<"cpriv", id>>})]

(* Whatever a key gives out, the provider takes back: no length check of    *)
(* the decoder or of the import disagrees with what the encoder wrote.      *)
NothingRefused == ~refused

(* A key that took a peer's point (a TLS key share) holds that public key,  *)
(* length field included, and no private key: never the private half of the *)
(* pair generated before beside the public half of the peer.                *)
PeerKeyIsPublic ==
  \A k \in Keys : key[k].st = "pubset" =>
    /\ key[k].priv = NoBuf
    /\ \A h \in of[k] : key[k].pub = KeyGen(key[k].ty, h[2]).pub

(* EVP_PKEY_eq tells key pairs apart: two keys that have a half in common,  *)
(* however each of them was made, are equal exactly if they are of the same *)
(* pair.  Not so for two keys without public half (PrivateKeysAreCompared), *)
(* and a provider built with NOPUBKEY_IN_PRIVKEY takes a leap of faith      *)
(* where a public key is missing, so there both must have one.              *)
EqTellsPairs ==
  \A k, l \in Keys :
    LET HaveBoth(half) == Has(key[k], {half}) /\ Has(key[l], {half})
        HasOne(half) == Has(key[k], {half}) \/ Has(key[l], {half})
    IN  /\ key[k].st = "ready" /\ key[l].st = "ready" /\ key[k].ty = key[l].ty
        /\ HaveBoth("pub") \/ (~NoPubInPriv /\ HaveBoth("priv") /\ HasOne("pub"))
        => (PkeyEq(key[k], key[l]) <=> {h[2] : h \in of[k]} = {h[2] : h \in of[l]})
-----------------------------------------------------------------------------
(* "allocates OQS and classical keys" (oqsprov_keys.c:1159): a hybrid key   *)
(* that oqsx_key_gen reports as generated has a classical key.              *)
HybridKeysAreComplete ==
  \A k \in Keys : key[k].st # "none" /\ Hybrid(key[k].ty) => key[k].pkey # {}

(* "Private keys are matched binary if available in both keys"              *)
(* (oqs_kmgmt.c:114): keys that match on a selection with private keys, and *)
(* both have one, have the same one.                                        *)
PrivateKeysAreCompared ==
  \A k, l \in Keys, sel \in SUBSET {"priv", "pub", "domain"} :
    /\ key[k].st = "ready" /\ key[l].st = "ready" /\ key[k].ty = key[l].ty
    /\ "priv" \in sel
    /\ Has(key[k], {"priv"}) /\ Has(key[l], {"priv"})
    /\ Match(key[k], key[l], sel)
    => key[k].priv = key[l].priv
=============================================================================
