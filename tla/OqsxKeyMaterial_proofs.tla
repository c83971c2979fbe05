----------------------- MODULE OqsxKeyMaterial_proofs -----------------------
(****************************************************************************)
(* Key objects keep their layout, however they were made: the invariant of  *)
(* OqsxKeyMaterial and the properties that follow from it, for any number   *)
(* of keys, key pairs and algorithms, every size of the tables and every    *)
(* length of a classical private key.                                       *)
(****************************************************************************)
EXTENDS OqsxKeyMaterial, OqsxKeyLayout_proofs

HalvesOf(parts, id) == {<<p, id>> : p \in parts}

AllParts == {"priv", "pub"}
SomeParts == {parts \in SUBSET AllParts : parts # {}}

(* The fields of a key record.                                              *)
Shape(ky) ==
  /\ DOMAIN ky = {"ty", "st", "priv", "pub", "compPriv", "compPub", "pkey"}
  /\ DOMAIN ky.compPub = {"cl", "oqs"}

(* A key that took a point: the public key, and no private one.  A hybrid   *)
(* KEM key that had no public key holds nothing the provider would look at. *)
PeerKey(ky, h) ==
  /\ Shape(ky)
  /\ ky.st = "pubset"
  /\ ky.priv = NoBuf
  /\ \/ /\ h = {} /\ ky.pub = NoBuf
        /\ ky.ty = "HYB_KEM" /\ ky.compPub.cl \in {NULL, Heap}
     \/ \E id \in Ids :
          /\ h = HalvesOf({"pub"}, id) /\ ky.pub = PubLayout(ky.ty, id)
          /\ ky.ty = "HYB_KEM" => ky.compPub.cl = SizeOfUint32

(* A key object, and the halves h it is meant to hold.                      *)
KeyOk(ky, h) ==
  \/ ky = Unused /\ h = {}
  \/ ky.st = "half" /\ h = {}
  \/ \E id \in Ids, parts \in SomeParts :
       ky = MadeKey(ky.ty, id, parts) /\ h = HalvesOf(parts, id)
  \/ PeerKey(ky, h)

(* The two buffers x and y hold the halves h of one pair, or nothing.       *)
Hold(ty, x, y, h) ==
  \/ x = NoBuf /\ y = NoBuf /\ h = {}
  \/ \E id \in Ids, parts \in SUBSET AllParts :
       /\ x = IF "priv" \in parts THEN PrivLayout(ty, id) ELSE NoBuf
       /\ y = IF "pub" \in parts THEN PubLayout(ty, id) ELSE NoBuf
       /\ h = HalvesOf(parts, id)

(* What left a key last.                                                    *)
WireOk(w) ==
  \/ w.kind = "none"
  \/ w.kind = "params" /\ Hold(w.ty, w.priv, w.pub, w.of)
  \/ /\ w.kind = "spki"
     /\ \E id \in Ids : w.pub = PubLayout(w.ty, id) /\ w.of = HalvesOf({"pub"}, id)
  \/ /\ w.kind = "pki"
     /\ \E id \in Ids : w.priv = PkiLayout(w.ty, id) /\ w.of = HalvesOf(PkiParts, id)
  \/ /\ w.kind = "point"
     /\ \E id \in Ids : w.pub = PointLayout(w.ty, id) /\ w.of = HalvesOf({"pub"}, id)

OnKeys(f) == f = [k \in Keys |-> f[k]]

IInv ==
  /\ OnKeys(key) /\ OnKeys(of)
  /\ \A k \in Keys : KeyOk(key[k], of[k])
  /\ WireOk(wire)
  /\ ~refused

-----------------------------------------------------------------------------
(* Halves.                                                                  *)

LEMMA HalvesKept ==
  ASSUME NEW id, NEW parts, NEW ps
  PROVE  /\ Halves(parts, HalvesOf(ps, id)) = HalvesOf(parts \cap ps, id)
         /\ Halves(parts, {}) = {}
<1>1. \A h \in HalvesOf(ps, id) : h[1] \in ps /\ h = <<h[1], id>>  BY DEF HalvesOf
<1>2. \A p \in ps : <<p, id>> \in HalvesOf(ps, id) /\ <<p, id>>[1] = p  BY DEF HalvesOf
<1>3. ASSUME NEW h \in Halves(parts, HalvesOf(ps, id))  PROVE h \in HalvesOf(parts \cap ps, id)
  BY <1>1 DEF Halves, HalvesOf
<1>4. ASSUME NEW h \in HalvesOf(parts \cap ps, id)  PROVE h \in Halves(parts, HalvesOf(ps, id))
  <2>1. PICK p \in parts \cap ps : h = <<p, id>>  BY DEF HalvesOf
  <2>2. QED  BY <1>2, <2>1 DEF Halves
<1>5. Halves(parts, {}) = {}  BY DEF Halves
<1>6. QED  BY <1>3, <1>4, <1>5

LEMMA BothHalves ==
  ASSUME NEW id
  PROVE  Both(id) = HalvesOf(AllParts, id)
BY DEF Both, HalvesOf, AllParts

LEMMA HalvesAre ==
  ASSUME NEW id, NEW parts \in SomeParts
  PROVE  /\ HalvesOf(parts, id) # {} /\ HalvesOf(parts, id) \subseteq Both(id)
         /\ <<"priv", id>> \in HalvesOf(parts, id) <=> "priv" \in parts
         /\ <<"pub", id>> \in HalvesOf(parts, id) <=> "pub" \in parts
<1>1. \A p : <<p, id>> \in HalvesOf(parts, id) <=> p \in parts
  <2>1. \A p, q : <<p, id>> = <<q, id>> => p = q  OBVIOUS
  <2>2. QED  BY <2>1 DEF HalvesOf
<1>2. HalvesOf(parts, id) \subseteq Both(id)
  BY DEF HalvesOf, Both, SomeParts, AllParts
<1>3. HalvesOf(parts, id) # {}
  <2>1. PICK p : p \in parts  BY DEF SomeParts
  <2>2. QED  BY <1>1, <2>1
<1>4. QED  BY <1>1, <1>2, <1>3

LEMMA PartsAre ==
  ASSUME NEW parts \in SUBSET AllParts
  PROVE  parts = {} \/ parts = {"priv"} \/ parts = {"pub"} \/ parts = {"priv", "pub"}
BY DEF AllParts

(* What is to be read of a made key.                                        *)
IsMade(ky, ty, id, parts) ==
  /\ ky.ty = ty /\ ky.st = "ready"
  /\ ky.priv = IF "priv" \in parts THEN PrivLayout(ty, id) ELSE NoBuf
  /\ ky.pub = IF "pub" \in parts THEN PubLayout(ty, id) ELSE NoBuf
  /\ ky.compPriv = IF "priv" \in parts THEN CompsOf(ty, ClassLen[id]) ELSE NoComps
  /\ ky.compPub = IF "pub" \in parts THEN CompsOf(ty, CPub) ELSE NoComps
  /\ ky.pkey = IF ~Hybrid(ty) THEN {}
               ELSE IF "priv" \in parts THEN {<<"cpriv", id>>, <<"cpub", id>>}
               ELSE {<<"cpub", id>>}

LEMMA MadeFields ==
  ASSUME NEW ty, NEW id, NEW parts
  PROVE  IsMade(MadeKey(ty, id, parts), ty, id, parts)
BY DEF MadeKey, IsMade

LEMMA MadeReady ==
  ASSUME NEW ty, NEW id, NEW parts
  PROVE  MadeKey(ty, id, parts).ty = ty /\ MadeKey(ty, id, parts).st = "ready"
BY DEF MadeKey

LEMMA UnusedState == Unused.st = "none"
BY DEF Unused, OqsxKeyNew

LEMMA ReadyKeys ==
  ASSUME NEW ky, NEW h, KeyOk(ky, h), ky.st = "ready"
  PROVE  \E id \in Ids, parts \in SomeParts :
           ky = MadeKey(ky.ty, id, parts) /\ h = HalvesOf(parts, id)
BY UnusedState DEF KeyOk, PeerKey

LEMMA PeerKeys ==
  ASSUME NEW ky, NEW h, KeyOk(ky, h), ky.st = "pubset"
  PROVE  PeerKey(ky, h)
<1>1. ~(ky = Unused) /\ ~(ky.st = "half")  BY UnusedState
<1>2. ASSUME NEW id, NEW parts, ky = MadeKey(ky.ty, id, parts)  PROVE FALSE
  <2>1. ky.st = "ready"  BY <1>2, MadeReady
  <2>2. QED  BY <2>1
<1>3. QED  BY <1>1, <1>2 DEF KeyOk

(* What a usable key gives out: the buffers of its halves, and where its    *)
(* OQS public key is.                                                       *)
LEMMA UsableHolds ==
  ASSUME NEW ky, NEW h, KeyOk(ky, h), ky.st \in {"ready", "pubset"}
  PROVE  Hold(ky.ty, ky.priv, ky.pub, h)
<1>1. CASE ky.st = "ready"
  <2>1. PICK id \in Ids, parts \in SomeParts :
               ky = MadeKey(ky.ty, id, parts) /\ h = HalvesOf(parts, id)
    BY <1>1, ReadyKeys
  <2>2. /\ ky.priv = IF "priv" \in parts THEN PrivLayout(ky.ty, id) ELSE NoBuf
        /\ ky.pub = IF "pub" \in parts THEN PubLayout(ky.ty, id) ELSE NoBuf
    <3>1. IsMade(ky, ky.ty, id, parts)  BY <2>1, MadeFields
    <3>2. QED  BY <3>1 DEF IsMade
  <2>3. parts \in SUBSET AllParts  BY DEF SomeParts
  <2>4. QED  BY <2>1, <2>2, <2>3 DEF Hold
<1>2. CASE ky.st = "pubset"
  <2>1. PeerKey(ky, h)  BY <1>2, PeerKeys
  <2>2. CASE h = {} /\ ky.pub = NoBuf  BY <2>1, <2>2 DEF PeerKey, Hold
  <2>3. ASSUME NEW id \in Ids, h = HalvesOf({"pub"}, id), ky.pub = PubLayout(ky.ty, id)
        PROVE  Hold(ky.ty, ky.priv, ky.pub, h)
    <3>1. {"pub"} \in SUBSET AllParts /\ ky.priv = NoBuf  BY <2>1 DEF AllParts, PeerKey
    <3>2. QED  BY <2>3, <3>1 DEF Hold
  <2>4. QED  BY <2>1, <2>2, <2>3 DEF PeerKey
<1>3. QED  BY <1>1, <1>2

LEMMA HeldPub ==
  ASSUME NEW ty, NEW x, NEW y, NEW h, Hold(ty, x, y, h), y # NoBuf
  PROVE  \E id \in Ids : y = PubLayout(ty, id) /\ Halves({"pub"}, h) = HalvesOf({"pub"}, id)
<1>1. PICK id \in Ids, parts \in SUBSET AllParts :
             /\ y = IF "pub" \in parts THEN PubLayout(ty, id) ELSE NoBuf
             /\ h = HalvesOf(parts, id)
  BY DEF Hold
<1>2. "pub" \in parts /\ {"pub"} \cap parts = {"pub"}  BY <1>1
<1>3. QED  BY <1>1, <1>2, HalvesKept

-----------------------------------------------------------------------------
(* Steps that change one key.                                               *)
LEMMA OneKey ==
  ASSUME IInv, NEW k \in Keys, NEW r, NEW h,
         key' = [key EXCEPT ![k] = r], of' = [of EXCEPT ![k] = h], KeyOk(r, h)
  PROVE  /\ OnKeys(key') /\ OnKeys(of')
         /\ \A j \in Keys : KeyOk(key'[j], of'[j])
<1>1. /\ OnKeys(key) /\ OnKeys(of)
      /\ \A j \in Keys : KeyOk(key[j], of[j])
  BY DEF IInv
<1>2. \A j \in Keys : /\ key'[j] = IF j = k THEN r ELSE key[j]
                      /\ of'[j] = IF j = k THEN h ELSE of[j]
  BY <1>1 DEF OnKeys
<1>3. OnKeys(key') /\ OnKeys(of')  BY <1>1 DEF OnKeys
<1>4. QED  BY <1>1, <1>2, <1>3

LEMMA AcceptStep ==
  ASSUME IInv, NEW k \in Keys, NEW keys, NEW h, NEW r, keys = {r}, KeyOk(r, h),
         Accept(k, keys, h)
  PROVE  IInv'
<1>1. /\ key' = [key EXCEPT ![k] = r] /\ of' = [of EXCEPT ![k] = h]
      /\ refused' = refused /\ wire' = wire
  BY DEF Accept
<1>2. /\ OnKeys(key') /\ OnKeys(of')
      /\ \A j \in Keys : KeyOk(key'[j], of'[j])
  BY <1>1, OneKey
<1>3. WireOk(wire') /\ ~refused'  BY <1>1 DEF IInv
<1>4. QED  BY <1>2, <1>3 DEF IInv

LEMMA WireStep ==
  ASSUME IInv, WireOk(wire'), UNCHANGED <<key, of, refused>>
  PROVE  IInv'
BY DEF IInv

LEMMA MadeOk ==
  ASSUME NEW ty, NEW id \in Ids, NEW parts \in SomeParts
  PROVE  KeyOk(MadeKey(ty, id, parts), HalvesOf(parts, id))
<1>1. MadeKey(ty, id, parts).ty = ty  BY MadeReady
<1>2. QED  BY <1>1 DEF KeyOk

-----------------------------------------------------------------------------
(* One lemma for each action of Next.                                       *)

LEMMA GenStep ==
  ASSUME IInv, NEW k \in Keys, NEW ty, NEW id \in Ids, Gen(k, ty, id)
  PROVE  IInv'
<1> DEFINE r == MadeKey(ty, id, AllParts)  h == HalvesOf(AllParts, id)
<1>1. KeyGen(ty, id) = r  BY KeyGenMakes DEF AllParts
<1>2. Both(id) = h  BY BothHalves
<1>3. KeyOk(r, h)
  <2>1. AllParts \in SomeParts  BY DEF AllParts, SomeParts
  <2>2. QED  BY <2>1, MadeOk
<1>4. key' = [key EXCEPT ![k] = r] /\ of' = [of EXCEPT ![k] = h]
      /\ wire' = wire /\ refused' = refused
  BY <1>1, <1>2 DEF Gen
<1> HIDE DEF r, h
<1>5. /\ OnKeys(key') /\ OnKeys(of')
      /\ \A j \in Keys : KeyOk(key'[j], of'[j])
  BY <1>3, <1>4, OneKey
<1>6. QED  BY <1>4, <1>5 DEF IInv

LEMMA FreeKeys ==
  ASSUME NEW ky, NEW h, KeyOk(ky, h), ky.st = "none"
  PROVE  h = {}
<1>1. ASSUME NEW id, NEW parts, ky = MadeKey(ky.ty, id, parts)  PROVE FALSE
  <2>1. ky.st = "ready"  BY <1>1, MadeReady
  <2>2. QED  BY <2>1
<1>2. ~PeerKey(ky, h)  BY DEF PeerKey
<1>3. QED  BY <1>1, <1>2 DEF KeyOk

LEMMA GenFailsStep ==
  ASSUME IInv, NEW k \in Keys, NEW ty, GenClassicalFails(k, ty)
  PROVE  IInv'
<1> DEFINE a == AllocateKeyMaterial(OqsxKeyNew(ty))  r == [a EXCEPT !.st = "half"]
<1>1. of[k] = {}  BY FreeKeys DEF IInv, GenClassicalFails
<1>2. r.st = "half"
  <2>1. "st" \in DOMAIN a  BY RawAllocated DEF RawKey
  <2> HIDE DEF a
  <2>2. QED  BY <2>1
<1>3. KeyOk(r, {})  BY <1>2 DEF KeyOk
<1>4. key' = [key EXCEPT ![k] = r] /\ of' = [of EXCEPT ![k] = {}]
      /\ wire' = wire /\ refused' = refused
  <2>1. of = [of EXCEPT ![k] = {}]
    <3>1. of = [j \in Keys |-> of[j]]  BY DEF IInv, OnKeys
    <3>2. QED  BY <1>1, <3>1
  <2>2. QED  BY <2>1 DEF GenClassicalFails
<1> HIDE DEF r
<1>5. /\ OnKeys(key') /\ OnKeys(of')
      /\ \A j \in Keys : KeyOk(key'[j], of'[j])
  BY <1>3, <1>4, OneKey
<1>6. QED  BY <1>4, <1>5 DEF IInv

LEMMA FreeStep ==
  ASSUME IInv, NEW k \in Keys, Free(k)
  PROVE  IInv'
<1>1. key' = [key EXCEPT ![k] = Unused] /\ of' = [of EXCEPT ![k] = {}]
      /\ wire' = wire /\ refused' = refused
  BY DEF Free
<1>2. KeyOk(Unused, {})  BY DEF KeyOk
<1>3. /\ OnKeys(key') /\ OnKeys(of')
      /\ \A j \in Keys : KeyOk(key'[j], of'[j])
  BY <1>1, <1>2, OneKey
<1>4. QED  BY <1>1, <1>3 DEF IInv

LEMMA ExportStep ==
  ASSUME IInv, NEW k \in Keys, NEW parts \in SUBSET AllParts, Export(k, parts)
  PROVE  IInv'
<1> DEFINE ky == key[k]  h == of[k]  ps == parts \cup {"pub"}
           x == IF "priv" \in parts THEN ky.priv ELSE NoBuf
<1>1. Hold(ky.ty, ky.priv, ky.pub, h)
  <2>1. KeyOk(ky, h) /\ ky.st \in {"ready", "pubset"}  BY DEF IInv, Export, Usable
  <2>2. QED  BY <2>1, UsableHolds
<1>2. Hold(ky.ty, x, ky.pub, Halves(ps, h))
  <2>1. CASE ky.priv = NoBuf /\ ky.pub = NoBuf /\ h = {}
    BY <2>1, HalvesKept DEF Hold
  <2>2. ASSUME NEW id \in Ids, NEW qs \in SUBSET AllParts,
               ky.priv = IF "priv" \in qs THEN PrivLayout(ky.ty, id) ELSE NoBuf,
               ky.pub = IF "pub" \in qs THEN PubLayout(ky.ty, id) ELSE NoBuf,
               h = HalvesOf(qs, id)
        PROVE  Hold(ky.ty, x, ky.pub, Halves(ps, h))
    <3> HIDE DEF ky, h
    <3>1. Halves(ps, h) = HalvesOf(ps \cap qs, id)  BY <2>2, HalvesKept
    <3>2. x = IF "priv" \in ps \cap qs THEN PrivLayout(ky.ty, id) ELSE NoBuf  BY <2>2
    <3>3. ky.pub = IF "pub" \in ps \cap qs THEN PubLayout(ky.ty, id) ELSE NoBuf  BY <2>2
    <3>4. ps \cap qs \in SUBSET AllParts  OBVIOUS
    <3> HIDE DEF x, ps
    <3>5. QED  BY <3>1, <3>2, <3>3, <3>4 DEF Hold
  <2>3. QED  BY <1>1, <2>1, <2>2 DEF Hold
<1>3. /\ wire'.kind = "params" /\ wire'.ty = ky.ty /\ wire'.priv = x
      /\ wire'.pub = ky.pub /\ wire'.of = Halves(ps, h)
      /\ UNCHANGED <<key, of, refused>>
  BY DEF Export
<1> HIDE DEF x, ky, h, ps
<1>4. WireOk(wire')  BY <1>2, <1>3 DEF WireOk
<1>5. QED  BY <1>3, <1>4, WireStep

LEMMA EncodeSpkiStep ==
  ASSUME IInv, NEW k \in Keys, EncodeSpki(k)
  PROVE  IInv'
<1> DEFINE ky == key[k]  h == of[k]
<1>1. KeyOk(ky, h) /\ ky.st \in {"ready", "pubset"} /\ ky.pub # NoBuf
  BY DEF IInv, EncodeSpki, Usable
<1>2. /\ wire'.kind = "spki" /\ wire'.ty = ky.ty /\ wire'.pub = ky.pub
      /\ wire'.of = Halves({"pub"}, h) /\ UNCHANGED <<key, of, refused>>
  BY DEF EncodeSpki
<1> HIDE DEF ky, h
<1>3. Hold(ky.ty, ky.priv, ky.pub, h)  BY <1>1, UsableHolds
<1>4. PICK id \in Ids : /\ ky.pub = PubLayout(ky.ty, id)
                        /\ Halves({"pub"}, h) = HalvesOf({"pub"}, id)
  BY <1>1, <1>3, HeldPub
<1>5. WireOk(wire')  BY <1>2, <1>4 DEF WireOk
<1>6. QED  BY <1>2, <1>5, WireStep

LEMMA GetEncodedPubStep ==
  ASSUME IInv, NEW k \in Keys, GetEncodedPub(k)
  PROVE  IInv'
<1> DEFINE ky == key[k]  h == of[k]
<1>1. KeyOk(ky, h) /\ ky.st \in {"ready", "pubset"} /\ ky.pub # NoBuf
  BY DEF IInv, GetEncodedPub, Usable
<1>2. /\ wire'.kind = "point" /\ wire'.ty = ky.ty /\ wire'.pub = PointBytes(ky)
      /\ wire'.of = Halves({"pub"}, h) /\ UNCHANGED <<key, of, refused>>
  BY DEF GetEncodedPub
<1> HIDE DEF ky, h
<1>3. Hold(ky.ty, ky.priv, ky.pub, h)  BY <1>1, UsableHolds
<1>4. PICK id \in Ids : /\ ky.pub = PubLayout(ky.ty, id)
                        /\ Halves({"pub"}, h) = HalvesOf({"pub"}, id)
  BY <1>1, <1>3, HeldPub
<1>5. PointBytes(ky) = PointLayout(ky.ty, id)  BY <1>4, PointRead
<1>6. WireOk(wire')  BY <1>2, <1>4, <1>5 DEF WireOk
<1>7. QED  BY <1>2, <1>6, WireStep

LEMMA EncodePkiStep ==
  ASSUME IInv, NEW k \in Keys, EncodePki(k)
  PROVE  IInv'
<1> DEFINE ky == key[k]  h == of[k]
<1>1. /\ KeyOk(ky, h) /\ ky.st \in {"ready", "pubset"} /\ ky.priv # NoBuf
      /\ NoPubInPriv \/ ky.pub # NoBuf
  BY DEF IInv, EncodePki, Usable
<1>2. /\ wire'.kind = "pki" /\ wire'.ty = ky.ty /\ wire'.priv = PkiPrivBytes(ky)
      /\ wire'.of = Halves(PkiParts, h) /\ UNCHANGED <<key, of, refused>>
  BY DEF EncodePki, PkiParts
<1> HIDE DEF ky, h
<1>3. ky.st = "ready"
  <2>1. ASSUME ky.st = "pubset"  PROVE FALSE
    BY <1>1, <2>1, PeerKeys DEF PeerKey
  <2>2. QED  BY <1>1, <2>1
<1>4. PICK id \in Ids, parts \in SomeParts :
             ky = MadeKey(ky.ty, id, parts) /\ h = HalvesOf(parts, id)
  BY <1>1, <1>3, ReadyKeys
<1>5. IsMade(ky, ky.ty, id, parts)  BY <1>4, MadeFields
<1>6. "priv" \in parts /\ (NoPubInPriv \/ "pub" \in parts)  BY <1>1, <1>5 DEF IsMade
<1>7. PkiParts \cap parts = PkiParts  BY <1>6 DEF PkiParts
<1>8. Halves(PkiParts, h) = HalvesOf(PkiParts, id)  BY <1>4, <1>7, HalvesKept
<1>9. PkiPrivBytes(ky) = PkiLayout(ky.ty, id)
  <2>1. ky.priv = PrivLayout(ky.ty, id)  BY <1>5, <1>6 DEF IsMade
  <2>2. NoPubInPriv \/ (ky.pub = PubLayout(ky.ty, id) /\ ky.compPub = CompsOf(ky.ty, CPub))
    BY <1>5, <1>6 DEF IsMade
  <2>3. QED  BY <2>1, <2>2, PkiWritten
<1>10. WireOk(wire')  BY <1>2, <1>8, <1>9 DEF WireOk
<1>11. QED  BY <1>2, <1>10, WireStep

LEMMA ImportStep ==
  ASSUME IInv, NEW k \in Keys, NEW parts \in SUBSET AllParts, Import(k, parts)
  PROVE  IInv'
<1> DEFINE x == IF "priv" \in parts THEN wire.priv ELSE NoBuf
           y == IF "pub" \in parts THEN wire.pub ELSE NoBuf
           h == Halves(parts, wire.of)  ty == wire.ty
<1>1. /\ wire.kind = "params" /\ (x # NoBuf \/ y # NoBuf)
      /\ Accept(k, KeyFromData(ty, x, y), h)
  BY DEF Import
<1>2. Hold(ty, wire.priv, wire.pub, wire.of)  BY <1>1 DEF IInv, WireOk
<1>3. PICK id \in Ids, qs \in SUBSET AllParts :
             /\ wire.priv = IF "priv" \in qs THEN PrivLayout(ty, id) ELSE NoBuf
             /\ wire.pub = IF "pub" \in qs THEN PubLayout(ty, id) ELSE NoBuf
             /\ wire.of = HalvesOf(qs, id)
  BY <1>1, <1>2 DEF Hold
<1> DEFINE ps == parts \cap qs
<1>4. /\ x = IF "priv" \in ps THEN PrivLayout(ty, id) ELSE NoBuf
      /\ y = IF "pub" \in ps THEN PubLayout(ty, id) ELSE NoBuf
      /\ h = HalvesOf(ps, id)
  BY <1>3, HalvesKept
<1>5. ps \in SUBSET AllParts  OBVIOUS
<1> HIDE DEF x, y, h, ty, ps
<1>6. ps # {}  BY <1>1, <1>4
<1>7. KeyFromData(ty, x, y) = {MadeKey(ty, id, ps)}
  <2>1. ps = {"priv"} \/ ps = {"pub"} \/ ps = {"priv", "pub"}  BY <1>5, <1>6, PartsAre
  <2>2. CASE ps = {"priv"}
    <3>1. x = PrivLayout(ty, id) /\ y = NoBuf  BY <1>4, <2>2
    <3>2. QED  BY <2>2, <3>1, FromDataMakes
  <2>3. CASE ps = {"pub"}
    <3>1. x = NoBuf /\ y = PubLayout(ty, id)  BY <1>4, <2>3
    <3>2. QED  BY <2>3, <3>1, FromDataMakes
  <2>4. CASE ps = {"priv", "pub"}
    <3>1. x = PrivLayout(ty, id) /\ y = PubLayout(ty, id)  BY <1>4, <2>4
    <3>2. QED  BY <2>4, <3>1, FromDataMakes
  <2>5. QED  BY <2>1, <2>2, <2>3, <2>4
<1>8. KeyOk(MadeKey(ty, id, ps), h)
  <2>1. ps \in SomeParts  BY <1>5, <1>6 DEF SomeParts
  <2>2. QED  BY <1>4, <2>1, MadeOk
<1>9. QED  BY <1>1, <1>7, <1>8, AcceptStep

LEMMA DecodeSpkiStep ==
  ASSUME IInv, NEW k \in Keys, DecodeSpki(k)
  PROVE  IInv'
<1> DEFINE ty == wire.ty  h == wire.of
<1>1. wire.kind = "spki" /\ Accept(k, KeyOpPublic(ty, wire.pub), h)  BY DEF DecodeSpki
<1>2. PICK id \in Ids : wire.pub = PubLayout(ty, id) /\ h = HalvesOf({"pub"}, id)
  BY <1>1 DEF IInv, WireOk
<1>3. KeyOpPublic(ty, wire.pub) = {MadeKey(ty, id, {"pub"})}  BY <1>2, SpkiRead
<1>4. {"pub"} \in SomeParts  BY DEF SomeParts, AllParts
<1> HIDE DEF ty, h
<1>5. KeyOk(MadeKey(ty, id, {"pub"}), h)  BY <1>2, <1>4, MadeOk
<1>6. QED  BY <1>1, <1>3, <1>5, AcceptStep

LEMMA DecodePkiStep ==
  ASSUME IInv, NEW k \in Keys, DecodePki(k)
  PROVE  IInv'
<1> DEFINE ty == wire.ty  h == wire.of
<1>1. wire.kind = "pki" /\ Accept(k, KeyOpPrivate(ty, wire.priv), h)  BY DEF DecodePki
<1>2. PICK id \in Ids : wire.priv = PkiLayout(ty, id) /\ h = HalvesOf(PkiParts, id)
  BY <1>1 DEF IInv, WireOk
<1>3. KeyOpPrivate(ty, wire.priv) = {MadeKey(ty, id, PkiParts)}  BY <1>2, PkiRead
<1>4. PkiParts \in SomeParts  BY DEF SomeParts, AllParts, PkiParts
<1> HIDE DEF ty, h
<1>5. KeyOk(MadeKey(ty, id, PkiParts), h)  BY <1>2, <1>4, MadeOk
<1>6. QED  BY <1>1, <1>3, <1>5, AcceptStep

(* Where the pointer that takes a hybrid KEM's point points.                *)
LEMMA UsablePub ==
  ASSUME NEW ky, NEW h, KeyOk(ky, h), ky.st \in {"ready", "pubset"}
  PROVE  /\ Shape(ky)
         /\ \/ ky.pub = NoBuf /\ (ky.ty = "HYB_KEM" => ky.compPub.cl \in {NULL, Heap})
            \/ \E e \in Ids : /\ ky.pub = PubLayout(ky.ty, e)
                              /\ ky.ty = "HYB_KEM" => ky.compPub.cl = SizeOfUint32
<1>1. CASE ky.st = "ready"
  <2>1. PICK id \in Ids, parts \in SomeParts :
               ky = MadeKey(ky.ty, id, parts) /\ h = HalvesOf(parts, id)
    BY <1>1, ReadyKeys
  <2>2. IsMade(ky, ky.ty, id, parts)  BY <2>1, MadeFields
  <2>3. DOMAIN ky = {"ty", "st", "priv", "pub", "compPriv", "compPub", "pkey"}
    <3>1. DOMAIN MadeKey(ky.ty, id, parts) =
            {"ty", "st", "priv", "pub", "compPriv", "compPub", "pkey"}
      BY DEF MadeKey
    <3>2. QED  BY <2>1, <3>1
  <2>4. /\ DOMAIN NoComps = {"cl", "oqs"} /\ DOMAIN CompsOf(ky.ty, CPub) = {"cl", "oqs"}
        /\ NoComps.cl = NULL
        /\ ky.ty = "HYB_KEM" => CompsOf(ky.ty, CPub).cl = SizeOfUint32
    BY DEF NoComps, CompsOf, Hybrid
  <2>5. Shape(ky)  BY <2>2, <2>3, <2>4 DEF IsMade, Shape
  <2>6. CASE "pub" \in parts  BY <2>2, <2>4, <2>5, <2>6 DEF IsMade
  <2>7. CASE "pub" \notin parts  BY <2>2, <2>4, <2>5, <2>7 DEF IsMade
  <2>8. QED  BY <2>6, <2>7
<1>2. CASE ky.st = "pubset"  BY <1>2, PeerKeys DEF PeerKey
<1>3. QED  BY <1>1, <1>2

(* oqsx_set_params on a usable key, with the point of a pair.               *)
LEMMA PointTaken ==
  ASSUME NEW ky, Shape(ky), NEW id \in Ids, NEW p, p = PointLayout(ky.ty, id), NEW r,
         r = SetEncodedPub(ky, p),
         \/ ky.pub = NoBuf /\ (ky.ty = "HYB_KEM" => ky.compPub.cl \in {NULL, Heap})
         \/ \E e \in Ids : /\ ky.pub = PubLayout(ky.ty, e)
                           /\ ky.ty = "HYB_KEM" => ky.compPub.cl = SizeOfUint32
  PROVE  PeerKey(r, IF r.pub = NoBuf THEN {} ELSE HalvesOf({"pub"}, id))
<1> DEFINE ty == ky.ty  y == PubLayout(ty, id)  h == HalvesOf({"pub"}, id)
           F == {"ty", "st", "priv", "pub", "compPriv", "compPub", "pkey"}
<1>1. DOMAIN ky = F /\ DOMAIN ky.compPub = {"cl", "oqs"}  BY DEF Shape
<1>2. y # NoBuf  BY LayoutDomains
<1>3. SizeOfUint32 \in Nat /\ SizeOfUint32 # NULL /\ SizeOfUint32 # Heap
  BY Sizes DEF NULL, Heap
<1>4. CASE ty # "HYB_KEM"
  <2>1. r = [ky EXCEPT !.st = "pubset", !.pub = p, !.priv = NoBuf]
    BY <1>4 DEF SetEncodedPub
  <2>2. p = y  BY <1>4 DEF PointLayout
  <2>3. /\ DOMAIN r = F /\ r.st = "pubset" /\ r.pub = p /\ r.priv = NoBuf
        /\ r.ty = ty /\ r.compPub = ky.compPub
    BY <1>1, <2>1
  <2> HIDE DEF y, h
  <2>4. QED  BY <1>1, <1>2, <1>4, <2>2, <2>3 DEF PeerKey, Shape, y, h
<1>5. CASE ty = "HYB_KEM" /\ ky.compPub.cl \in {NULL, Heap}
  <2>1. ky.pub = NoBuf  BY <1>3, <1>5
  <2> DEFINE c == [ky.compPub EXCEPT !.cl = Heap]
  <2>2. r = [ky EXCEPT !.st = "pubset", !.compPub = c, !.priv = NoBuf]
    BY <1>5 DEF SetEncodedPub
  <2>3. DOMAIN c = {"cl", "oqs"} /\ c.cl = Heap  BY <1>1
  <2> HIDE DEF c
  <2>4. /\ DOMAIN r = F /\ r.st = "pubset" /\ r.pub = ky.pub /\ r.priv = NoBuf
        /\ r.ty = ty /\ r.compPub = c
    BY <1>1, <2>2
  <2>5. QED  BY <1>5, <2>1, <2>3, <2>4 DEF PeerKey, Shape
<1>6. CASE ty = "HYB_KEM" /\ ky.compPub.cl \notin {NULL, Heap}
  <2>1. PICK e \in Ids : ky.pub = PubLayout(ty, e) /\ ky.compPub.cl = SizeOfUint32
    BY <1>6
  <2>2. r = [ky EXCEPT !.st = "pubset", !.priv = NoBuf,
                       !.pub = Memcpy(ky.pub, ky.compPub.cl, p)]
    BY <1>6 DEF SetEncodedPub
  <2>3. Memcpy(ky.pub, ky.compPub.cl, p) = y  BY <1>6, <2>1, PointWritten
  <2>4. /\ DOMAIN r = F /\ r.st = "pubset" /\ r.pub = Memcpy(ky.pub, ky.compPub.cl, p)
        /\ r.priv = NoBuf /\ r.ty = ty /\ r.compPub = ky.compPub
    BY <1>1, <2>2
  <2> HIDE DEF y, h
  <2>5. QED  BY <1>1, <1>2, <1>6, <2>1, <2>3, <2>4 DEF PeerKey, Shape, y, h
<1>7. QED  BY <1>4, <1>5, <1>6

LEMMA SetParamsStep ==
  ASSUME IInv, NEW k \in Keys, SetParams(k)
  PROVE  IInv'
<1> DEFINE ky == key[k]  r == SetEncodedPub(ky, wire.pub)
<1>1. /\ ky.st \in {"ready", "pubset"} /\ wire.kind = "point" /\ ky.ty = wire.ty
      /\ key' = [key EXCEPT ![k] = r]
      /\ of' = [of EXCEPT ![k] = IF key'[k].pub = NoBuf THEN {} ELSE wire.of]
      /\ wire' = wire /\ refused' = refused
  BY DEF SetParams, Usable
<1>2. KeyOk(ky, of[k]) /\ key = [j \in Keys |-> key[j]]  BY DEF IInv, OnKeys
<1>3. PICK id \in Ids : wire.pub = PointLayout(ky.ty, id) /\ wire.of = HalvesOf({"pub"}, id)
  BY <1>1 DEF IInv, WireOk
<1> DEFINE h == IF r.pub = NoBuf THEN {} ELSE HalvesOf({"pub"}, id)
<1> HIDE DEF ky, r
<1>4. key'[k] = r  BY <1>1, <1>2
<1>5. of' = [of EXCEPT ![k] = h]  BY <1>1, <1>3, <1>4
<1>6. PeerKey(r, h)
  <2>1. /\ Shape(ky)
        /\ \/ ky.pub = NoBuf /\ (ky.ty = "HYB_KEM" => ky.compPub.cl \in {NULL, Heap})
           \/ \E e \in Ids : /\ ky.pub = PubLayout(ky.ty, e)
                             /\ ky.ty = "HYB_KEM" => ky.compPub.cl = SizeOfUint32
    BY <1>1, <1>2, UsablePub
  <2>2. QED  BY <1>3, <2>1, PointTaken DEF r
<1> HIDE DEF h
<1>7. KeyOk(r, h)  BY <1>6 DEF KeyOk
<1>8. /\ OnKeys(key') /\ OnKeys(of')
      /\ \A j \in Keys : KeyOk(key'[j], of'[j])
  BY <1>1, <1>5, <1>7, OneKey
<1>9. QED  BY <1>1, <1>8 DEF IInv

(* Every reachable state keeps the layout of its keys and of what left them *)
(* last, and nothing has been refused.                                      *)
THEOREM MaterialInvariant == Spec => []IInv
<1>1. Init => IInv
  <2>1. SUFFICES ASSUME Init  PROVE IInv
    OBVIOUS
  <2>2. key = [k \in Keys |-> Unused] /\ of = [k \in Keys |-> {}] /\ ~refused
        /\ wire = NoWire
    BY <2>1 DEF Init
  <2>3. WireOk(wire)  BY <2>2 DEF WireOk, NoWire
  <2>4. KeyOk(Unused, {})  BY DEF KeyOk
  <2>5. QED  BY <2>2, <2>3, <2>4 DEF IInv, OnKeys
<1>2. IInv /\ [Next]_vars => IInv'
  <2>1. SUFFICES ASSUME IInv, [Next]_vars  PROVE IInv'
    OBVIOUS
  <2>2. CASE UNCHANGED vars
    BY <2>1, <2>2 DEF IInv, vars
  <2>3. ASSUME NEW k \in Keys, NEW ty \in Types, NEW id \in Ids, Gen(k, ty, id)  PROVE IInv'
    BY <2>1, <2>3, GenStep
  <2>4. ASSUME NEW k \in Keys, NEW ty \in Types, GenClassicalFails(k, ty)  PROVE IInv'
    BY <2>1, <2>4, GenFailsStep
  <2>5. ASSUME NEW k \in Keys, NEW parts \in SUBSET {"priv", "pub"}, Export(k, parts)
        PROVE  IInv'
    BY <2>1, <2>5, ExportStep DEF AllParts
  <2>6. ASSUME NEW k \in Keys, NEW parts \in SUBSET {"priv", "pub"}, Import(k, parts)
        PROVE  IInv'
    BY <2>1, <2>6, ImportStep DEF AllParts
  <2>7. ASSUME NEW k \in Keys, EncodeSpki(k)  PROVE IInv'  BY <2>1, <2>7, EncodeSpkiStep
  <2>8. ASSUME NEW k \in Keys, DecodeSpki(k)  PROVE IInv'  BY <2>1, <2>8, DecodeSpkiStep
  <2>9. ASSUME NEW k \in Keys, EncodePki(k)  PROVE IInv'  BY <2>1, <2>9, EncodePkiStep
  <2>10. ASSUME NEW k \in Keys, DecodePki(k)  PROVE IInv'  BY <2>1, <2>10, DecodePkiStep
  <2>11. ASSUME NEW k \in Keys, GetEncodedPub(k)  PROVE IInv'
    BY <2>1, <2>11, GetEncodedPubStep
  <2>12. ASSUME NEW k \in Keys, SetParams(k)  PROVE IInv'  BY <2>1, <2>12, SetParamsStep
  <2>13. ASSUME NEW k \in Keys, Free(k)  PROVE IInv'  BY <2>1, <2>13, FreeStep
  <2>14. QED
    BY <2>1, <2>2, <2>3, <2>4, <2>5, <2>6, <2>7, <2>8, <2>9, <2>10, <2>11, <2>12, <2>13
    DEF Next
<1>3. QED  BY <1>1, <1>2, PTL DEF Spec

-----------------------------------------------------------------------------
(* What follows from the invariant.                                         *)

(* Whatever a key gives out, the provider takes back (the length checks of  *)
(* oqsx_key_op and of the import).                                          *)
THEOREM NothingRefusedHolds == Spec => []NothingRefused
<1>1. IInv => NothingRefused  BY DEF IInv, NothingRefused
<1>2. QED  BY <1>1, MaterialInvariant, PTL

(* A key that took a peer's point (oqsx_set_params) holds that public key   *)
(* and no private key.                                                      *)
THEOREM PeerKeyIsPublicHolds == Spec => []PeerKeyIsPublic
<1>1. IInv => PeerKeyIsPublic
  <2>1. SUFFICES ASSUME IInv, NEW k \in Keys, key[k].st = "pubset"
                 PROVE  /\ key[k].priv = NoBuf
                        /\ \A h \in of[k] : key[k].pub = KeyGen(key[k].ty, h[2]).pub
    BY DEF PeerKeyIsPublic
  <2> DEFINE ky == key[k]
  <2>2. PeerKey(ky, of[k])
    <3>1. KeyOk(ky, of[k])  BY <2>1 DEF IInv
    <3>2. QED  BY <2>1, <3>1, PeerKeys
  <2> HIDE DEF ky
  <2>3. ASSUME NEW id \in Ids, of[k] = HalvesOf({"pub"}, id), ky.pub = PubLayout(ky.ty, id),
               NEW h \in of[k]
        PROVE  ky.pub = KeyGen(ky.ty, h[2]).pub
    <3>1. h = <<"pub", id>>  BY <2>3 DEF HalvesOf
    <3>2. KeyGen(ky.ty, id) = MadeKey(ky.ty, id, {"priv", "pub"})  BY KeyGenMakes
    <3>3. IsMade(KeyGen(ky.ty, id), ky.ty, id, {"priv", "pub"})  BY <3>2, MadeFields
    <3>4. KeyGen(ky.ty, id).pub = PubLayout(ky.ty, id)  BY <3>3 DEF IsMade
    <3>5. QED  BY <2>3, <3>1, <3>4
  <2>4. QED  BY <2>2, <2>3 DEF PeerKey, ky
<1>2. QED  BY <1>1, MaterialInvariant, PTL

LEMMA SameFields ==
  ASSUME NEW a, NEW b,
         a = [f \in {"ty", "st", "priv", "pub", "compPriv", "compPub", "pkey"} |-> a[f]],
         b = [f \in {"ty", "st", "priv", "pub", "compPriv", "compPub", "pkey"} |-> b[f]],
         a.ty = b.ty, a.st = b.st, a.priv = b.priv, a.pub = b.pub,
         a.compPriv = b.compPriv, a.compPub = b.compPub, a.pkey = b.pkey
  PROVE  a = b
<1>1. \A f \in {"ty", "st", "priv", "pub", "compPriv", "compPub", "pkey"} : a[f] = b[f]
  OBVIOUS
<1>2. QED  BY <1>1

LEMMA MadeMap ==
  ASSUME NEW ty, NEW id, NEW parts, NEW k, k = MadeKey(ty, id, parts)
  PROVE  k = [f \in {"ty", "st", "priv", "pub", "compPriv", "compPub", "pkey"} |-> k[f]]
BY DEF MadeKey

(* "Same end-state as after ken-gen" (oqsprov_keys.c:314): a key made of    *)
(* parameters or of a blob is the generated one, less what did not travel.  *)
THEOREM SameEndStateHolds == Spec => []SameEndState
<1>1. IInv => SameEndState
  <2>1. SUFFICES ASSUME IInv, NEW k \in Keys, key[k].st = "ready"
                 PROVE  \E id \in Ids :
                   LET gen == KeyGen(key[k].ty, id)
                       Keep(half, x, none) == IF <<half, id>> \in of[k] THEN x ELSE none
                       off == [cl |-> NULL, oqs |-> NULL]
                   IN  /\ of[k] # {} /\ of[k] \subseteq Both(id)
                       /\ key[k] = [gen EXCEPT !.priv = Keep("priv", @, NoBuf),
                                      !.compPriv = Keep("priv", @, off),
                                      !.pub = Keep("pub", @, NoBuf),
                                      !.compPub = Keep("pub", @, off),
                                      !.pkey = Keep("priv", @, @ \ {<<"cpriv", id>>})]
    BY DEF SameEndState
  <2> DEFINE ky == key[k]  h == of[k]
  <2>2. PICK id \in Ids, parts \in SomeParts :
               ky = MadeKey(ky.ty, id, parts) /\ h = HalvesOf(parts, id)
    <3>1. KeyOk(ky, h)  BY <2>1 DEF IInv
    <3>2. QED  BY <2>1, <3>1, ReadyKeys
  <2> DEFINE gen == KeyGen(ky.ty, id)  off == [cl |-> NULL, oqs |-> NULL]
             Keep(half, x, none) == IF <<half, id>> \in h THEN x ELSE none
             r == [gen EXCEPT !.priv = Keep("priv", @, NoBuf),
                              !.compPriv = Keep("priv", @, off),
                              !.pub = Keep("pub", @, NoBuf),
                              !.compPub = Keep("pub", @, off),
                              !.pkey = Keep("priv", @, @ \ {<<"cpriv", id>>})]
  <2>3. /\ h # {} /\ h \subseteq Both(id)
        /\ <<"priv", id>> \in h <=> "priv" \in parts
        /\ <<"pub", id>> \in h <=> "pub" \in parts
    BY <2>2, HalvesAre
  <2>4. gen = MadeKey(ky.ty, id, {"priv", "pub"})  BY KeyGenMakes
  <2>5. IsMade(gen, ky.ty, id, {"priv", "pub"})  BY <2>4, MadeFields
  <2>6. gen = [f \in {"ty", "st", "priv", "pub", "compPriv", "compPub", "pkey"} |-> gen[f]]
    BY <2>4, MadeMap
  <2>7. IsMade(ky, ky.ty, id, parts)  BY <2>2, MadeFields
  <2>8. ky = [f \in {"ty", "st", "priv", "pub", "compPriv", "compPub", "pkey"} |-> ky[f]]
    BY <2>2, MadeMap
  <2> HIDE DEF gen, ky, h
  <2>9. /\ r.ty = gen.ty /\ r.st = gen.st
        /\ r.priv = Keep("priv", gen.priv, NoBuf)
        /\ r.compPriv = Keep("priv", gen.compPriv, off)
        /\ r.pub = Keep("pub", gen.pub, NoBuf)
        /\ r.compPub = Keep("pub", gen.compPub, off)
        /\ r.pkey = Keep("priv", gen.pkey, gen.pkey \ {<<"cpriv", id>>})
        /\ r = [f \in {"ty", "st", "priv", "pub", "compPriv", "compPub", "pkey"} |-> r[f]]
    BY <2>6
  <2> HIDE DEF r
  <2>10. /\ ky.ty = r.ty /\ ky.st = r.st /\ ky.priv = r.priv /\ ky.pub = r.pub
         /\ ky.compPriv = r.compPriv /\ ky.compPub = r.compPub
    BY <2>3, <2>5, <2>7, <2>9 DEF IsMade, NoComps
  <2>11. ky.pkey = r.pkey
    <3>1. {<<"cpriv", id>>, <<"cpub", id>>} \ {<<"cpriv", id>>} = {<<"cpub", id>>}
      OBVIOUS
    <3>2. QED  BY <2>3, <2>5, <2>7, <2>9, <3>1 DEF IsMade
  <2>12. ky = r  BY <2>8, <2>9, <2>10, <2>11, SameFields
  <2>13. QED  BY <2>3, <2>12 DEF r, gen, ky, h
<1>2. QED  BY <1>1, MaterialInvariant, PTL

(* Bytes are read from an offset of a buffer.                               *)
ReadsFrom(buf, off, bytes) ==
  \A i \in DOMAIN bytes : off + i \in DOMAIN buf /\ buf[off + i] = bytes[i]

LEMMA PrivReads ==
  ASSUME NEW ty, NEW id \in Ids
  PROVE  /\ ReadsFrom(PrivLayout(ty, id), CompsOf(ty, ClassLen[id]).oqs, Part("qpriv", id))
         /\ Hybrid(ty) =>
              /\ ReadsFrom(PrivLayout(ty, id), CompsOf(ty, ClassLen[id]).cl, Part("cpriv", id))
              /\ DOMAIN Part("cpriv", id) = 0 .. DecodeUint32(PrivLayout(ty, id)) - 1
<1> DEFINE x == PrivLayout(ty, id)  S == SizeOfUint32  L == ClassLen[id]
           q == Part("qpriv", id)  c == Part("cpriv", id)  N == PrivKeyLen(ty)
<1>1. /\ q = [i \in 0 .. QPriv - 1 |-> <<"qpriv", id, i>>]
      /\ c = [i \in 0 .. L - 1 |-> <<"cpriv", id, i>>]
      /\ DOMAIN x = 0 .. N - 1
  BY Parts, LayoutDomains
<1>2. /\ S \in Nat /\ L \in Nat /\ CPriv \in Nat /\ QPriv \in Nat /\ L <= CPriv
  BY Sizes
<1>3. CASE Hybrid(ty)
  <2>1. N = S + CPriv + QPriv  BY <1>3 DEF PrivKeyLen
  <2>2. CompsOf(ty, L).oqs = S + L /\ CompsOf(ty, L).cl = S  BY <1>3 DEF CompsOf
  <2>3. DecodeUint32(x) = L  BY <1>3, DecodesHybrid
  <2>4. /\ \A i \in 0 .. L - 1 : x[S + i] = <<"cpriv", id, i>>
        /\ \A i \in 0 .. QPriv - 1 : x[(S + L) + i] = <<"qpriv", id, i>>
    BY <1>3, HybridCells
  <2> HIDE DEF x, S, L, q, c, N
  <2>5. \A i \in 0 .. QPriv - 1 : (S + L) + i \in 0 .. N - 1  BY <1>2, <2>1
  <2>6. \A i \in 0 .. L - 1 : S + i \in 0 .. N - 1  BY <1>2, <2>1
  <2>7. ReadsFrom(x, S + L, q)  BY <1>1, <2>4, <2>5 DEF ReadsFrom
  <2>8. ReadsFrom(x, S, c)  BY <1>1, <2>4, <2>6 DEF ReadsFrom
  <2>9. DOMAIN c = 0 .. L - 1  BY <1>1
  <2>10. QED  BY <2>2, <2>3, <2>7, <2>8, <2>9 DEF x, S, L, q, c
<1>4. CASE ~Hybrid(ty)
  <2>1. CompsOf(ty, L).oqs = 0  BY <1>4 DEF CompsOf
  <2>2. x = q  BY <1>4, PlainPieces
  <2>3. \A i \in 0 .. QPriv - 1 : 0 + i = i  OBVIOUS
  <2> HIDE DEF x, q
  <2>4. ReadsFrom(x, 0, q)  BY <1>1, <2>2, <2>3 DEF ReadsFrom
  <2>5. QED  BY <1>4, <2>1, <2>4 DEF x, q
<1>5. QED  BY <1>3, <1>4

LEMMA PubReads ==
  ASSUME NEW ty, NEW id \in Ids
  PROVE  /\ ReadsFrom(PubLayout(ty, id), CompsOf(ty, CPub).oqs, Part("qpub", id))
         /\ Hybrid(ty) =>
              /\ ReadsFrom(PubLayout(ty, id), CompsOf(ty, CPub).cl, Part("cpub", id))
              /\ DOMAIN Part("cpub", id) = 0 .. DecodeUint32(PubLayout(ty, id)) - 1
<1> DEFINE y == PubLayout(ty, id)  S == SizeOfUint32
           q == Part("qpub", id)  c == Part("cpub", id)  N == PubKeyLen(ty)
<1>1. /\ q = [i \in 0 .. QPub - 1 |-> <<"qpub", id, i>>]
      /\ c = [i \in 0 .. CPub - 1 |-> <<"cpub", id, i>>]
      /\ DOMAIN y = 0 .. N - 1
  BY Parts, LayoutDomains
<1>2. /\ S \in Nat /\ CPub \in Nat /\ QPub \in Nat
  BY Sizes
<1>3. CASE Hybrid(ty)
  <2>1. N = S + CPub + QPub  BY <1>3 DEF PubKeyLen
  <2>2. CompsOf(ty, CPub).oqs = S + CPub /\ CompsOf(ty, CPub).cl = S  BY <1>3 DEF CompsOf
  <2>3. DecodeUint32(y) = CPub  BY <1>3, DecodesHybrid
  <2>4. /\ \A i \in 0 .. CPub - 1 : y[S + i] = <<"cpub", id, i>>
        /\ \A i \in 0 .. QPub - 1 : y[(S + CPub) + i] = <<"qpub", id, i>>
    BY <1>3, HybridCells
  <2> HIDE DEF y, S, q, c, N
  <2>5. \A i \in 0 .. QPub - 1 : (S + CPub) + i \in 0 .. N - 1  BY <1>2, <2>1
  <2>6. \A i \in 0 .. CPub - 1 : S + i \in 0 .. N - 1  BY <1>2, <2>1
  <2>7. ReadsFrom(y, S + CPub, q)  BY <1>1, <2>4, <2>5 DEF ReadsFrom
  <2>8. ReadsFrom(y, S, c)  BY <1>1, <2>4, <2>6 DEF ReadsFrom
  <2>9. DOMAIN c = 0 .. CPub - 1  BY <1>1
  <2>10. QED  BY <2>2, <2>3, <2>7, <2>8, <2>9 DEF y, S, q, c
<1>4. CASE ~Hybrid(ty)
  <2>1. CompsOf(ty, CPub).oqs = 0  BY <1>4 DEF CompsOf
  <2>2. y = q  BY <1>4, PlainPieces
  <2>3. \A i \in 0 .. QPub - 1 : 0 + i = i  OBVIOUS
  <2> HIDE DEF y, q
  <2>4. ReadsFrom(y, 0, q)  BY <1>1, <2>2, <2>3 DEF ReadsFrom
  <2>5. QED  BY <1>4, <2>1, <2>4 DEF y, q
<1>5. QED  BY <1>3, <1>4

(* What a signature, a decapsulation or a verification reads through the    *)
(* comp pointers of a key is the key it stands for.                         *)
THEOREM PartsReadBackHolds == Spec => []PartsReadBack
<1>1. IInv => PartsReadBack
  <2>1. SUFFICES ASSUME IInv, NEW k \in Keys, key[k].st = "ready", NEW g \in of[k]
                 PROVE  LET ky == key[k]
                            id == g[2]
                            buf == IF g[1] = "priv" THEN ky.priv ELSE ky.pub
                            comp == IF g[1] = "priv" THEN ky.compPriv ELSE ky.compPub
                            classical == Part(IF g[1] = "priv" THEN "cpriv" ELSE "cpub", id)
                            oqs == Part(IF g[1] = "priv" THEN "qpriv" ELSE "qpub", id)
                            ReadsAs(off, bytes) ==
                              \A i \in DOMAIN bytes : off + i \in DOMAIN buf
                                                      /\ buf[off + i] = bytes[i]
                        IN  /\ ReadsAs(comp.oqs, oqs)
                            /\ Hybrid(ky.ty) => /\ ReadsAs(comp.cl, classical)
                                                /\ DOMAIN classical = 0 .. DecodeUint32(buf) - 1
                                                /\ ky.pkey # {}
                                                /\ \A c \in ky.pkey : c[2] = id
    BY DEF PartsReadBack
  <2> DEFINE ky == key[k]  h == of[k]  ty == ky.ty
  <2>2. PICK id \in Ids, parts \in SomeParts :
               ky = MadeKey(ky.ty, id, parts) /\ h = HalvesOf(parts, id)
    <3>1. KeyOk(ky, h)  BY <2>1 DEF IInv
    <3>2. QED  BY <2>1, <3>1, ReadyKeys
  <2>3. PICK p \in parts : g = <<p, id>>  BY <2>1, <2>2 DEF HalvesOf
  <2>4. (p = "priv" \/ p = "pub") /\ g[1] = p /\ g[2] = id
    BY <2>3 DEF SomeParts, AllParts
  <2>5. IsMade(ky, ty, id, parts)  BY <2>2, MadeFields
  <2> DEFINE buf == IF p = "priv" THEN ky.priv ELSE ky.pub
             comp == IF p = "priv" THEN ky.compPriv ELSE ky.compPub
             classical == Part(IF p = "priv" THEN "cpriv" ELSE "cpub", id)
             oqs == Part(IF p = "priv" THEN "qpriv" ELSE "qpub", id)
  <2> HIDE DEF ky, h, ty
  <2>6. Hybrid(ty) => ky.pkey # {} /\ \A c \in ky.pkey : c[2] = id
    <3>1. ASSUME Hybrid(ty)
          PROVE  ky.pkey = {<<"cpriv", id>>, <<"cpub", id>>} \/ ky.pkey = {<<"cpub", id>>}
      BY <2>5, <3>1 DEF IsMade
    <3> DEFINE a == <<"cpriv", id>>  b == <<"cpub", id>>  pk == ky.pkey
    <3>2. a[2] = id /\ b[2] = id  OBVIOUS
    <3>3. Hybrid(ty) => pk = {a, b} \/ pk = {b}  BY <3>1
    <3> HIDE DEF a, b, pk
    <3>4. Hybrid(ty) => pk # {} /\ \A c \in pk : c[2] = id  BY <3>2, <3>3
    <3>5. QED  BY <3>4 DEF pk
  <2>7. /\ ReadsFrom(buf, comp.oqs, oqs)
        /\ Hybrid(ty) => /\ ReadsFrom(buf, comp.cl, classical)
                         /\ DOMAIN classical = 0 .. DecodeUint32(buf) - 1
    <3>1. CASE p = "priv"
      <4>1. buf = PrivLayout(ty, id) /\ comp = CompsOf(ty, ClassLen[id])
        BY <2>3, <2>5, <3>1 DEF IsMade
      <4>2. classical = Part("cpriv", id) /\ oqs = Part("qpriv", id)  BY <3>1
      <4> HIDE DEF buf, comp, classical, oqs
      <4>3. QED  BY <4>1, <4>2, PrivReads
    <3>2. CASE p = "pub"
      <4>1. buf = PubLayout(ty, id) /\ comp = CompsOf(ty, CPub)
        BY <2>3, <2>5, <3>2 DEF IsMade
      <4>2. classical = Part("cpub", id) /\ oqs = Part("qpub", id)  BY <3>2
      <4> HIDE DEF buf, comp, classical, oqs
      <4>3. QED  BY <4>1, <4>2, PubReads
    <3>3. QED  BY <2>4, <3>1, <3>2
  <2>8. QED  BY <2>4, <2>6, <2>7 DEF ky, ty, ReadsFrom
<1>2. QED  BY <1>1, MaterialInvariant, PTL

(* No two pairs have a buffer in common.                                    *)
LEMMA LayoutTells ==
  ASSUME NEW ty, NEW a \in Ids, NEW b \in Ids
  PROVE  /\ PrivLayout(ty, a) = PrivLayout(ty, b) <=> a = b
         /\ PubLayout(ty, a) = PubLayout(ty, b) <=> a = b
<1>0. /\ 0 \in 0 .. ClassLen[a] - 1 /\ 0 \in 0 .. CPub - 1
      /\ 0 \in 0 .. ClassLen[b] - 1
      /\ 0 \in 0 .. QPriv - 1 /\ 0 \in 0 .. QPub - 1
  BY Sizes
<1>1. CASE Hybrid(ty)
  <2>1. /\ PrivLayout(ty, a)[SizeOfUint32 + 0] = <<"cpriv", a, 0>>
        /\ PubLayout(ty, a)[SizeOfUint32 + 0] = <<"cpub", a, 0>>
    BY <1>0, <1>1, HybridCells
  <2>2. /\ PrivLayout(ty, b)[SizeOfUint32 + 0] = <<"cpriv", b, 0>>
        /\ PubLayout(ty, b)[SizeOfUint32 + 0] = <<"cpub", b, 0>>
    BY <1>0, <1>1, HybridCells
  <2>3. QED  BY <2>1, <2>2
<1>2. CASE ~Hybrid(ty)
  <2>1. \A e : /\ Part("qpriv", e) = [i \in 0 .. QPriv - 1 |-> <<"qpriv", e, i>>]
               /\ Part("qpub", e) = [i \in 0 .. QPub - 1 |-> <<"qpub", e, i>>]
    BY Parts
  <2>2. \A e : Part("qpriv", e)[0] = <<"qpriv", e, 0>> /\ Part("qpub", e)[0] = <<"qpub", e, 0>>
    BY <1>0, <2>1
  <2>3. /\ PrivLayout(ty, a) = Part("qpriv", a) /\ PubLayout(ty, a) = Part("qpub", a)
        /\ PrivLayout(ty, b) = Part("qpriv", b) /\ PubLayout(ty, b) = Part("qpub", b)
    BY <1>2, PlainPieces
  <2>4. QED  BY <2>2, <2>3
<1>3. QED  BY <1>1, <1>2

(* EVP_PKEY_eq (oqsx_match) tells key pairs apart, in either build.         *)
THEOREM EqTellsPairsHolds == Spec => []EqTellsPairs
<1>1. IInv => EqTellsPairs
  <2>1. SUFFICES
          ASSUME IInv, NEW k \in Keys, NEW l \in Keys,
                 key[k].st = "ready", key[l].st = "ready", key[k].ty = key[l].ty,
                 \/ Has(key[k], {"pub"}) /\ Has(key[l], {"pub"})
                 \/ /\ ~NoPubInPriv /\ Has(key[k], {"priv"}) /\ Has(key[l], {"priv"})
                    /\ Has(key[k], {"pub"}) \/ Has(key[l], {"pub"})
          PROVE  PkeyEq(key[k], key[l]) <=> {h[2] : h \in of[k]} = {h[2] : h \in of[l]}
    BY DEF EqTellsPairs
  <2> DEFINE m == key[k]  n == key[l]  ty == m.ty
  <2>2. PICK a \in Ids, ps \in SomeParts : m = MadeKey(ty, a, ps) /\ of[k] = HalvesOf(ps, a)
    <3>1. KeyOk(m, of[k])  BY <2>1 DEF IInv
    <3>2. QED  BY <2>1, <3>1, ReadyKeys
  <2>3. PICK b \in Ids, qs \in SomeParts : n = MadeKey(ty, b, qs) /\ of[l] = HalvesOf(qs, b)
    <3>1. KeyOk(n, of[l])  BY <2>1 DEF IInv
    <3>2. QED  BY <2>1, <3>1, ReadyKeys
  <2>4. {h[2] : h \in of[k]} = {a} /\ {h[2] : h \in of[l]} = {b}
    <3>1. ASSUME NEW e, NEW rs \in SomeParts  PROVE {h[2] : h \in HalvesOf(rs, e)} = {e}
      <4>1. \A h \in HalvesOf(rs, e) : h[2] = e  BY DEF HalvesOf
      <4>2. HalvesOf(rs, e) # {}  BY HalvesAre
      <4>3. QED  BY <4>1, <4>2
    <3>2. QED  BY <2>2, <2>3, <3>1
  <2>5. IsMade(m, ty, a, ps) /\ IsMade(n, ty, b, qs)  BY <2>2, <2>3, MadeFields
  <2>6. /\ m.priv = IF "priv" \in ps THEN PrivLayout(ty, a) ELSE NoBuf
        /\ m.pub = IF "pub" \in ps THEN PubLayout(ty, a) ELSE NoBuf
        /\ n.priv = IF "priv" \in qs THEN PrivLayout(ty, b) ELSE NoBuf
        /\ n.pub = IF "pub" \in qs THEN PubLayout(ty, b) ELSE NoBuf
    BY <2>5 DEF IsMade
  <2>7. /\ PrivLayout(ty, a) # NoBuf /\ PubLayout(ty, a) # NoBuf
        /\ PrivLayout(ty, b) # NoBuf /\ PubLayout(ty, b) # NoBuf
        /\ PrivLayout(ty, a) = PrivLayout(ty, b) <=> a = b
        /\ PubLayout(ty, a) = PubLayout(ty, b) <=> a = b
    BY LayoutDomains, LayoutTells
  <2>8. \/ m.pub # NoBuf /\ n.pub # NoBuf
        \/ /\ ~NoPubInPriv /\ m.priv # NoBuf /\ n.priv # NoBuf
           /\ m.pub # NoBuf \/ n.pub # NoBuf
    BY <2>1 DEF Has
  <2> HIDE DEF m, n, ty
  <2>9. PkeyEq(m, n) <=> a = b
    <3>1. /\ Has(m, {"pub"}) <=> m.pub # NoBuf
          /\ Has(n, {"pub"}) <=> n.pub # NoBuf
      BY DEF Has
    <3>2. CASE m.pub # NoBuf /\ n.pub # NoBuf
      <4>1. PkeyEq(m, n) <=> Match(m, n, {"pub", "domain"})  BY <3>1, <3>2 DEF PkeyEq
      <4>2. Match(m, n, {"pub", "domain"}) <=> MatchPublic(m, n, {"pub", "domain"})
        BY DEF Match
      <4>3. MatchPublic(m, n, {"pub", "domain"}) <=> m.pub = n.pub
        BY <3>2 DEF MatchPublic
      <4>4. m.pub = n.pub <=> a = b  BY <2>6, <2>7, <3>2
      <4>5. QED  BY <4>1, <4>2, <4>3, <4>4
    <3>3. CASE ~(m.pub # NoBuf /\ n.pub # NoBuf)
      <4> DEFINE all == {"priv", "pub", "domain"}
      <4>1. PkeyEq(m, n) <=> Match(m, n, all)  BY <3>1, <3>3 DEF PkeyEq
      <4>2. ~NoPubInPriv  BY <2>8, <3>3
      <4>3. Match(m, n, all) <=> MatchPublic(m, n, all)  BY <4>2 DEF Match
      <4>4. (m.pub = NoBuf) # (n.pub = NoBuf)  BY <2>8, <3>3
      <4>5. MatchPublic(m, n, all) <=> m.priv # NoBuf /\ m.priv = n.priv
        BY <4>4 DEF MatchPublic
      <4>6. m.priv # NoBuf /\ n.priv # NoBuf  BY <2>8, <3>3
      <4>7. m.priv = n.priv <=> a = b  BY <2>6, <2>7, <4>6
      <4>8. QED  BY <4>1, <4>3, <4>5, <4>6, <4>7
    <3>4. QED  BY <3>2, <3>3
  <2>10. {a} = {b} <=> a = b  OBVIOUS
  <2>11. QED  BY <2>4, <2>9, <2>10 DEF m, n
<1>2. QED  BY <1>1, MaterialInvariant, PTL
=============================================================================
