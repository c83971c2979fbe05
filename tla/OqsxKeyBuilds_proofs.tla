------------------------ MODULE OqsxKeyBuilds_proofs ------------------------
(****************************************************************************)
(* Key material in both builds at once (MCOqsxKeyBuilds).  What             *)
(* OqsxKeyMaterial_proofs shows of one build it shows of the other: the     *)
(* module is instantiated for NOPUBKEY_IN_PRIVKEY, and a behaviour of both  *)
(* is a behaviour of one of the two.                                        *)
(****************************************************************************)
EXTENDS MCOqsxKeyBuilds, OqsxKeyMaterial_proofs

NP == INSTANCE OqsxKeyMaterial_proofs WITH NoPubInPriv <- TRUE

-----------------------------------------------------------------------------
(* NoPub, which the run uses, and NP, with the proofs, are the same.        *)

\* The assumptions of the instance.
LEMMA InstanceAssumptions ==
  /\ Types \subseteq NP!KeyTypes
  /\ {SizeOfUint32, CPriv, CPub, QPriv, QPub} \subseteq Nat \ {0}
  /\ ClassLen \in [Ids -> 1 .. CPriv]
BY SizesAssumption, TypesAssumption DEF KeyTypes, NP!KeyTypes

\* What the build makes no difference to.
LEMMA SameValues ==
  /\ NoPub!vars = vars /\ NP!vars = vars
  /\ NoPub!NoBuf = NoBuf /\ NP!NoBuf = NoBuf
  /\ NoPub!NULL = NULL /\ NP!NULL = NULL
  /\ NoPub!Unused = Unused /\ NP!Unused = Unused
  /\ NoPub!NoWire = NoWire /\ NP!NoWire = NoWire
BY DEF vars, NoPub!vars, NP!vars, NoBuf, NoPub!NoBuf, NP!NoBuf, NULL, NoPub!NULL, NP!NULL,
       NoWire, NoPub!NoWire, NP!NoWire, Unused, NoPub!Unused, NP!Unused, OqsxKeyNew,
       NoPub!OqsxKeyNew, NP!OqsxKeyNew, Uninit, NoPub!Uninit, NP!Uninit

LEMMA SameHalves ==
  /\ \A id : NoPub!Both(id) = Both(id) /\ NP!Both(id) = Both(id)
  /\ \A parts, halves : /\ NoPub!Halves(parts, halves) = Halves(parts, halves)
                        /\ NP!Halves(parts, halves) = Halves(parts, halves)
  /\ \A k : (NoPub!Usable(k) <=> Usable(k)) /\ (NP!Usable(k) <=> Usable(k))
  /\ \A ty : (NoPub!Hybrid(ty) <=> Hybrid(ty)) /\ (NP!Hybrid(ty) <=> Hybrid(ty))
BY DEF Both, NoPub!Both, NP!Both, Halves, NoPub!Halves, NP!Halves, Usable, NoPub!Usable,
       NP!Usable, Hybrid, NoPub!Hybrid, NP!Hybrid

LEMMA SameBuffers ==
  /\ \A n : NoPub!Zalloc(n) = Zalloc(n) /\ NP!Zalloc(n) = Zalloc(n)
  /\ \A dst, off, src : /\ NoPub!Memcpy(dst, off, src) = Memcpy(dst, off, src)
                        /\ NP!Memcpy(dst, off, src) = Memcpy(dst, off, src)
  /\ \A buf, off, n : /\ NoPub!Slice(buf, off, n) = Slice(buf, off, n)
                      /\ NP!Slice(buf, off, n) = Slice(buf, off, n)
  /\ \A buf : /\ NoPub!DecodeUint32(buf) = DecodeUint32(buf)
              /\ NP!DecodeUint32(buf) = DecodeUint32(buf)
  /\ \A p, id : NoPub!Part(p, id) = Part(p, id) /\ NP!Part(p, id) = Part(p, id)
BY DEF Zalloc, NoPub!Zalloc, NP!Zalloc, Memcpy, NoPub!Memcpy, NP!Memcpy, Slice,
       NoPub!Slice, NP!Slice, DecodeUint32, NoPub!DecodeUint32, NP!DecodeUint32, Part,
       NoPub!Part, NP!Part

LEMMA SameEncoded ==
  \A buf, n : /\ NoPub!EncodeUint32(buf, n) = EncodeUint32(buf, n)
              /\ NP!EncodeUint32(buf, n) = EncodeUint32(buf, n)
BY SameBuffers DEF EncodeUint32, NoPub!EncodeUint32, NP!EncodeUint32

LEMMA SameLengths ==
  \A ty : /\ NoPub!PrivKeyLen(ty) = PrivKeyLen(ty) /\ NP!PrivKeyLen(ty) = PrivKeyLen(ty)
          /\ NoPub!PubKeyLen(ty) = PubKeyLen(ty) /\ NP!PubKeyLen(ty) = PubKeyLen(ty)
BY SameHalves DEF PrivKeyLen, NoPub!PrivKeyLen, NP!PrivKeyLen, PubKeyLen,
                  NoPub!PubKeyLen, NP!PubKeyLen

LEMMA SameComposites ==
  \A ky : /\ NoPub!SetComposites(ky) = SetComposites(ky)
          /\ NP!SetComposites(ky) = SetComposites(ky)
<1>1. \A ty, buf : NoPub!Comps(ty, buf) = Comps(ty, buf) /\ NP!Comps(ty, buf) = Comps(ty, buf)
  BY SameValues, SameBuffers, SameHalves DEF Comps, NoPub!Comps, NP!Comps
<1>2. QED  BY <1>1 DEF SetComposites, NoPub!SetComposites, NP!SetComposites

LEMMA SameNew ==
  \A ty : /\ NoPub!OqsxKeyNew(ty) = OqsxKeyNew(ty) /\ NP!OqsxKeyNew(ty) = OqsxKeyNew(ty)
          /\ LET new == AllocateKeyMaterial(OqsxKeyNew(ty)) IN
             /\ NoPub!AllocateKeyMaterial(NoPub!OqsxKeyNew(ty)) = new
             /\ NP!AllocateKeyMaterial(NP!OqsxKeyNew(ty)) = new
BY SameBuffers, SameLengths
   DEF OqsxKeyNew, NoPub!OqsxKeyNew, NP!OqsxKeyNew, NoBuf, NoPub!NoBuf, NP!NoBuf, Uninit,
       NoPub!Uninit, NP!Uninit, AllocateKeyMaterial, NoPub!AllocateKeyMaterial,
       NP!AllocateKeyMaterial

LEMMA SameKeyGen ==
  \A ty, id : NoPub!KeyGen(ty, id) = KeyGen(ty, id) /\ NP!KeyGen(ty, id) = KeyGen(ty, id)
<1>1. \A ky, id : NoPub!GenEvpKey(ky, id) = GenEvpKey(ky, id)
                  /\ NP!GenEvpKey(ky, id) = GenEvpKey(ky, id)
  BY SameBuffers, SameEncoded DEF GenEvpKey, NoPub!GenEvpKey, NP!GenEvpKey
<1>2. \A ky, id : NoPub!GenOqs(ky, id) = GenOqs(ky, id) /\ NP!GenOqs(ky, id) = GenOqs(ky, id)
  BY SameBuffers DEF GenOqs, NoPub!GenOqs, NP!GenOqs
<1>3. QED
  BY <1>1, <1>2, SameHalves, SameNew, SameComposites DEF KeyGen, NoPub!KeyGen, NP!KeyGen

\* What it does make a difference to, or is made of such.
LEMMA SameKeyFromData ==
  \A ty, priv, pub : NoPub!KeyFromData(ty, priv, pub) = NP!KeyFromData(ty, priv, pub)
<1>1. \A p, bytes : NoPub!PairsOf(p, bytes) = NP!PairsOf(p, bytes)
  BY SameBuffers DEF NoPub!PairsOf, NP!PairsOf
<1>2. \A ky, op : NoPub!RecreateClassicKey(ky, op) = NP!RecreateClassicKey(ky, op)
  BY <1>1, SameBuffers, SameHalves DEF NoPub!RecreateClassicKey, NP!RecreateClassicKey
<1>3. QED
  BY <1>2, SameValues, SameNew, SameComposites DEF NoPub!KeyFromData, NP!KeyFromData

LEMMA SameKeyOps ==
  /\ \A ty, p : NoPub!KeyOpPublic(ty, p) = NP!KeyOpPublic(ty, p)
  /\ \A ty, p : NoPub!KeyOpPrivate(ty, p) = NP!KeyOpPrivate(ty, p)
BY SameValues, SameBuffers, SameEncoded, SameLengths, SameHalves, SameKeyFromData
   DEF NoPub!KeyOpPublic, NP!KeyOpPublic, NoPub!KeyOpPrivate, NP!KeyOpPrivate

LEMMA SameGivenAway ==
  /\ \A ky : NoPub!PkiPrivBytes(ky) = NP!PkiPrivBytes(ky)
  /\ \A ky : NoPub!PointBytes(ky) = NP!PointBytes(ky)
  /\ \A ky, p : NoPub!SetEncodedPub(ky, p) = NP!SetEncodedPub(ky, p)
BY SameValues, SameBuffers, SameLengths, SameHalves
   DEF NoPub!PkiPrivBytes, NP!PkiPrivBytes, NoPub!PointBytes, NP!PointBytes,
       NoPub!SetEncodedPub, NP!SetEncodedPub, NoPub!NULL, NP!NULL, NoPub!Heap, NP!Heap

LEMMA SameAccept ==
  \A k, keys, halves : NoPub!Accept(k, keys, halves) <=> NP!Accept(k, keys, halves)
BY DEF NoPub!Accept, NP!Accept

\* Action by action.
LEMMA SameNext == NoPub!Next => NP!Next
<1>1. \A k, ty, id : NoPub!Gen(k, ty, id) <=> NP!Gen(k, ty, id)
  BY SameKeyGen, SameHalves DEF NoPub!Gen, NP!Gen
<1>2. \A k, ty : NoPub!GenClassicalFails(k, ty) <=> NP!GenClassicalFails(k, ty)
  BY SameNew, SameHalves DEF NoPub!GenClassicalFails, NP!GenClassicalFails
<1>3. \A k, parts : NoPub!Export(k, parts) <=> NP!Export(k, parts)
  BY SameValues, SameHalves DEF NoPub!Export, NP!Export
<1>4. \A k, parts : NoPub!Import(k, parts) <=> NP!Import(k, parts)
  BY SameValues, SameHalves, SameKeyFromData, SameAccept DEF NoPub!Import, NP!Import
<1>5. \A k : NoPub!EncodeSpki(k) <=> NP!EncodeSpki(k)
  BY SameValues, SameHalves DEF NoPub!EncodeSpki, NP!EncodeSpki
<1>6. \A k : NoPub!DecodeSpki(k) <=> NP!DecodeSpki(k)
  BY SameKeyOps, SameAccept DEF NoPub!DecodeSpki, NP!DecodeSpki
<1>7. \A k : NoPub!EncodePki(k) <=> NP!EncodePki(k)
  BY SameValues, SameHalves, SameGivenAway DEF NoPub!EncodePki, NP!EncodePki
<1>8. \A k : NoPub!DecodePki(k) <=> NP!DecodePki(k)
  BY SameKeyOps, SameAccept DEF NoPub!DecodePki, NP!DecodePki
<1>9. \A k : NoPub!GetEncodedPub(k) <=> NP!GetEncodedPub(k)
  BY SameValues, SameHalves, SameGivenAway DEF NoPub!GetEncodedPub, NP!GetEncodedPub
<1>10. \A k : NoPub!SetParams(k) <=> NP!SetParams(k)
  BY SameValues, SameHalves, SameGivenAway DEF NoPub!SetParams, NP!SetParams
<1>11. \A k : NoPub!Free(k) <=> NP!Free(k)
  BY SameValues DEF NoPub!Free, NP!Free
<1>12. QED
  BY <1>1, <1>2, <1>3, <1>4, <1>5, <1>6, <1>7, <1>8, <1>9, <1>10, <1>11
  DEF NoPub!Next, NP!Next

-----------------------------------------------------------------------------
(* A behaviour of the run is one of a single build, the one chosen at its   *)
(* start: NOPUBKEY_IN_PRIVKEY is a macro.                                   *)
THEOREM OneBuild ==
  /\ MCSpec /\ nopub => []nopub /\ NoPub!Spec
  /\ MCSpec /\ ~nopub => []~nopub /\ Spec
<1>1. MCInit => Init /\ NoPub!Init
  BY DEF MCInit, Init, NoPub!Init, NoWire, NoPub!NoWire, Unused, NoPub!Unused,
         OqsxKeyNew, NoPub!OqsxKeyNew, NoBuf, NoPub!NoBuf, Uninit, NoPub!Uninit
<1>2. nopub /\ [MCNext]_<<vars, nopub>> => nopub' /\ [NoPub!Next]_NoPub!vars
  BY DEF MCNext, vars, NoPub!vars
<1>3. ~nopub /\ [MCNext]_<<vars, nopub>> => ~nopub' /\ [Next]_vars
  BY DEF MCNext
<1>4. QED  BY <1>1, <1>2, <1>3, PTL DEF MCSpec, Spec, NoPub!Spec

\* What is proved of one build holds of the other.
LEMMA NoPubSpec == NoPub!Spec => NP!Spec
<1>1. NoPub!Init => NP!Init
  BY SameValues DEF NoPub!Init, NP!Init
<1>2. [NoPub!Next]_NoPub!vars => [NP!Next]_NP!vars
  BY SameNext DEF NoPub!vars, NP!vars
<1>3. QED  BY <1>1, <1>2, PTL DEF NoPub!Spec, NP!Spec

(* EVP_PKEY_eq (oqsx_match) tells key pairs apart in the build at hand, as  *)
(* far as that build compares keys.                                         *)
THEOREM EqTellsPairsInBuildHolds == MCSpec => []EqTellsPairsInBuild
<1>1. Spec => []EqTellsPairs  BY EqTellsPairsHolds
<1>2. NP!Spec => []NP!EqTellsPairs  BY InstanceAssumptions, NP!EqTellsPairsHolds
<1>3. NP!EqTellsPairs => NoPub!EqTellsPairs
  <2>1. \A ky, half : NoPub!Has(ky, half) <=> NP!Has(ky, half)
    BY SameValues DEF NoPub!Has, NP!Has
  <2>2. \A m, n, sel : NoPub!Match(m, n, sel) <=> NP!Match(m, n, sel)
    BY SameValues DEF NoPub!Match, NP!Match, NoPub!MatchPublic, NP!MatchPublic
  <2>3. \A m, n : NoPub!PkeyEq(m, n) <=> NP!PkeyEq(m, n)
    BY <2>1, <2>2 DEF NoPub!PkeyEq, NP!PkeyEq
  <2>4. QED  BY <2>1, <2>3 DEF NoPub!EqTellsPairs, NP!EqTellsPairs
<1>4. nopub /\ NoPub!EqTellsPairs => EqTellsPairsInBuild  BY DEF EqTellsPairsInBuild
<1>5. ~nopub /\ EqTellsPairs => EqTellsPairsInBuild  BY DEF EqTellsPairsInBuild
<1>6. QED  BY <1>1, <1>2, <1>3, <1>4, <1>5, OneBuild, NoPubSpec, PTL

(* The other properties do not look at the build: they hold in both.        *)
THEOREM MaterialInBuild ==
  MCSpec => [](PartsReadBack /\ SameEndState /\ NothingRefused /\ PeerKeyIsPublic)
<1>1. NP!PartsReadBack => PartsReadBack
  BY SameBuffers, SameHalves DEF PartsReadBack, NP!PartsReadBack
<1>2. NP!SameEndState => SameEndState
  <2> DEFINE AsGenerated(k, id, gen, none, off) ==
               LET Keep(half, x, y) == IF <<half, id>> \in of[k] THEN x ELSE y
               IN  key[k] = [gen EXCEPT !.priv = Keep("priv", @, none),
                                        !.compPriv = Keep("priv", @, off),
                                        !.pub = Keep("pub", @, none),
                                        !.compPub = Keep("pub", @, off),
                                        !.pkey = Keep("priv", @, @ \ {<<"cpriv", id>>})]
  <2> SUFFICES ASSUME NP!SameEndState, NEW k \in Keys, key[k].st = "ready"
               PROVE  \E id \in Ids :
                        /\ of[k] # {} /\ of[k] \subseteq Both(id)
                        /\ AsGenerated(k, id, KeyGen(key[k].ty, id), NoBuf,
                                       [cl |-> NULL, oqs |-> NULL])
    BY DEF SameEndState
  <2>1. PICK id \in Ids :
          /\ of[k] # {} /\ of[k] \subseteq NP!Both(id)
          /\ AsGenerated(k, id, NP!KeyGen(key[k].ty, id), NP!NoBuf,
                         [cl |-> NP!NULL, oqs |-> NP!NULL])
    BY DEF NP!SameEndState
  <2> HIDE DEF AsGenerated
  <2>2. /\ NP!KeyGen(key[k].ty, id) = KeyGen(key[k].ty, id)
        /\ NP!NoBuf = NoBuf /\ NP!NULL = NULL /\ NP!Both(id) = Both(id)
    BY SameKeyGen, SameValues, SameHalves
  <2>3. QED  BY <2>1, <2>2
<1>3. NP!NothingRefused => NothingRefused
  BY DEF NothingRefused, NP!NothingRefused
<1>4. NP!PeerKeyIsPublic => PeerKeyIsPublic
  BY SameValues, SameKeyGen DEF PeerKeyIsPublic, NP!PeerKeyIsPublic
<1>5. NP!Spec => [](/\ NP!PartsReadBack /\ NP!SameEndState
                    /\ NP!NothingRefused /\ NP!PeerKeyIsPublic)
  <2>1. NP!Spec => []NP!PartsReadBack  BY InstanceAssumptions, NP!PartsReadBackHolds
  <2>2. NP!Spec => []NP!SameEndState  BY InstanceAssumptions, NP!SameEndStateHolds
  <2>3. NP!Spec => []NP!NothingRefused  BY InstanceAssumptions, NP!NothingRefusedHolds
  <2>4. NP!Spec => []NP!PeerKeyIsPublic  BY InstanceAssumptions, NP!PeerKeyIsPublicHolds
  <2>5. QED  BY <2>1, <2>2, <2>3, <2>4, PTL
<1>6. QED
  BY <1>1, <1>2, <1>3, <1>4, <1>5, OneBuild, NoPubSpec, PartsReadBackHolds,
     SameEndStateHolds, NothingRefusedHolds, PeerKeyIsPublicHolds, PTL
=============================================================================
