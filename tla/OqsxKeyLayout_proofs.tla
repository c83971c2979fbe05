------------------------ MODULE OqsxKeyLayout_proofs ------------------------
(****************************************************************************)
(* What the functions of OqsxKeyLayout make of the buffers of a key: the    *)
(* layout of a generated key cell by cell, what is read back of it through  *)
(* the length field, and that parameters and blobs lead back to it.  These  *)
(* lemmas are about every size and every length of a classical key.         *)
(****************************************************************************)
EXTENDS OqsxKeyLayout, TLAPS

(* The two buffers of a generated key, cell by cell.                        *)
PrivCell(id, i) ==
  IF i < SizeOfUint32 THEN <<"len", ClassLen[id], i>>
  ELSE IF i < SizeOfUint32 + ClassLen[id] THEN <<"cpriv", id, i - SizeOfUint32>>
  ELSE IF i < SizeOfUint32 + ClassLen[id] + QPriv
       THEN <<"qpriv", id, i - (SizeOfUint32 + ClassLen[id])>>
  ELSE <<"zero">>

PubCell(id, i) ==
  IF i < SizeOfUint32 THEN <<"len", CPub, i>>
  ELSE IF i < SizeOfUint32 + CPub THEN <<"cpub", id, i - SizeOfUint32>>
  ELSE <<"qpub", id, i - (SizeOfUint32 + CPub)>>

PrivLayout(ty, id) ==
  IF Hybrid(ty) THEN [i \in 0 .. PrivKeyLen(ty) - 1 |-> PrivCell(id, i)]
  ELSE Part("qpriv", id)

PubLayout(ty, id) ==
  IF Hybrid(ty) THEN [i \in 0 .. PubKeyLen(ty) - 1 |-> PubCell(id, i)]
  ELSE Part("qpub", id)

LEMMA Sizes ==
  /\ SizeOfUint32 \in Nat /\ SizeOfUint32 > 0
  /\ CPriv \in Nat /\ CPriv > 0
  /\ CPub \in Nat /\ CPub > 0
  /\ QPriv \in Nat /\ QPriv > 0
  /\ QPub \in Nat /\ QPub > 0
  /\ \A id \in Ids : ClassLen[id] \in Nat /\ ClassLen[id] > 0 /\ ClassLen[id] <= CPriv
BY SizesAssumption

LEMMA Parts ==
  ASSUME NEW id
  PROVE  /\ Part("cpriv", id) = [i \in 0 .. ClassLen[id] - 1 |-> <<"cpriv", id, i>>]
         /\ Part("cpub", id) = [i \in 0 .. CPub - 1 |-> <<"cpub", id, i>>]
         /\ Part("qpriv", id) = [i \in 0 .. QPriv - 1 |-> <<"qpriv", id, i>>]
         /\ Part("qpub", id) = [i \in 0 .. QPub - 1 |-> <<"qpub", id, i>>]
BY DEF Part

LEMMA LayoutDomains ==
  ASSUME NEW ty, NEW id \in Ids
  PROVE  /\ DOMAIN PrivLayout(ty, id) = 0 .. PrivKeyLen(ty) - 1
         /\ DOMAIN PubLayout(ty, id) = 0 .. PubKeyLen(ty) - 1
         /\ PrivKeyLen(ty) \in Nat \ {0} /\ PubKeyLen(ty) \in Nat \ {0}
         /\ PrivLayout(ty, id) # NoBuf /\ PubLayout(ty, id) # NoBuf
<1>1. /\ DOMAIN PrivLayout(ty, id) = 0 .. PrivKeyLen(ty) - 1
      /\ DOMAIN PubLayout(ty, id) = 0 .. PubKeyLen(ty) - 1
  <2>1. CASE Hybrid(ty)  BY <2>1 DEF PrivLayout, PubLayout
  <2>2. CASE ~Hybrid(ty)  BY <2>2, Parts DEF PrivLayout, PubLayout, PrivKeyLen, PubKeyLen
  <2>3. QED  BY <2>1, <2>2
<1>2. PrivKeyLen(ty) \in Nat \ {0} /\ PubKeyLen(ty) \in Nat \ {0}
  BY Sizes DEF PrivKeyLen, PubKeyLen
<1>3. 0 \in 0 .. PrivKeyLen(ty) - 1 /\ 0 \in 0 .. PubKeyLen(ty) - 1
  BY <1>2
<1>4. DOMAIN NoBuf = {}  BY DEF NoBuf
<1>5. QED  BY <1>1, <1>2, <1>3, <1>4

(* The cells of a hybrid key by their sections.                             *)
LEMMA HybridCells ==
  ASSUME NEW ty, Hybrid(ty), NEW id \in Ids
  PROVE  /\ \A i \in 0 .. SizeOfUint32 - 1 :
              /\ PrivLayout(ty, id)[i] = <<"len", ClassLen[id], i>>
              /\ PubLayout(ty, id)[i] = <<"len", CPub, i>>
         /\ \A i \in 0 .. ClassLen[id] - 1 :
              PrivLayout(ty, id)[SizeOfUint32 + i] = <<"cpriv", id, i>>
         /\ \A i \in 0 .. QPriv - 1 :
              PrivLayout(ty, id)[SizeOfUint32 + ClassLen[id] + i] = <<"qpriv", id, i>>
         /\ \A i \in 0 .. CPub - 1 :
              PubLayout(ty, id)[SizeOfUint32 + i] = <<"cpub", id, i>>
         /\ \A i \in 0 .. QPub - 1 :
              PubLayout(ty, id)[SizeOfUint32 + CPub + i] = <<"qpub", id, i>>
<1>1. /\ \A i \in 0 .. PrivKeyLen(ty) - 1 : PrivLayout(ty, id)[i] = PrivCell(id, i)
      /\ \A i \in 0 .. PubKeyLen(ty) - 1 : PubLayout(ty, id)[i] = PubCell(id, i)
  BY DEF PrivLayout, PubLayout
<1>2. /\ PrivKeyLen(ty) = SizeOfUint32 + CPriv + QPriv
      /\ PubKeyLen(ty) = SizeOfUint32 + CPub + QPub
  BY DEF PrivKeyLen, PubKeyLen
<1> DEFINE S == SizeOfUint32  L == ClassLen[id]
<1>3. /\ S \in Nat \ {0} /\ CPriv \in Nat \ {0} /\ QPriv \in Nat \ {0}
      /\ CPub \in Nat \ {0} /\ QPub \in Nat \ {0}
      /\ L \in Nat \ {0} /\ L <= CPriv
  BY Sizes
<1>4. ASSUME NEW i \in 0 .. S - 1
      PROVE  /\ PrivLayout(ty, id)[i] = <<"len", L, i>>
             /\ PubLayout(ty, id)[i] = <<"len", CPub, i>>
  <2>1. i \in 0 .. PrivKeyLen(ty) - 1 /\ i \in 0 .. PubKeyLen(ty) - 1 /\ i < S
    BY <1>2, <1>3
  <2>2. QED  BY <2>1, <1>1 DEF PrivCell, PubCell
<1>5. ASSUME NEW i \in 0 .. L - 1
      PROVE  PrivLayout(ty, id)[S + i] = <<"cpriv", id, i>>
  <2>1. /\ S + i \in 0 .. PrivKeyLen(ty) - 1 /\ ~(S + i < S) /\ S + i < S + L
        /\ (S + i) - S = i
    BY <1>2, <1>3
  <2>2. QED  BY <2>1, <1>1 DEF PrivCell
<1>6. ASSUME NEW i \in 0 .. QPriv - 1
      PROVE  PrivLayout(ty, id)[S + L + i] = <<"qpriv", id, i>>
  <2>1. /\ S + L + i \in 0 .. PrivKeyLen(ty) - 1
        /\ ~(S + L + i < S) /\ ~(S + L + i < S + L) /\ S + L + i < S + L + QPriv
        /\ (S + L + i) - (S + L) = i
    BY <1>2, <1>3
  <2>2. QED  BY <2>1, <1>1 DEF PrivCell
<1>7. ASSUME NEW i \in 0 .. CPub - 1
      PROVE  PubLayout(ty, id)[S + i] = <<"cpub", id, i>>
  <2>1. /\ S + i \in 0 .. PubKeyLen(ty) - 1 /\ ~(S + i < S) /\ S + i < S + CPub
        /\ (S + i) - S = i
    BY <1>2, <1>3
  <2>2. QED  BY <2>1, <1>1 DEF PubCell
<1>8. ASSUME NEW i \in 0 .. QPub - 1
      PROVE  PubLayout(ty, id)[S + CPub + i] = <<"qpub", id, i>>
  <2>1. /\ S + CPub + i \in 0 .. PubKeyLen(ty) - 1
        /\ ~(S + CPub + i < S) /\ ~(S + CPub + i < S + CPub)
        /\ (S + CPub + i) - (S + CPub) = i
    BY <1>2, <1>3
  <2>2. QED  BY <2>1, <1>1 DEF PubCell
<1>9. QED  BY <1>4, <1>5, <1>6, <1>7, <1>8

LEMMA DecodesHybrid ==
  ASSUME NEW ty, Hybrid(ty), NEW id \in Ids
  PROVE  /\ DecodeUint32(PrivLayout(ty, id)) = ClassLen[id]
         /\ DecodeUint32(PubLayout(ty, id)) = CPub
<1>1. 0 \in 0 .. SizeOfUint32 - 1  BY Sizes
<1>2. /\ PrivLayout(ty, id)[0] = <<"len", ClassLen[id], 0>>
      /\ PubLayout(ty, id)[0] = <<"len", CPub, 0>>
  BY <1>1, HybridCells
<1>3. QED  BY <1>2 DEF DecodeUint32

(* What the pieces of a buffer are, read back.                              *)
LEMMA HybridPieces ==
  ASSUME NEW ty, Hybrid(ty), NEW id \in Ids
  PROVE  /\ Slice(PrivLayout(ty, id), SizeOfUint32, ClassLen[id]) = Part("cpriv", id)
         /\ Slice(PrivLayout(ty, id), SizeOfUint32 + ClassLen[id], QPriv) = Part("qpriv", id)
         /\ Slice(PubLayout(ty, id), SizeOfUint32, CPub) = Part("cpub", id)
         /\ Slice(PubLayout(ty, id), SizeOfUint32 + CPub, QPub) = Part("qpub", id)
<1> DEFINE x == PrivLayout(ty, id)  y == PubLayout(ty, id)
           S == SizeOfUint32  L == ClassLen[id]
<1>1. /\ \A i \in 0 .. L - 1 : x[S + i] = <<"cpriv", id, i>>
      /\ \A i \in 0 .. QPriv - 1 : x[(S + L) + i] = <<"qpriv", id, i>>
      /\ \A i \in 0 .. CPub - 1 : y[S + i] = <<"cpub", id, i>>
      /\ \A i \in 0 .. QPub - 1 : y[(S + CPub) + i] = <<"qpub", id, i>>
  BY HybridCells
<1> HIDE DEF x, y, S, L
<1>2. Slice(x, S, L) = [i \in 0 .. L - 1 |-> <<"cpriv", id, i>>]  BY <1>1 DEF Slice
<1>3. Slice(x, S + L, QPriv) = [i \in 0 .. QPriv - 1 |-> <<"qpriv", id, i>>]
  BY <1>1 DEF Slice
<1>4. Slice(y, S, CPub) = [i \in 0 .. CPub - 1 |-> <<"cpub", id, i>>]  BY <1>1 DEF Slice
<1>5. Slice(y, S + CPub, QPub) = [i \in 0 .. QPub - 1 |-> <<"qpub", id, i>>]
  BY <1>1 DEF Slice
<1>6. QED  BY <1>2, <1>3, <1>4, <1>5, Parts DEF x, y, S, L

LEMMA PlainPieces ==
  ASSUME NEW ty, ~Hybrid(ty), NEW id \in Ids
  PROVE  /\ PrivLayout(ty, id) = Part("qpriv", id) /\ PubLayout(ty, id) = Part("qpub", id)
         /\ Slice(PrivLayout(ty, id), 0, QPriv) = Part("qpriv", id)
         /\ Slice(PubLayout(ty, id), 0, QPub) = Part("qpub", id)
<1>1. PrivLayout(ty, id) = Part("qpriv", id) /\ PubLayout(ty, id) = Part("qpub", id)
  BY DEF PrivLayout, PubLayout
<1> DEFINE x == [i \in 0 .. QPriv - 1 |-> <<"qpriv", id, i>>]
           y == [i \in 0 .. QPub - 1 |-> <<"qpub", id, i>>]
<1>2. \A i \in 0 .. QPriv - 1 : 0 + i \in 0 .. QPriv - 1 /\ x[0 + i] = x[i]  BY Sizes
<1>3. \A i \in 0 .. QPub - 1 : 0 + i \in 0 .. QPub - 1 /\ y[0 + i] = y[i]  BY Sizes
<1>4. Slice(x, 0, QPriv) = x  BY <1>2 DEF Slice
<1>5. Slice(y, 0, QPub) = y  BY <1>3 DEF Slice
<1>6. x = Part("qpriv", id) /\ y = Part("qpub", id)  BY Parts
<1>7. QED  BY <1>1, <1>4, <1>5, <1>6

(* Bytes of one pair are bytes of no other.                                 *)
LEMMA OnePair ==
  ASSUME NEW id \in Ids, NEW p \in {"cpriv", "cpub", "qpriv", "qpub"}
  PROVE  /\ PairsOf(p, Part(p, id)) = {id}
         /\ Owner(p, Part(p, id)) = id
<1>0. ASSUME NEW e \in Ids  PROVE Part(p, e)[0] = <<p, e, 0>>
  <2>1. /\ 0 \in 0 .. ClassLen[e] - 1 /\ 0 \in 0 .. CPub - 1
        /\ 0 \in 0 .. QPriv - 1 /\ 0 \in 0 .. QPub - 1
    BY Sizes
  <2>2. CASE p = "cpriv"  BY <2>1, <2>2 DEF Part
  <2>3. CASE p = "cpub"  BY <2>1, <2>3 DEF Part
  <2>4. CASE p = "qpriv"  BY <2>1, <2>4 DEF Part
  <2>5. CASE p = "qpub"  BY <2>1, <2>5 DEF Part
  <2>6. QED  BY <2>2, <2>3, <2>4, <2>5
<1>1. ASSUME NEW e \in Ids, Part(p, id) = Part(p, e) PROVE e = id
  <2>1. <<p, id, 0>> = <<p, e, 0>>  BY <1>0, <1>1
  <2>2. QED  BY <2>1
<1>2. PairsOf(p, Part(p, id)) = {id}  BY <1>1 DEF PairsOf
<1>3. Owner(p, Part(p, id)) = CHOOSE e \in Ids : Part(p, id) = Part(p, e)
  BY <1>2 DEF Owner
<1>4. QED  BY <1>1, <1>2, <1>3

-----------------------------------------------------------------------------
(* Copying.                                                                 *)

LEMMA MemcpyNothing ==
  ASSUME NEW off, NEW src
  PROVE  Memcpy(NoBuf, off, src) = NoBuf
BY DEF Memcpy, NoBuf

(* A hybrid private key buffer as generation and the decoder fill it.       *)
LEMMA PrivBuilt ==
  ASSUME NEW ty, Hybrid(ty), NEW id \in Ids, NEW b,
         b = EncodeUint32(Memcpy(Zalloc(PrivKeyLen(ty)), SizeOfUint32, Part("cpriv", id)),
                          ClassLen[id])
  PROVE  /\ DecodeUint32(b) = ClassLen[id] /\ b # NoBuf
         /\ Memcpy(b, SizeOfUint32 + ClassLen[id], Part("qpriv", id)) = PrivLayout(ty, id)
<1> DEFINE N == PrivKeyLen(ty)  S == SizeOfUint32  L == ClassLen[id]
           c == Memcpy(Zalloc(N), S, Part("cpriv", id))
           len == [i \in 0 .. S - 1 |-> <<"len", L, i>>]
<1>1. /\ S \in Nat \ {0} /\ L \in Nat \ {0} /\ L <= CPriv /\ CPriv \in Nat /\ QPriv \in Nat \ {0}
      /\ N = S + CPriv + QPriv
  BY Sizes DEF PrivKeyLen
<1>2. /\ Part("cpriv", id) = [i \in 0 .. L - 1 |-> <<"cpriv", id, i>>]
      /\ Part("qpriv", id) = [i \in 0 .. QPriv - 1 |-> <<"qpriv", id, i>>]
  BY Parts
<1>3. b = Memcpy(c, 0, len)  BY DEF EncodeUint32
<1> HIDE DEF N, S, L
<1>4. /\ DOMAIN c = 0 .. N - 1
      /\ \A i \in 0 .. N - 1 :
           c[i] = IF i - S \in 0 .. L - 1 THEN <<"cpriv", id, i - S>> ELSE <<"zero">>
  BY <1>2 DEF Memcpy, Zalloc
<1> HIDE DEF c
<1>5. /\ b = [i \in 0 .. N - 1 |-> IF i - 0 \in DOMAIN len THEN len[i - 0] ELSE c[i]]
      /\ DOMAIN len = 0 .. S - 1
  BY <1>3, <1>4 DEF Memcpy
<1>6. /\ DOMAIN b = 0 .. N - 1
      /\ \A i \in 0 .. N - 1 :
           b[i] = IF i < S THEN <<"len", L, i>>
                  ELSE IF i < S + L THEN <<"cpriv", id, i - S>> ELSE <<"zero">>
  <2>1. ASSUME NEW i \in 0 .. N - 1
        PROVE  b[i] = IF i < S THEN <<"len", L, i>>
                      ELSE IF i < S + L THEN <<"cpriv", id, i - S>> ELSE <<"zero">>
    <3>1. i - 0 = i /\ (i \in 0 .. S - 1 <=> i < S)  BY <1>1
    <3>2. b[i] = IF i < S THEN <<"len", L, i>> ELSE c[i]  BY <1>5, <3>1
    <3>3. i >= S => (i - S \in 0 .. L - 1 <=> i < S + L)  BY <1>1
    <3>4. c[i] = IF i - S \in 0 .. L - 1 THEN <<"cpriv", id, i - S>> ELSE <<"zero">>
      BY <1>4
    <3>5. i \in Int /\ (i >= S \/ i < S)  BY <1>1
    <3>6. CASE i < S  BY <3>2, <3>6
    <3>7. CASE i >= S
      <4>1. ~(i < S)  BY <1>1, <3>5, <3>7
      <4>2. QED  BY <3>2, <3>3, <3>4, <3>7, <4>1
    <3>8. QED  BY <3>5, <3>6, <3>7
  <2>2. QED  BY <1>5, <2>1
<1> DEFINE r == Memcpy(b, S + L, Part("qpriv", id))
<1>7. r = [i \in 0 .. N - 1 |-> IF i - (S + L) \in 0 .. QPriv - 1
                                 THEN <<"qpriv", id, i - (S + L)>> ELSE b[i]]
  BY <1>2, <1>6 DEF Memcpy
<1>8. ASSUME NEW i \in 0 .. N - 1  PROVE r[i] = PrivCell(id, i)
  <2>1. i - (S + L) \in 0 .. QPriv - 1 <=> (i >= S + L /\ i < S + L + QPriv)  BY <1>1
  <2>2. r[i] = IF i >= S + L /\ i < S + L + QPriv
               THEN <<"qpriv", id, i - (S + L)>> ELSE b[i]
    BY <1>7, <2>1
  <2> HIDE DEF r
  <2>3. QED  BY <1>1, <1>6, <2>2 DEF PrivCell, S, L
<1>9. r = PrivLayout(ty, id)
  <2>1. PrivLayout(ty, id) = [i \in 0 .. N - 1 |-> PrivCell(id, i)]  BY DEF PrivLayout, N
  <2>2. DOMAIN r = 0 .. N - 1 /\ r = [i \in 0 .. N - 1 |-> r[i]]  BY <1>7
  <2> HIDE DEF r
  <2>3. QED  BY <1>8, <2>1, <2>2
<1>10. DecodeUint32(b) = L
  <2>1. 0 \in 0 .. N - 1 /\ 0 < S  BY <1>1
  <2>2. b[0] = <<"len", L, 0>>  BY <1>6, <2>1
  <2>3. QED  BY <2>2 DEF DecodeUint32
<1>11. b # NoBuf
  <2>1. 0 \in DOMAIN b  BY <1>1, <1>6
  <2>2. QED  BY <2>1 DEF NoBuf
<1>12. QED  BY <1>9, <1>10, <1>11 DEF S, L

(* A hybrid public key buffer as generation fills it.                       *)
LEMMA PubBuilt ==
  ASSUME NEW ty, Hybrid(ty), NEW id \in Ids, NEW b,
         b = EncodeUint32(Memcpy(Zalloc(PubKeyLen(ty)), SizeOfUint32, Part("cpub", id)), CPub)
  PROVE  /\ DecodeUint32(b) = CPub /\ b # NoBuf
         /\ Memcpy(b, SizeOfUint32 + CPub, Part("qpub", id)) = PubLayout(ty, id)
<1> DEFINE N == PubKeyLen(ty)  S == SizeOfUint32
           c == Memcpy(Zalloc(N), S, Part("cpub", id))
           len == [i \in 0 .. S - 1 |-> <<"len", CPub, i>>]
<1>1. /\ S \in Nat \ {0} /\ CPub \in Nat \ {0} /\ QPub \in Nat \ {0}
      /\ N = S + CPub + QPub
  BY Sizes DEF PubKeyLen
<1>2. /\ Part("cpub", id) = [i \in 0 .. CPub - 1 |-> <<"cpub", id, i>>]
      /\ Part("qpub", id) = [i \in 0 .. QPub - 1 |-> <<"qpub", id, i>>]
  BY Parts
<1>3. b = Memcpy(c, 0, len)  BY DEF EncodeUint32
<1> HIDE DEF N, S
<1>4. /\ DOMAIN c = 0 .. N - 1
      /\ \A i \in 0 .. N - 1 :
           c[i] = IF i - S \in 0 .. CPub - 1 THEN <<"cpub", id, i - S>> ELSE <<"zero">>
  BY <1>2 DEF Memcpy, Zalloc
<1> HIDE DEF c
<1>5. /\ b = [i \in 0 .. N - 1 |-> IF i - 0 \in DOMAIN len THEN len[i - 0] ELSE c[i]]
      /\ DOMAIN len = 0 .. S - 1
  BY <1>3, <1>4 DEF Memcpy
<1>6. /\ DOMAIN b = 0 .. N - 1
      /\ \A i \in 0 .. N - 1 : i < S + CPub => b[i] = PubCell(id, i)
  <2>1. ASSUME NEW i \in 0 .. N - 1, i < S + CPub  PROVE b[i] = PubCell(id, i)
    <3>1. i - 0 = i /\ (i \in 0 .. S - 1 <=> i < S)  BY <1>1
    <3>2. b[i] = IF i < S THEN <<"len", CPub, i>> ELSE c[i]  BY <1>5, <3>1
    <3>3. CASE i < S  BY <3>2, <3>3 DEF PubCell, S
    <3>4. CASE ~(i < S)
      <4>1. i - S \in 0 .. CPub - 1  BY <1>1, <2>1, <3>4
      <4>2. b[i] = <<"cpub", id, i - S>>  BY <1>4, <3>2, <3>4, <4>1
      <4>3. QED  BY <2>1, <3>4, <4>2 DEF PubCell, S
    <3>5. QED  BY <3>3, <3>4
  <2>2. QED  BY <1>5, <2>1
<1> DEFINE r == Memcpy(b, S + CPub, Part("qpub", id))
<1>7. r = [i \in 0 .. N - 1 |-> IF i - (S + CPub) \in 0 .. QPub - 1
                                 THEN <<"qpub", id, i - (S + CPub)>> ELSE b[i]]
  BY <1>2, <1>6 DEF Memcpy
<1>8. ASSUME NEW i \in 0 .. N - 1  PROVE r[i] = PubCell(id, i)
  <2>1. i - (S + CPub) \in 0 .. QPub - 1 <=> ~(i < S + CPub)  BY <1>1
  <2>2. r[i] = IF i < S + CPub THEN b[i] ELSE <<"qpub", id, i - (S + CPub)>>
    BY <1>7, <2>1
  <2> HIDE DEF r
  <2>3. i < S => i < S + CPub  BY <1>1
  <2>4. QED  BY <1>6, <2>2, <2>3 DEF PubCell, S
<1>9. r = PubLayout(ty, id)
  <2>1. PubLayout(ty, id) = [i \in 0 .. N - 1 |-> PubCell(id, i)]  BY DEF PubLayout, N
  <2>2. DOMAIN r = 0 .. N - 1 /\ r = [i \in 0 .. N - 1 |-> r[i]]  BY <1>7
  <2> HIDE DEF r
  <2>3. QED  BY <1>8, <2>1, <2>2
<1>10. DecodeUint32(b) = CPub
  <2>1. 0 \in 0 .. N - 1 /\ 0 < S /\ 0 < S + CPub  BY <1>1
  <2>2. b[0] = <<"len", CPub, 0>>  BY <1>6, <2>1 DEF PubCell, S
  <2>3. QED  BY <2>2 DEF DecodeUint32
<1>11. b # NoBuf
  <2>1. 0 \in DOMAIN b  BY <1>1, <1>6
  <2>2. QED  BY <2>1 DEF NoBuf
<1>12. QED  BY <1>9, <1>10, <1>11 DEF S

LEMMA PlainBuilt ==
  ASSUME NEW ty, ~Hybrid(ty), NEW id \in Ids
  PROVE  /\ Memcpy(Zalloc(PrivKeyLen(ty)), 0, Part("qpriv", id)) = PrivLayout(ty, id)
         /\ Memcpy(Zalloc(PubKeyLen(ty)), 0, Part("qpub", id)) = PubLayout(ty, id)
<1>1. ASSUME NEW n \in Nat, NEW src, DOMAIN src = 0 .. n - 1, src = [i \in 0 .. n - 1 |-> src[i]]
      PROVE  Memcpy(Zalloc(n), 0, src) = src
  <2>1. Memcpy(Zalloc(n), 0, src) =
          [i \in 0 .. n - 1 |-> IF i - 0 \in DOMAIN src THEN src[i - 0] ELSE Zalloc(n)[i]]
    BY DEF Memcpy, Zalloc
  <2>2. \A i \in 0 .. n - 1 : i - 0 = i  BY <1>1
  <2>3. QED  BY <1>1, <2>1, <2>2
<1>2. PrivKeyLen(ty) = QPriv /\ PubKeyLen(ty) = QPub /\ QPriv \in Nat /\ QPub \in Nat
  BY Sizes DEF PrivKeyLen, PubKeyLen
<1>3. /\ Part("qpriv", id) = [i \in 0 .. QPriv - 1 |-> <<"qpriv", id, i>>]
      /\ Part("qpub", id) = [i \in 0 .. QPub - 1 |-> <<"qpub", id, i>>]
  BY Parts
<1>4. Memcpy(Zalloc(QPriv), 0, Part("qpriv", id)) = Part("qpriv", id)
  BY <1>1, <1>2, <1>3
<1>5. Memcpy(Zalloc(QPub), 0, Part("qpub", id)) = Part("qpub", id)
  BY <1>1, <1>2, <1>3
<1>6. QED  BY <1>2, <1>4, <1>5 DEF PrivLayout, PubLayout

-----------------------------------------------------------------------------
(* Keys.  One that holds the given parts of a pair, as generation makes it. *)
CompsOf(ty, n) ==
  IF Hybrid(ty) THEN [cl |-> SizeOfUint32, oqs |-> SizeOfUint32 + n] ELSE [cl |-> NULL, oqs |-> 0]

NoComps == [cl |-> NULL, oqs |-> NULL]

MadeKey(ty, id, parts) ==
  [ty |-> ty, st |-> "ready",
   priv |-> IF "priv" \in parts THEN PrivLayout(ty, id) ELSE NoBuf,
   pub |-> IF "pub" \in parts THEN PubLayout(ty, id) ELSE NoBuf,
   compPriv |-> IF "priv" \in parts THEN CompsOf(ty, ClassLen[id]) ELSE NoComps,
   compPub |-> IF "pub" \in parts THEN CompsOf(ty, CPub) ELSE NoComps,
   pkey |-> IF ~Hybrid(ty) THEN {}
            ELSE IF "priv" \in parts THEN {<<"cpriv", id>>, <<"cpub", id>>} ELSE {<<"cpub", id>>}]

(* A key by its fields, and what the steps of building one make of it.      *)
RawKey(ty, st, x, y, cx, cy, pk) ==
  [ty |-> ty, st |-> st, priv |-> x, pub |-> y, compPriv |-> cx, compPub |-> cy, pkey |-> pk]

LEMMA RawFields ==
  ASSUME NEW ty, NEW st, NEW x, NEW y, NEW cx, NEW cy, NEW pk, NEW k,
         k = RawKey(ty, st, x, y, cx, cy, pk)
  PROVE  /\ k.ty = ty /\ k.st = st /\ k.priv = x /\ k.pub = y
         /\ k.compPriv = cx /\ k.compPub = cy /\ k.pkey = pk
BY DEF RawKey

LEMMA RawSt ==
  ASSUME NEW ty, NEW st, NEW x, NEW y, NEW cx, NEW cy, NEW pk, NEW v
  PROVE  [RawKey(ty, st, x, y, cx, cy, pk) EXCEPT !.st = v] = RawKey(ty, v, x, y, cx, cy, pk)
BY DEF RawKey

LEMMA RawPriv ==
  ASSUME NEW ty, NEW st, NEW x, NEW y, NEW cx, NEW cy, NEW pk, NEW v
  PROVE  [RawKey(ty, st, x, y, cx, cy, pk) EXCEPT !.priv = v] = RawKey(ty, st, v, y, cx, cy, pk)
BY DEF RawKey

LEMMA RawPub ==
  ASSUME NEW ty, NEW st, NEW x, NEW y, NEW cx, NEW cy, NEW pk, NEW v
  PROVE  [RawKey(ty, st, x, y, cx, cy, pk) EXCEPT !.pub = v] = RawKey(ty, st, x, v, cx, cy, pk)
BY DEF RawKey

LEMMA RawCompPriv ==
  ASSUME NEW ty, NEW st, NEW x, NEW y, NEW cx, NEW cy, NEW pk, NEW v
  PROVE  [RawKey(ty, st, x, y, cx, cy, pk) EXCEPT !.compPriv = v] = RawKey(ty, st, x, y, v, cy, pk)
BY DEF RawKey

LEMMA RawCompPub ==
  ASSUME NEW ty, NEW st, NEW x, NEW y, NEW cx, NEW cy, NEW pk, NEW v
  PROVE  [RawKey(ty, st, x, y, cx, cy, pk) EXCEPT !.compPub = v] = RawKey(ty, st, x, y, cx, v, pk)
BY DEF RawKey

LEMMA RawPkey ==
  ASSUME NEW ty, NEW st, NEW x, NEW y, NEW cx, NEW cy, NEW pk, NEW v
  PROVE  [RawKey(ty, st, x, y, cx, cy, pk) EXCEPT !.pkey = v] = RawKey(ty, st, x, y, cx, cy, v)
BY DEF RawKey

(* Fields assigned together are assigned one after the other.               *)
LEMMA OneByOne ==
  ASSUME NEW k, NEW a, NEW b, NEW c
  PROVE  /\ [k EXCEPT !.priv = a, !.pub = b] = [[k EXCEPT !.priv = a] EXCEPT !.pub = b]
         /\ [k EXCEPT !.pub = a, !.priv = b] = [[k EXCEPT !.pub = a] EXCEPT !.priv = b]
         /\ [k EXCEPT !.pkey = a, !.pub = b] = [[k EXCEPT !.pkey = a] EXCEPT !.pub = b]
         /\ [k EXCEPT !.compPriv = a, !.compPub = b] =
              [[k EXCEPT !.compPriv = a] EXCEPT !.compPub = b]
         /\ [k EXCEPT !.pub = a, !.priv = b, !.pkey = c] =
              [[[k EXCEPT !.pub = a] EXCEPT !.priv = b] EXCEPT !.pkey = c]
OBVIOUS

LEMMA RawComps ==
  ASSUME NEW ty, NEW st, NEW x, NEW y, NEW cx, NEW cy, NEW pk
  PROVE  SetComposites(RawKey(ty, st, x, y, cx, cy, pk)) =
           RawKey(ty, st, x, y, Comps(ty, x), Comps(ty, y), pk)
<1> DEFINE k == RawKey(ty, st, x, y, cx, cy, pk)
<1>1. k.ty = ty /\ k.priv = x /\ k.pub = y  BY DEF RawKey
<1>2. ASSUME NEW a, NEW b
      PROVE  [RawKey(ty, st, x, y, cx, cy, pk) EXCEPT !.compPriv = a, !.compPub = b] =
               RawKey(ty, st, x, y, a, b, pk)
  <2>1. [RawKey(ty, st, x, y, cx, cy, pk) EXCEPT !.compPriv = a] = RawKey(ty, st, x, y, a, cy, pk)
    BY RawCompPriv
  <2>2. [RawKey(ty, st, x, y, a, cy, pk) EXCEPT !.compPub = b] = RawKey(ty, st, x, y, a, b, pk)
    BY RawCompPub
  <2>3. QED  BY <2>1, <2>2, OneByOne
<1>3. SetComposites(k) = [k EXCEPT !.compPriv = Comps(ty, x), !.compPub = Comps(ty, y)]
  BY <1>1 DEF SetComposites
<1>4. QED  BY <1>2, <1>3

LEMMA RawGenOqs ==
  ASSUME NEW ty, NEW st, NEW x, NEW y, NEW cx, NEW cy, NEW pk, NEW id
  PROVE  GenOqs(RawKey(ty, st, x, y, cx, cy, pk), id) =
           RawKey(ty, st, Memcpy(x, cx.oqs, Part("qpriv", id)),
                  Memcpy(y, cy.oqs, Part("qpub", id)), cx, cy, pk)
<1> DEFINE k == RawKey(ty, st, x, y, cx, cy, pk)
<1>1. k.compPriv = cx /\ k.compPub = cy /\ k.priv = x /\ k.pub = y  BY DEF RawKey
<1>2. ASSUME NEW a, NEW b
      PROVE  [RawKey(ty, st, x, y, cx, cy, pk) EXCEPT !.pub = b, !.priv = a] =
               RawKey(ty, st, a, b, cx, cy, pk)
  <2>1. [RawKey(ty, st, x, y, cx, cy, pk) EXCEPT !.pub = b] = RawKey(ty, st, x, b, cx, cy, pk)
    BY RawPub
  <2>2. [RawKey(ty, st, x, b, cx, cy, pk) EXCEPT !.priv = a] = RawKey(ty, st, a, b, cx, cy, pk)
    BY RawPriv
  <2>3. QED  BY <2>1, <2>2, OneByOne
<1> HIDE DEF k
<1>3. GenOqs(k, id) = [k EXCEPT !.pub = Memcpy(y, cy.oqs, Part("qpub", id)),
                                !.priv = Memcpy(x, cx.oqs, Part("qpriv", id))]
  BY <1>1 DEF GenOqs
<1>4. QED  BY <1>2, <1>3 DEF k

LEMMA RawGenEvp ==
  ASSUME NEW ty, NEW st, NEW x, NEW y, NEW cx, NEW cy, NEW pk, NEW id
  PROVE  GenEvpKey(RawKey(ty, st, x, y, cx, cy, pk), id) =
           RawKey(ty, st,
                  EncodeUint32(Memcpy(x, SizeOfUint32, Part("cpriv", id)), ClassLen[id]),
                  EncodeUint32(Memcpy(y, SizeOfUint32, Part("cpub", id)), CPub),
                  cx, cy, {<<"cpriv", id>>, <<"cpub", id>>})
<1> DEFINE k == RawKey(ty, st, x, y, cx, cy, pk)
<1>1. k.priv = x /\ k.pub = y  BY DEF RawKey
<1>2. ASSUME NEW a, NEW b, NEW c
      PROVE  [RawKey(ty, st, x, y, cx, cy, pk) EXCEPT !.pub = b, !.priv = a, !.pkey = c] =
               RawKey(ty, st, a, b, cx, cy, c)
  <2>1. [RawKey(ty, st, x, y, cx, cy, pk) EXCEPT !.pub = b] = RawKey(ty, st, x, b, cx, cy, pk)
    BY RawPub
  <2>2. [RawKey(ty, st, x, b, cx, cy, pk) EXCEPT !.priv = a] = RawKey(ty, st, a, b, cx, cy, pk)
    BY RawPriv
  <2>3. [RawKey(ty, st, a, b, cx, cy, pk) EXCEPT !.pkey = c] = RawKey(ty, st, a, b, cx, cy, c)
    BY RawPkey
  <2>4. QED  BY <2>1, <2>2, <2>3, OneByOne
<1> HIDE DEF k
<1>3. GenEvpKey(k, id) =
        [k EXCEPT !.pub = EncodeUint32(Memcpy(y, SizeOfUint32, Part("cpub", id)), CPub),
                  !.priv = EncodeUint32(Memcpy(x, SizeOfUint32, Part("cpriv", id)), ClassLen[id]),
                  !.pkey = {<<"cpriv", id>>, <<"cpub", id>>}]
  BY <1>1 DEF GenEvpKey
<1>4. QED  BY <1>2, <1>3 DEF k

UnsetComps == [cl |-> Uninit, oqs |-> Uninit]

LEMMA RawNew ==
  ASSUME NEW ty
  PROVE  OqsxKeyNew(ty) = RawKey(ty, "new", NoBuf, NoBuf, UnsetComps, UnsetComps, {})
BY DEF OqsxKeyNew, RawKey, UnsetComps

LEMMA RawFromData ==
  ASSUME NEW ty, NEW x, NEW y
  PROVE  [OqsxKeyNew(ty) EXCEPT !.priv = x, !.pub = y] =
           RawKey(ty, "new", x, y, UnsetComps, UnsetComps, {})
<1> DEFINE new == "new"  none == {}  u == UnsetComps  n == NoBuf  k == OqsxKeyNew(ty)
<1>1. k = RawKey(ty, new, n, n, u, u, none)  BY RawNew
<1>2. SUFFICES [k EXCEPT !.priv = x, !.pub = y] = RawKey(ty, new, x, y, u, u, none)
  OBVIOUS
<1> HIDE DEF new, none, u, n, k
<1>3. [k EXCEPT !.priv = x] = RawKey(ty, new, x, n, u, u, none)  BY <1>1, RawPriv
<1>4. [RawKey(ty, new, x, n, u, u, none) EXCEPT !.pub = y] = RawKey(ty, new, x, y, u, u, none)
  BY RawPub
<1>5. QED  BY <1>3, <1>4, OneByOne

(* What oqsx_key_fromdata has before it makes the classical key.            *)
Loaded(ty, x, y) == SetComposites([OqsxKeyNew(ty) EXCEPT !.priv = x, !.pub = y])

LEMMA FromLoaded ==
  ASSUME NEW ty, NEW x, NEW y
  PROVE  KeyFromData(ty, x, y) =
           {[r EXCEPT !.st = "ready"] :
              r \in RecreateClassicKey(Loaded(ty, x, y),
                                       IF x # NoBuf THEN "private" ELSE "public")}
BY DEF KeyFromData, Loaded

LEMMA RawLoaded ==
  ASSUME NEW ty, NEW x, NEW y
  PROVE  Loaded(ty, x, y) = RawKey(ty, "new", x, y, Comps(ty, x), Comps(ty, y), {})
<1> DEFINE new == "new"  none == {}  u == UnsetComps
<1>1. [OqsxKeyNew(ty) EXCEPT !.priv = x, !.pub = y] = RawKey(ty, new, x, y, u, u, none)
  BY RawFromData
<1> HIDE DEF new, none, u
<1>2. SetComposites(RawKey(ty, new, x, y, u, u, none)) =
        RawKey(ty, new, x, y, Comps(ty, x), Comps(ty, y), none)
  BY RawComps
<1>3. QED  BY <1>1, <1>2 DEF new, none, Loaded

LEMMA RawAllocated ==
  ASSUME NEW ty
  PROVE  AllocateKeyMaterial(OqsxKeyNew(ty)) =
           RawKey(ty, "new", Zalloc(PrivKeyLen(ty)), Zalloc(PubKeyLen(ty)),
                  UnsetComps, UnsetComps, {})
<1>1. OqsxKeyNew(ty).ty = ty  BY DEF OqsxKeyNew
<1>2. QED  BY <1>1, RawFromData DEF AllocateKeyMaterial

LEMMA MadeRaw ==
  ASSUME NEW ty, NEW id, NEW parts
  PROVE  MadeKey(ty, id, parts) =
           RawKey(ty, "ready",
                  IF "priv" \in parts THEN PrivLayout(ty, id) ELSE NoBuf,
                  IF "pub" \in parts THEN PubLayout(ty, id) ELSE NoBuf,
                  IF "priv" \in parts THEN CompsOf(ty, ClassLen[id]) ELSE NoComps,
                  IF "pub" \in parts THEN CompsOf(ty, CPub) ELSE NoComps,
                  IF ~Hybrid(ty) THEN {}
                  ELSE IF "priv" \in parts THEN {<<"cpriv", id>>, <<"cpub", id>>}
                  ELSE {<<"cpub", id>>})
BY DEF MadeKey, RawKey

LEMMA KeyGenMakes ==
  ASSUME NEW ty, NEW id \in Ids
  PROVE  KeyGen(ty, id) = MadeKey(ty, id, {"priv", "pub"})
<1> DEFINE pk == IF ~Hybrid(ty) THEN {} ELSE {<<"cpriv", id>>, <<"cpub", id>>}
           u == UnsetComps
<1>0. MadeKey(ty, id, {"priv", "pub"}) =
        RawKey(ty, "ready", PrivLayout(ty, id), PubLayout(ty, id),
               CompsOf(ty, ClassLen[id]), CompsOf(ty, CPub), pk)
  BY MadeRaw
<1> DEFINE x == Zalloc(PrivKeyLen(ty))  y == Zalloc(PubKeyLen(ty))
<1>1. AllocateKeyMaterial(OqsxKeyNew(ty)) = RawKey(ty, "new", x, y, u, u, {})
  BY RawAllocated
<1> HIDE DEF u, pk
<1>2. CASE Hybrid(ty)
  <2> DEFINE a == EncodeUint32(Memcpy(x, SizeOfUint32, Part("cpriv", id)), ClassLen[id])
             b == EncodeUint32(Memcpy(y, SizeOfUint32, Part("cpub", id)), CPub)
  <2>1. pk = {<<"cpriv", id>>, <<"cpub", id>>}  BY <1>2 DEF pk
  <2>2. GenEvpKey(RawKey(ty, "new", x, y, u, u, {}), id) = RawKey(ty, "new", a, b, u, u, pk)
    BY <2>1, RawGenEvp
  <2>3. /\ DecodeUint32(a) = ClassLen[id] /\ a # NoBuf
        /\ Memcpy(a, SizeOfUint32 + ClassLen[id], Part("qpriv", id)) = PrivLayout(ty, id)
    BY <1>2, PrivBuilt
  <2>4. /\ DecodeUint32(b) = CPub /\ b # NoBuf
        /\ Memcpy(b, SizeOfUint32 + CPub, Part("qpub", id)) = PubLayout(ty, id)
    BY <1>2, PubBuilt
  <2> HIDE DEF a, b, x, y
  <2> DEFINE c == CompsOf(ty, ClassLen[id])  d == CompsOf(ty, CPub)
  <2>5. c.oqs = SizeOfUint32 + ClassLen[id] /\ d.oqs = SizeOfUint32 + CPub
    BY <1>2 DEF CompsOf
  <2>6. Comps(ty, a) = c /\ Comps(ty, b) = d
    BY <1>2, <2>3, <2>4, <2>5 DEF Comps, CompsOf
  <2> HIDE DEF c, d
  <2>7. SetComposites(RawKey(ty, "new", a, b, u, u, pk)) = RawKey(ty, "new", a, b, c, d, pk)
    BY <2>6, RawComps
  <2>8. GenOqs(RawKey(ty, "new", a, b, c, d, pk), id) =
          RawKey(ty, "new", PrivLayout(ty, id), PubLayout(ty, id), c, d, pk)
    BY <2>3, <2>4, <2>5, RawGenOqs
  <2>9. KeyGen(ty, id) =
          [RawKey(ty, "new", PrivLayout(ty, id), PubLayout(ty, id), c, d, pk) EXCEPT !.st = "ready"]
    BY <1>1, <1>2, <2>2, <2>7, <2>8, Zenon DEF KeyGen
  <2>10. QED  BY <1>0, <2>9, RawSt DEF c, d
<1>3. CASE ~Hybrid(ty)
  <2>1. /\ Memcpy(x, 0, Part("qpriv", id)) = PrivLayout(ty, id)
        /\ Memcpy(y, 0, Part("qpub", id)) = PubLayout(ty, id)
    BY <1>3, PlainBuilt
  <2>2. x # NoBuf /\ y # NoBuf
    <3>1. PrivKeyLen(ty) \in Nat \ {0} /\ PubKeyLen(ty) \in Nat \ {0}  BY LayoutDomains
    <3>2. 0 \in DOMAIN x /\ 0 \in DOMAIN y  BY <3>1 DEF Zalloc
    <3>3. QED  BY <3>2 DEF NoBuf
  <2> HIDE DEF x, y
  <2> DEFINE c == [cl |-> NULL, oqs |-> 0]
  <2>3. c = CompsOf(ty, ClassLen[id]) /\ c = CompsOf(ty, CPub) /\ c.oqs = 0
    BY <1>3 DEF CompsOf
  <2>4. Comps(ty, x) = c /\ Comps(ty, y) = c  BY <1>3, <2>2, <2>3 DEF Comps
  <2> HIDE DEF c
  <2>5. SetComposites(RawKey(ty, "new", x, y, u, u, {})) = RawKey(ty, "new", x, y, c, c, {})
    BY <2>4, RawComps
  <2>6. GenOqs(RawKey(ty, "new", x, y, c, c, {}), id) =
          RawKey(ty, "new", PrivLayout(ty, id), PubLayout(ty, id), c, c, {})
    BY <2>1, <2>3, RawGenOqs
  <2>7. KeyGen(ty, id) =
          [RawKey(ty, "new", PrivLayout(ty, id), PubLayout(ty, id), c, c, {}) EXCEPT !.st = "ready"]
    BY <1>1, <1>3, <2>5, <2>6, Zenon DEF KeyGen
  <2>8. QED  BY <1>0, <1>3, <2>3, <2>7, RawSt DEF pk
<1>4. QED  BY <1>2, <1>3

-----------------------------------------------------------------------------
(* Keys made of material: oqsx_key_fromdata.                                *)

LEMMA CompsOfLayout ==
  ASSUME NEW ty, NEW id \in Ids
  PROVE  /\ Comps(ty, PrivLayout(ty, id)) = CompsOf(ty, ClassLen[id])
         /\ Comps(ty, PubLayout(ty, id)) = CompsOf(ty, CPub)
         /\ Comps(ty, NoBuf) = NoComps
<1>1. PrivLayout(ty, id) # NoBuf /\ PubLayout(ty, id) # NoBuf  BY LayoutDomains
<1>2. CASE Hybrid(ty)  BY <1>1, <1>2, DecodesHybrid DEF Comps, CompsOf, NoComps
<1>3. CASE ~Hybrid(ty)  BY <1>1, <1>3 DEF Comps, CompsOf, NoComps
<1>4. QED  BY <1>2, <1>3

(* Writing over a public key's classical half what is already there.        *)
LEMMA PubRewritten ==
  ASSUME NEW ty, Hybrid(ty), NEW id \in Ids
  PROVE  Memcpy(PubLayout(ty, id), SizeOfUint32, Part("cpub", id)) = PubLayout(ty, id)
<1> DEFINE y == PubLayout(ty, id)  S == SizeOfUint32  N == PubKeyLen(ty)
           r == Memcpy(y, S, Part("cpub", id))
<1>1. /\ S \in Nat \ {0} /\ CPub \in Nat \ {0} /\ QPub \in Nat \ {0}
      /\ N = S + CPub + QPub
  BY Sizes DEF PubKeyLen
<1>2. Part("cpub", id) = [i \in 0 .. CPub - 1 |-> <<"cpub", id, i>>]  BY Parts
<1>3. y = [i \in 0 .. N - 1 |-> PubCell(id, i)]  BY DEF PubLayout
<1>4. r = [i \in 0 .. N - 1 |-> IF i - S \in 0 .. CPub - 1
                                 THEN <<"cpub", id, i - S>> ELSE PubCell(id, i)]
  BY <1>2, <1>3 DEF Memcpy
<1> HIDE DEF N, S, r, y
<1>5. ASSUME NEW i \in 0 .. N - 1, i - S \in 0 .. CPub - 1
      PROVE  PubCell(id, i) = <<"cpub", id, i - S>>
  <2>1. ~(i < S) /\ i < S + CPub  BY <1>1, <1>5
  <2>2. QED  BY <2>1 DEF PubCell, S
<1>6. r = y  BY <1>3, <1>4, <1>5
<1>7. QED  BY <1>6 DEF r, y, S

(* A public key buffer y after the classical public key was computed from   *)
(* the private one and written behind its pointer.                          *)
Rewritten(y, cy, id) == IF NoPubInPriv THEN y ELSE Memcpy(y, cy.cl, Part("cpub", id))

(* A hybrid key made of a private key and the public key buffer y.          *)
LEMMA HybridFromPrivate ==
  ASSUME NEW ty, Hybrid(ty), NEW id \in Ids, NEW y
  PROVE  KeyFromData(ty, PrivLayout(ty, id), y) =
           {RawKey(ty, "ready", PrivLayout(ty, id), Rewritten(y, Comps(ty, y), id),
                   CompsOf(ty, ClassLen[id]), Comps(ty, y),
                   {<<"cpriv", id>>, <<"cpub", id>>})}
<1> DEFINE x == PrivLayout(ty, id)  cx == CompsOf(ty, ClassLen[id])
           cy == Comps(ty, y)  z == Rewritten(y, cy, id)
           pk == {<<"cpriv", id>>, <<"cpub", id>>}  none == {}  new == "new"
           k == RawKey(ty, new, x, y, cx, cy, none)
           n == RawKey(ty, new, x, z, cx, cy, pk)
<1>0. x # NoBuf  BY LayoutDomains
<1>1. Comps(ty, x) = cx /\ cx.cl = SizeOfUint32  BY CompsOfLayout DEF CompsOf
<1>2. Slice(x, SizeOfUint32, DecodeUint32(x)) = Part("cpriv", id)
  BY DecodesHybrid, HybridPieces
<1>3. PairsOf("cpriv", Part("cpriv", id)) = {id}  BY OnePair
<1>4. Loaded(ty, x, y) = k  BY <1>1, RawLoaded
<1>13. z = IF NoPubInPriv THEN y ELSE Memcpy(y, cy.cl, Part("cpub", id))  BY DEF Rewritten
<1> HIDE DEF x, cx, pk, none, new, cy, z
<1>5. /\ k.ty = ty /\ k.priv = x /\ k.pub = y
      /\ k.compPriv = cx /\ k.compPub = cy
  BY DEF RawKey
<1>6. [k EXCEPT !.pkey = pk, !.pub = z] = n
  <2>1. [k EXCEPT !.pkey = pk] = RawKey(ty, new, x, y, cx, cy, pk)  BY RawPkey
  <2>2. [RawKey(ty, new, x, y, cx, cy, pk) EXCEPT !.pub = z] = n  BY RawPub
  <2> HIDE DEF k, n
  <2>3. QED  BY <2>1, <2>2, OneByOne
<1> HIDE DEF k, n
<1>7. PairsOf("cpriv", Slice(k.priv, k.compPriv.cl, DecodeUint32(k.priv))) = {id}
  BY <1>1, <1>2, <1>3, <1>5
<1>8. RecreateClassicKey(k, "private") =
        {[k EXCEPT !.pkey = {<<"cpriv", e>>, <<"cpub", e>>},
                   !.pub = IF NoPubInPriv THEN @ ELSE Memcpy(@, k.compPub.cl, Part("cpub", e))] :
           e \in {id}}
  BY <1>5, <1>7 DEF RecreateClassicKey
<1>9. RecreateClassicKey(k, "private") = {n}
  <2>1. RecreateClassicKey(k, "private") =
          {[k EXCEPT !.pkey = pk,
                     !.pub = IF NoPubInPriv THEN @ ELSE Memcpy(@, k.compPub.cl, Part("cpub", id))]}
    BY <1>8 DEF pk
  <2>2. [k EXCEPT !.pkey = pk,
                  !.pub = IF NoPubInPriv THEN @ ELSE Memcpy(@, k.compPub.cl, Part("cpub", id))]
          = [k EXCEPT !.pkey = pk, !.pub = z]
    BY <1>5, <1>13
  <2>3. QED  BY <2>1, <2>2, <1>6
<1>10. [n EXCEPT !.st = "ready"] = RawKey(ty, "ready", x, z, cx, cy, pk)
  BY RawSt DEF n
<1>11. KeyFromData(ty, x, y) = {[r EXCEPT !.st = "ready"] : r \in {n}}
  BY <1>0, <1>4, <1>9, FromLoaded DEF x
<1>12. QED  BY <1>10, <1>11 DEF x, cx, pk, cy, z

LEMMA HybridFromPublic ==
  ASSUME NEW ty, Hybrid(ty), NEW id \in Ids
  PROVE  KeyFromData(ty, NoBuf, PubLayout(ty, id)) =
           {RawKey(ty, "ready", NoBuf, PubLayout(ty, id), NoComps, CompsOf(ty, CPub),
                   {<<"cpub", id>>})}
<1> DEFINE y == PubLayout(ty, id)  cy == CompsOf(ty, CPub)  nc == NoComps
           pk == {<<"cpub", id>>}  none == {}  new == "new"  nb == NoBuf
           k == RawKey(ty, new, nb, y, nc, cy, none)
           n == RawKey(ty, new, nb, y, nc, cy, pk)
<1>1. Comps(ty, y) = cy /\ Comps(ty, nb) = nc /\ cy.cl = SizeOfUint32
  BY CompsOfLayout DEF CompsOf
<1>2. Slice(y, SizeOfUint32, DecodeUint32(y)) = Part("cpub", id)
  BY DecodesHybrid, HybridPieces
<1>3. PairsOf("cpub", Part("cpub", id)) = {id}  BY OnePair
<1>4. Loaded(ty, nb, y) = k  BY <1>1, RawLoaded
<1> HIDE DEF y, cy, nc, pk, none, new, nb
<1>5. k.ty = ty /\ k.pub = y /\ k.compPub = cy  BY DEF RawKey
<1>6. [k EXCEPT !.pkey = pk] = n  BY RawPkey
<1> HIDE DEF k, n
<1>7. PairsOf("cpub", Slice(k.pub, k.compPub.cl, DecodeUint32(k.pub))) = {id}
  BY <1>1, <1>2, <1>3, <1>5
<1>8. RecreateClassicKey(k, "public") = {[k EXCEPT !.pkey = {<<"cpub", e>>}] : e \in {id}}
  BY <1>5, <1>7 DEF RecreateClassicKey
<1>9. RecreateClassicKey(k, "public") = {n}  BY <1>6, <1>8 DEF pk
<1>10. [n EXCEPT !.st = "ready"] = RawKey(ty, "ready", nb, y, nc, cy, pk)
  BY RawSt DEF n
<1>11. KeyFromData(ty, nb, y) = {[r EXCEPT !.st = "ready"] : r \in {n}}
  BY <1>4, <1>9, FromLoaded DEF nb
<1>12. QED  BY <1>10, <1>11 DEF y, cy, nc, pk, nb

LEMMA PlainFromData ==
  ASSUME NEW ty, ~Hybrid(ty), NEW x, NEW y
  PROVE  KeyFromData(ty, x, y) = {RawKey(ty, "ready", x, y, Comps(ty, x), Comps(ty, y), {})}
<1> DEFINE none == {}  new == "new"  cx == Comps(ty, x)  cy == Comps(ty, y)
           k == RawKey(ty, new, x, y, cx, cy, none)
<1>1. Loaded(ty, x, y) = k  BY RawLoaded
<1> HIDE DEF none, new, cx, cy
<1>2. k.ty = ty  BY DEF RawKey
<1>3. [k EXCEPT !.st = "ready"] = RawKey(ty, "ready", x, y, cx, cy, none)  BY RawSt
<1> HIDE DEF k
<1>4. \A op : RecreateClassicKey(k, op) = {k}  BY <1>2 DEF RecreateClassicKey
<1>5. KeyFromData(ty, x, y) = {[r EXCEPT !.st = "ready"] : r \in {k}}
  BY <1>1, <1>4, FromLoaded
<1>6. QED  BY <1>3, <1>5 DEF none, cx, cy

(* Whichever halves of a generated key are given to oqsx_key_fromdata, the  *)
(* key they make is the one generation would have made, with those halves.  *)
LEMMA FromDataMakes ==
  ASSUME NEW ty, NEW id \in Ids
  PROVE  /\ KeyFromData(ty, PrivLayout(ty, id), PubLayout(ty, id)) =
              {MadeKey(ty, id, {"priv", "pub"})}
         /\ KeyFromData(ty, PrivLayout(ty, id), NoBuf) = {MadeKey(ty, id, {"priv"})}
         /\ KeyFromData(ty, NoBuf, PubLayout(ty, id)) = {MadeKey(ty, id, {"pub"})}
<1> DEFINE x == PrivLayout(ty, id)  y == PubLayout(ty, id)  nb == NoBuf  nc == NoComps
           cx == CompsOf(ty, ClassLen[id])  cy == CompsOf(ty, CPub)
           pk == {<<"cpriv", id>>, <<"cpub", id>>}  pp == {<<"cpub", id>>}
<1>1. Comps(ty, x) = cx /\ Comps(ty, y) = cy /\ Comps(ty, nb) = nc
  BY CompsOfLayout
<1>2. CASE Hybrid(ty)
  <2>1. cy.cl = SizeOfUint32  BY <1>2 DEF CompsOf
  <2>2. y = IF NoPubInPriv THEN y ELSE Memcpy(y, cy.cl, Part("cpub", id))
    BY <1>2, <2>1, PubRewritten
  <2>3. nb = IF NoPubInPriv THEN nb ELSE Memcpy(nb, nc.cl, Part("cpub", id))
    BY MemcpyNothing
  <2>4. /\ MadeKey(ty, id, {"priv", "pub"}) = RawKey(ty, "ready", x, y, cx, cy, pk)
        /\ MadeKey(ty, id, {"priv"}) = RawKey(ty, "ready", x, nb, cx, nc, pk)
        /\ MadeKey(ty, id, {"pub"}) = RawKey(ty, "ready", nb, y, nc, cy, pp)
    BY <1>2, MadeRaw
  <2>5. KeyFromData(ty, nb, y) = {RawKey(ty, "ready", nb, y, nc, cy, pp)}
    BY <1>2, HybridFromPublic
  <2>6. Rewritten(y, cy, id) = y /\ Rewritten(nb, nc, id) = nb
    BY <2>2, <2>3 DEF Rewritten
  <2>10. \A w : KeyFromData(ty, x, w) =
                  {RawKey(ty, "ready", x, Rewritten(w, Comps(ty, w), id), cx, Comps(ty, w), pk)}
    BY <1>2, HybridFromPrivate
  <2> HIDE DEF x, y, cx, cy, nb, nc, pk
  <2>7. KeyFromData(ty, x, y) = {RawKey(ty, "ready", x, y, cx, cy, pk)}
    BY <1>1, <2>6, <2>10
  <2>8. KeyFromData(ty, x, nb) = {RawKey(ty, "ready", x, nb, cx, nc, pk)}
    BY <1>1, <2>6, <2>10
  <2>9. QED  BY <2>4, <2>5, <2>7, <2>8 DEF x, y, nb
<1>3. CASE ~Hybrid(ty)
  <2> DEFINE none == {}
  <2>1. /\ MadeKey(ty, id, {"priv", "pub"}) = RawKey(ty, "ready", x, y, cx, cy, none)
        /\ MadeKey(ty, id, {"priv"}) = RawKey(ty, "ready", x, nb, cx, nc, none)
        /\ MadeKey(ty, id, {"pub"}) = RawKey(ty, "ready", nb, y, nc, cy, none)
    BY <1>3, MadeRaw
  <2>2. \A v, w : KeyFromData(ty, v, w) =
                    {RawKey(ty, "ready", v, w, Comps(ty, v), Comps(ty, w), none)}
    BY <1>3, PlainFromData
  <2>3. QED  BY <1>1, <2>1, <2>2
<1>4. QED  BY <1>2, <1>3

-----------------------------------------------------------------------------
(* The private key blob: the private key buffer without its unused tail,    *)
(* then the OQS public key unless the build leaves it out.                  *)
BlobLen(ty, id) ==
  IF Hybrid(ty) THEN SizeOfUint32 + ClassLen[id] + QPriv ELSE QPriv

PkiLayout(ty, id) ==
  IF NoPubInPriv
  THEN [i \in 0 .. BlobLen(ty, id) - 1 |-> PrivLayout(ty, id)[i]]
  ELSE [i \in 0 .. (BlobLen(ty, id) + QPub) - 1 |->
          IF i < BlobLen(ty, id) THEN PrivLayout(ty, id)[i]
          ELSE <<"qpub", id, i - BlobLen(ty, id)>>]

LEMMA BlobSizes ==
  ASSUME NEW ty, NEW id \in Ids
  PROVE  /\ BlobLen(ty, id) \in Nat \ {0} /\ BlobLen(ty, id) <= PrivKeyLen(ty)
         /\ PrivKeyLen(ty) \in Nat
         /\ BlobLen(ty, id) = IF Hybrid(ty)
                              THEN PrivKeyLen(ty) - (CPriv - ClassLen[id])
                              ELSE PrivKeyLen(ty)
         /\ Hybrid(ty) => ~(ClassLen[id] > CPriv)
BY Sizes DEF BlobLen, PrivKeyLen

LEMMA SlicedFromStart ==
  ASSUME NEW x, NEW n \in Nat
  PROVE  Slice(x, 0, n) = [i \in 0 .. n - 1 |-> x[i]]
<1>1. \A i \in 0 .. n - 1 : 0 + i = i  OBVIOUS
<1>2. QED  BY <1>1 DEF Slice

(* oqsx_pki_priv_to_der writes that blob.                                   *)
LEMMA PkiWritten ==
  ASSUME NEW ty, NEW id \in Ids, NEW k, k.ty = ty, k.priv = PrivLayout(ty, id),
         NoPubInPriv \/ (k.pub = PubLayout(ty, id) /\ k.compPub = CompsOf(ty, CPub))
  PROVE  PkiPrivBytes(k) = PkiLayout(ty, id)
<1> DEFINE B == BlobLen(ty, id)  x == PrivLayout(ty, id)  q == Part("qpub", id)
           len == IF Hybrid(k.ty) THEN PrivKeyLen(k.ty) - (CPriv - DecodeUint32(k.priv))
                  ELSE PrivKeyLen(k.ty)
           s == [i \in 0 .. B - 1 |-> x[i]]
<1>1. len = B
  <2>1. CASE Hybrid(ty)  BY <2>1, BlobSizes, DecodesHybrid
  <2>2. CASE ~Hybrid(ty)  BY <2>2, BlobSizes
  <2>3. QED  BY <2>1, <2>2
<1>2. B \in Nat /\ QPub \in Nat  BY BlobSizes, Sizes
<1>3. PkiPrivBytes(k) =
        IF NoPubInPriv THEN Slice(k.priv, 0, len)
        ELSE Memcpy(Memcpy(Zalloc(len + QPub), 0, Slice(k.priv, 0, len)),
                    len, Slice(k.pub, k.compPub.oqs, QPub))
  BY DEF PkiPrivBytes
<1> DEFINE p == PkiLayout(ty, id)
<1>0. ~NoPubInPriv => /\ DOMAIN p = 0 .. (B + QPub) - 1
                      /\ p = [i \in DOMAIN p |-> p[i]]
                      /\ \A i \in 0 .. (B + QPub) - 1 :
                           p[i] = IF i < B THEN x[i] ELSE <<"qpub", id, i - B>>
  BY DEF PkiLayout
<1> HIDE DEF len, B, p, x
<1>4. Slice(k.priv, 0, B) = s  BY <1>2, SlicedFromStart DEF x
<1>5. CASE NoPubInPriv
  BY <1>1, <1>3, <1>4, <1>5 DEF PkiLayout, B, p, x
<1>6. CASE ~NoPubInPriv
  <2>1. Slice(k.pub, k.compPub.oqs, QPub) = q
    <3>1. CASE Hybrid(ty)  BY <1>6, <3>1, HybridPieces DEF CompsOf
    <3>2. CASE ~Hybrid(ty)  BY <1>6, <3>2, PlainPieces DEF CompsOf
    <3>3. QED  BY <3>1, <3>2
  <2>2. q = [i \in 0 .. QPub - 1 |-> <<"qpub", id, i>>]  BY Parts
  <2> DEFINE N == B + QPub  a == Memcpy(Zalloc(N), 0, s)  r == Memcpy(a, B, q)
  <2>3. N \in Nat  BY <1>2
  <2>4. a = [i \in 0 .. N - 1 |-> IF i - 0 \in 0 .. B - 1 THEN s[i - 0] ELSE <<"zero">>]
    BY DEF Memcpy, Zalloc
  <2>5. r = [i \in 0 .. N - 1 |-> IF i - B \in 0 .. QPub - 1
                                   THEN <<"qpub", id, i - B>> ELSE a[i]]
    BY <2>2, <2>4 DEF Memcpy
  <2>6. ASSUME NEW i \in 0 .. N - 1
        PROVE  r[i] = IF i < B THEN x[i] ELSE <<"qpub", id, i - B>>
    <3>1. i - 0 = i /\ (i \in 0 .. B - 1 <=> i < B) /\ (i - B \in 0 .. QPub - 1 <=> ~(i < B))
      BY <1>2
    <3>2. a[i] = IF i < B THEN s[i] ELSE <<"zero">>  BY <2>4, <3>1
    <3>3. r[i] = IF ~(i < B) THEN <<"qpub", id, i - B>> ELSE a[i]  BY <2>5, <3>1
    <3> HIDE DEF a, r
    <3>4. i < B => s[i] = x[i]  BY <3>1
    <3>5. QED  BY <3>2, <3>3, <3>4
  <2>7. DOMAIN r = 0 .. N - 1 /\ r = [i \in DOMAIN r |-> r[i]]  BY <2>5
  <2>8. PkiPrivBytes(k) = r  BY <1>1, <1>3, <1>4, <1>6, <2>1 DEF r
  <2> HIDE DEF r
  <2>9. p = r  BY <1>0, <1>6, <2>6, <2>7
  <2>10. QED  BY <2>8, <2>9 DEF p
<1>7. QED  BY <1>5, <1>6

LEMMA PkiCells ==
  ASSUME NEW ty, NEW id \in Ids
  PROVE  /\ DOMAIN PkiLayout(ty, id) =
              0 .. (BlobLen(ty, id) + IF NoPubInPriv THEN 0 ELSE QPub) - 1
         /\ \A i \in 0 .. BlobLen(ty, id) - 1 : PkiLayout(ty, id)[i] = PrivLayout(ty, id)[i]
         /\ ~NoPubInPriv => \A i \in 0 .. QPub - 1 :
              PkiLayout(ty, id)[BlobLen(ty, id) + i] = <<"qpub", id, i>>
<1> DEFINE B == BlobLen(ty, id)  p == PkiLayout(ty, id)  x == PrivLayout(ty, id)
<1>1. B \in Nat /\ QPub \in Nat  BY BlobSizes, Sizes
<1>2. CASE NoPubInPriv
  <2>1. p = [i \in 0 .. B - 1 |-> x[i]]  BY <1>2 DEF PkiLayout
  <2> HIDE DEF p, B, x
  <2>2. B + 0 = B  BY <1>1
  <2>3. QED  BY <1>2, <2>1, <2>2 DEF p, B, x
<1>3. CASE ~NoPubInPriv
  <2>1. p = [i \in 0 .. (B + QPub) - 1 |-> IF i < B THEN x[i] ELSE <<"qpub", id, i - B>>]
    BY <1>3 DEF PkiLayout
  <2> HIDE DEF p, B, x
  <2>2. ASSUME NEW i \in 0 .. B - 1  PROVE p[i] = x[i]
    <3>1. i \in 0 .. (B + QPub) - 1 /\ i < B  BY <1>1
    <3>2. QED  BY <2>1, <3>1
  <2>3. ASSUME NEW i \in 0 .. QPub - 1  PROVE p[B + i] = <<"qpub", id, i>>
    <3>1. B + i \in 0 .. (B + QPub) - 1 /\ ~(B + i < B) /\ (B + i) - B = i  BY <1>1
    <3>2. QED  BY <2>1, <3>1
  <2>4. DOMAIN p = 0 .. (B + IF NoPubInPriv THEN 0 ELSE QPub) - 1
    <3>1. (IF NoPubInPriv THEN 0 ELSE QPub) = QPub  BY <1>3
    <3>2. DOMAIN p = 0 .. (B + QPub) - 1  BY <2>1
    <3>3. QED  BY <3>1, <3>2
  <2>5. QED  BY <2>2, <2>3, <2>4 DEF p, B, x
<1>4. QED  BY <1>2, <1>3

(* The buffer the decoder copies the blob to is the generated one: what was *)
(* cut off is zero.                                                         *)
LEMMA PrivFromBlob ==
  ASSUME NEW ty, NEW id \in Ids
  PROVE  Memcpy(Zalloc(PrivKeyLen(ty)), 0, Slice(PkiLayout(ty, id), 0, BlobLen(ty, id))) =
           PrivLayout(ty, id)
<1> DEFINE B == BlobLen(ty, id)  p == PkiLayout(ty, id)  x == PrivLayout(ty, id)
           N == PrivKeyLen(ty)  s == Slice(p, 0, B)  r == Memcpy(Zalloc(N), 0, s)
<1>1. B \in Nat \ {0} /\ N \in Nat /\ B <= N  BY BlobSizes
<1>2. DOMAIN x = 0 .. N - 1 /\ x = [i \in DOMAIN x |-> x[i]]
  <2>1. DOMAIN x = 0 .. N - 1  BY LayoutDomains
  <2>2. x = [i \in DOMAIN x |-> x[i]]
    <3>1. CASE Hybrid(ty)  BY <3>1 DEF PrivLayout
    <3>2. CASE ~Hybrid(ty)
      <4>1. x = [i \in 0 .. QPriv - 1 |-> <<"qpriv", id, i>>]
        BY <3>2, Parts DEF PrivLayout
      <4> HIDE DEF x
      <4>2. QED  BY <4>1
    <3>3. QED  BY <3>1, <3>2
  <2>3. QED  BY <2>1, <2>2
<1>3. \A i \in 0 .. B - 1 : p[i] = x[i]  BY PkiCells
<1>4. \A i \in 0 .. N - 1 : ~(i < B) => x[i] = <<"zero">>
  <2>1. SUFFICES ASSUME NEW i \in 0 .. N - 1, ~(i < B)  PROVE x[i] = <<"zero">>
    OBVIOUS
  <2>2. CASE Hybrid(ty)
    <3>1. B = SizeOfUint32 + ClassLen[id] + QPriv  BY <2>2 DEF BlobLen
    <3>2. x[i] = PrivCell(id, i)  BY <2>2 DEF PrivLayout
    <3>3. ~(i < SizeOfUint32) /\ ~(i < SizeOfUint32 + ClassLen[id])
      BY <2>1, <3>1, Sizes
    <3>4. QED  BY <2>1, <3>1, <3>2, <3>3 DEF PrivCell
  <2>3. CASE ~Hybrid(ty)
    <3>1. B = N  BY <2>3, BlobSizes
    <3>2. QED  BY <1>1, <2>1, <3>1
  <2>4. QED  BY <2>2, <2>3
<1> HIDE DEF B, N, p, x
<1>5. s = [i \in 0 .. B - 1 |-> p[i]]  BY <1>1, SlicedFromStart
<1>6. r = [i \in 0 .. N - 1 |-> IF i - 0 \in DOMAIN s THEN s[i - 0] ELSE <<"zero">>]
  BY DEF Memcpy, Zalloc
<1> HIDE DEF s
<1>7. ASSUME NEW i \in 0 .. N - 1  PROVE r[i] = x[i]
  <2>1. i - 0 = i /\ (i \in 0 .. B - 1 <=> i < B)  BY <1>1
  <2>2. r[i] = IF i < B THEN p[i] ELSE <<"zero">>  BY <1>5, <1>6, <2>1
  <2>3. i < B => p[i] = x[i]  BY <1>3, <2>1
  <2> HIDE DEF r
  <2>4. QED  BY <1>4, <2>2, <2>3
<1>8. DOMAIN r = 0 .. N - 1 /\ r = [i \in DOMAIN r |-> r[i]]  BY <1>6
<1> HIDE DEF r
<1>9. r = x  BY <1>2, <1>7, <1>8
<1>10. QED  BY <1>9 DEF r, s, x, p, N, B

(* And the public key buffer, once the classical public key is computed.    *)
LEMMA PubFromBlob ==
  ASSUME NEW ty, Hybrid(ty), NEW id \in Ids, NEW y,
         y = Memcpy(EncodeUint32(Zalloc(PubKeyLen(ty)), CPub), SizeOfUint32 + CPub,
                    Part("qpub", id))
  PROVE  /\ Comps(ty, y) = CompsOf(ty, CPub)
         /\ Memcpy(y, SizeOfUint32, Part("cpub", id)) = PubLayout(ty, id)
<1> DEFINE N == PubKeyLen(ty)  S == SizeOfUint32
           len == [i \in 0 .. S - 1 |-> <<"len", CPub, i>>]
           c == Memcpy(Zalloc(N), 0, len)
           r == Memcpy(y, S, Part("cpub", id))
<1>1. /\ S \in Nat \ {0} /\ CPub \in Nat \ {0} /\ QPub \in Nat \ {0}
      /\ N = S + CPub + QPub
  BY Sizes DEF PubKeyLen
<1>2. /\ Part("cpub", id) = [i \in 0 .. CPub - 1 |-> <<"cpub", id, i>>]
      /\ Part("qpub", id) = [i \in 0 .. QPub - 1 |-> <<"qpub", id, i>>]
  BY Parts
<1>3. y = Memcpy(c, S + CPub, Part("qpub", id))  BY DEF EncodeUint32
<1> HIDE DEF N, S
<1>4. /\ DOMAIN c = 0 .. N - 1
      /\ \A i \in 0 .. N - 1 : i < S => c[i] = <<"len", CPub, i>>
  <2>1. c = [i \in 0 .. N - 1 |-> IF i - 0 \in 0 .. S - 1 THEN len[i - 0] ELSE <<"zero">>]
    BY DEF Memcpy, Zalloc
  <2>2. ASSUME NEW i \in 0 .. N - 1, i < S  PROVE c[i] = <<"len", CPub, i>>
    <3>1. i - 0 = i /\ i \in 0 .. S - 1  BY <1>1, <2>2
    <3>2. c[i] = len[i]  BY <2>1, <3>1
    <3>3. QED  BY <3>1, <3>2
  <2>3. QED  BY <2>1, <2>2
<1> HIDE DEF c
<1>5. /\ DOMAIN y = 0 .. N - 1
      /\ \A i \in 0 .. N - 1 :
           y[i] = IF i - (S + CPub) \in 0 .. QPub - 1
                  THEN <<"qpub", id, i - (S + CPub)>> ELSE c[i]
  BY <1>2, <1>3, <1>4 DEF Memcpy
<1>6. r = [i \in 0 .. N - 1 |-> IF i - S \in 0 .. CPub - 1
                                 THEN <<"cpub", id, i - S>> ELSE y[i]]
  BY <1>2, <1>5 DEF Memcpy
<1>7. ASSUME NEW i \in 0 .. N - 1  PROVE r[i] = PubCell(id, i)
  <2>1. /\ i - (S + CPub) \in 0 .. QPub - 1 <=> ~(i < S + CPub)
        /\ i - S \in 0 .. CPub - 1 <=> ~(i < S) /\ i < S + CPub
        /\ i < S => i < S + CPub
    BY <1>1
  <2>2. r[i] = IF ~(i < S) /\ i < S + CPub THEN <<"cpub", id, i - S>> ELSE y[i]
    BY <1>6, <2>1
  <2>3. y[i] = IF ~(i < S + CPub) THEN <<"qpub", id, i - (S + CPub)>> ELSE c[i]
    BY <1>5, <2>1
  <2> HIDE DEF r
  <2>4. QED  BY <1>4, <2>1, <2>2, <2>3 DEF PubCell, S
<1>8. r = PubLayout(ty, id)
  <2>1. PubLayout(ty, id) = [i \in 0 .. N - 1 |-> PubCell(id, i)]  BY DEF PubLayout, N
  <2>2. DOMAIN r = 0 .. N - 1 /\ r = [i \in 0 .. N - 1 |-> r[i]]  BY <1>6
  <2> HIDE DEF r
  <2>3. QED  BY <1>7, <2>1, <2>2
<1>9. Comps(ty, y) = CompsOf(ty, CPub)
  <2>1. 0 \in 0 .. N - 1 /\ 0 < S /\ ~(0 - (S + CPub) \in 0 .. QPub - 1)  BY <1>1
  <2>2. y[0] = <<"len", CPub, 0>> /\ y # NoBuf
    <3>1. c[0] = <<"len", CPub, 0>>  BY <1>4, <2>1
    <3>2. y[0] = c[0]  BY <1>5, <2>1
    <3>3. 0 \in DOMAIN y  BY <1>5, <2>1
    <3>4. y # NoBuf  BY <3>3 DEF NoBuf
    <3>5. QED  BY <3>1, <3>2, <3>4
  <2>3. DecodeUint32(y) = CPub  BY <2>2 DEF DecodeUint32
  <2>4. QED  BY <2>2, <2>3 DEF Comps, CompsOf
<1>10. QED  BY <1>8, <1>9 DEF r, S

PkiParts == IF NoPubInPriv THEN {"priv"} ELSE {"priv", "pub"}

(* oqsx_key_op reads back from the private key blob the key written to it.  *)
LEMMA PkiRead ==
  ASSUME NEW ty, NEW id \in Ids
  PROVE  KeyOpPrivate(ty, PkiLayout(ty, id)) = {MadeKey(ty, id, PkiParts)}
<1> DEFINE B == BlobLen(ty, id)  p == PkiLayout(ty, id)  N == PrivKeyLen(ty)
           n == DecodeUint32(p)
           actual == IF Hybrid(ty) THEN PrivKeyLen(ty) - (CPriv - n) ELSE PrivKeyLen(ty)
           e == IF NoPubInPriv THEN 0 ELSE QPub
           pub0 == EncodeUint32(Zalloc(PubKeyLen(ty)), CPub)
           q == Part("qpub", id)
           y == IF NoPubInPriv THEN NoBuf
                ELSE IF Hybrid(ty) THEN Memcpy(pub0, SizeOfUint32 + CPub, q) ELSE q
<1>1. KeyOpPrivate(ty, p) =
        IF (Hybrid(ty) /\ n > CPriv) \/ DOMAIN p # 0 .. (actual + e) - 1 THEN {}
        ELSE KeyFromData(ty, Memcpy(Zalloc(N), 0, Slice(p, 0, actual)),
               IF NoPubInPriv THEN NoBuf
               ELSE IF Hybrid(ty) THEN Memcpy(pub0, SizeOfUint32 + CPub, Slice(p, actual, QPub))
                    ELSE Slice(p, actual, QPub))
  BY DEF KeyOpPrivate
<1>2. Hybrid(ty) => n = ClassLen[id]
  <2>1. SUFFICES ASSUME Hybrid(ty)  PROVE n = ClassLen[id]
    OBVIOUS
  <2>2. 0 \in 0 .. B - 1 /\ 0 \in 0 .. SizeOfUint32 - 1  BY BlobSizes, Sizes
  <2>3. p[0] = <<"len", ClassLen[id], 0>>  BY <2>1, <2>2, PkiCells, HybridCells
  <2> HIDE DEF p
  <2>4. QED  BY <2>3 DEF DecodeUint32
<1>3. actual = B  BY <1>2, BlobSizes
<1>4. ~(Hybrid(ty) /\ n > CPriv)  BY <1>2, BlobSizes
<1>5. DOMAIN p = 0 .. (B + e) - 1  BY PkiCells
<1>6. Memcpy(Zalloc(N), 0, Slice(p, 0, B)) = PrivLayout(ty, id)  BY PrivFromBlob
<1>7. ~NoPubInPriv => Slice(p, B, QPub) = q
  <2>1. ~NoPubInPriv => \A i \in 0 .. QPub - 1 : p[B + i] = <<"qpub", id, i>>  BY PkiCells
  <2>2. q = [i \in 0 .. QPub - 1 |-> <<"qpub", id, i>>]  BY Parts
  <2> HIDE DEF p, B, q
  <2>3. QED  BY <2>1, <2>2 DEF Slice
<1>8. KeyOpPrivate(ty, p) = KeyFromData(ty, PrivLayout(ty, id), y)
  <2> HIDE DEF p, B, q, N, n, actual, e, pub0
  <2>1. CASE NoPubInPriv  BY <1>1, <1>3, <1>4, <1>5, <1>6, <2>1
  <2>2. CASE ~NoPubInPriv  BY <1>1, <1>3, <1>4, <1>5, <1>6, <1>7, <2>2
  <2>3. QED  BY <2>1, <2>2
<1>9. KeyFromData(ty, PrivLayout(ty, id), y) = {MadeKey(ty, id, PkiParts)}
  <2>1. CASE NoPubInPriv  BY <2>1, FromDataMakes DEF PkiParts
  <2>2. CASE ~NoPubInPriv /\ ~Hybrid(ty)
    <3>1. y = PubLayout(ty, id)  BY <2>2, PlainPieces
    <3> HIDE DEF y
    <3>2. QED  BY <2>2, <3>1, FromDataMakes DEF PkiParts
  <2>3. CASE ~NoPubInPriv /\ Hybrid(ty)
    <3> DEFINE x == PrivLayout(ty, id)  cx == CompsOf(ty, ClassLen[id])
               cy == CompsOf(ty, CPub)  pk == {<<"cpriv", id>>, <<"cpub", id>>}
               z == PubLayout(ty, id)
    <3>1. y = Memcpy(pub0, SizeOfUint32 + CPub, q)  BY <2>3
    <3>2. Comps(ty, y) = cy /\ Memcpy(y, SizeOfUint32, Part("cpub", id)) = z
      BY <2>3, <3>1, PubFromBlob
    <3>3. cy.cl = SizeOfUint32  BY <2>3 DEF CompsOf
    <3> HIDE DEF y, z, cy
    <3>4. z = Rewritten(y, Comps(ty, y), id)
      BY <2>3, <3>2, <3>3 DEF Rewritten
    <3>5. KeyFromData(ty, x, y) = {RawKey(ty, "ready", x, z, cx, cy, pk)}
      <4>1. Hybrid(ty) /\ Comps(ty, y) = cy  BY <2>3, <3>2
      <4>2. QED  BY <3>4, <4>1, HybridFromPrivate
    <3>6. MadeKey(ty, id, {"priv", "pub"}) = RawKey(ty, "ready", x, z, cx, cy, pk)
      BY <2>3, MadeRaw DEF z, cy
    <3>7. QED  BY <2>3, <3>5, <3>6 DEF PkiParts
  <2>4. QED  BY <2>1, <2>2, <2>3
<1>10. QED  BY <1>8, <1>9

(* oqsx_key_op reads back the public key of a SubjectPublicKeyInfo.         *)
LEMMA SpkiRead ==
  ASSUME NEW ty, NEW id \in Ids
  PROVE  KeyOpPublic(ty, PubLayout(ty, id)) = {MadeKey(ty, id, {"pub"})}
BY LayoutDomains, FromDataMakes DEF KeyOpPublic

-----------------------------------------------------------------------------
(* Encoded public points.  That of a hybrid KEM lacks the length field,     *)
(* which is the same for every key, so the point of one key written over    *)
(* the public key of another makes it the first one's.                      *)
PointLayout(ty, id) ==
  IF ty = "HYB_KEM" THEN Slice(PubLayout(ty, id), SizeOfUint32, CPub + QPub)
  ELSE PubLayout(ty, id)

LEMMA PointRead ==
  ASSUME NEW ty, NEW id \in Ids, NEW k, k.ty = ty, k.pub = PubLayout(ty, id)
  PROVE  PointBytes(k) = PointLayout(ty, id)
<1>1. CASE ty = "HYB_KEM"
  <2>1. PubKeyLen(ty) - SizeOfUint32 = CPub + QPub
    BY <1>1, Sizes DEF PubKeyLen, Hybrid
  <2>2. PointBytes(k) = Slice(PubLayout(ty, id), SizeOfUint32, PubKeyLen(ty) - SizeOfUint32)
    BY <1>1 DEF PointBytes
  <2>3. QED  BY <1>1, <2>1, <2>2 DEF PointLayout
<1>2. CASE ty # "HYB_KEM"
  <2> DEFINE y == PubLayout(ty, id)  N == PubKeyLen(ty)
  <2>1. N \in Nat /\ N - 0 = N /\ DOMAIN y = 0 .. N - 1  BY LayoutDomains
  <2>2. y = [i \in DOMAIN y |-> y[i]]
    <3>1. CASE Hybrid(ty)  BY <3>1 DEF PubLayout
    <3>2. CASE ~Hybrid(ty)
      <4>1. y = [i \in 0 .. QPub - 1 |-> <<"qpub", id, i>>]  BY <3>2, Parts DEF PubLayout
      <4> HIDE DEF y
      <4>2. QED  BY <4>1
    <3>3. QED  BY <3>1, <3>2
  <2>3. PointBytes(k) = Slice(y, 0, N)  BY <1>2, <2>1 DEF PointBytes
  <2> HIDE DEF y, N
  <2>4. Slice(y, 0, N) = [i \in 0 .. N - 1 |-> y[i]]  BY <2>1, SlicedFromStart
  <2>5. QED  BY <1>2, <2>1, <2>2, <2>3, <2>4 DEF PointLayout, y
<1>3. QED  BY <1>1, <1>2

LEMMA PointWritten ==
  ASSUME NEW ty, ty = "HYB_KEM", NEW id \in Ids, NEW e \in Ids
  PROVE  Memcpy(PubLayout(ty, e), SizeOfUint32, PointLayout(ty, id)) = PubLayout(ty, id)
<1> DEFINE N == PubKeyLen(ty)  S == SizeOfUint32  M == CPub + QPub
           x == PubLayout(ty, e)  y == PubLayout(ty, id)  p == PointLayout(ty, id)
           r == Memcpy(x, S, p)
<1>1. S \in Nat /\ M \in Nat /\ N = S + M /\ M > 0
  BY Sizes DEF PubKeyLen, Hybrid
<1>2. p = [i \in 0 .. M - 1 |-> y[S + i]]  BY DEF PointLayout, Slice
<1>3. Hybrid(ty)  BY DEF Hybrid
<1>4. /\ x = [i \in 0 .. N - 1 |-> PubCell(e, i)]
      /\ y = [i \in 0 .. N - 1 |-> PubCell(id, i)]
  BY <1>3 DEF PubLayout
<1>5. \A i \in 0 .. S - 1 : PubCell(e, i) = PubCell(id, i)
  <2>1. SUFFICES ASSUME NEW i \in 0 .. S - 1  PROVE PubCell(e, i) = PubCell(id, i)
    OBVIOUS
  <2>2. i < S  BY <1>1, <2>1
  <2>3. QED  BY <2>2 DEF PubCell
<1> HIDE DEF N, S, M, x, y, p
<1>6. r = [i \in 0 .. N - 1 |-> IF i - S \in 0 .. M - 1 THEN p[i - S] ELSE x[i]]
  BY <1>2, <1>4 DEF Memcpy
<1>7. ASSUME NEW i \in 0 .. N - 1  PROVE r[i] = y[i]
  <2>1. CASE i - S \in 0 .. M - 1
    <3>1. S + (i - S) = i  BY <1>1
    <3>2. p[i - S] = y[i]  BY <1>2, <2>1, <3>1
    <3>3. QED  BY <1>6, <2>1, <3>2
  <2>2. CASE ~(i - S \in 0 .. M - 1)
    <3>1. i \in 0 .. S - 1  BY <1>1, <2>2
    <3>2. QED  BY <1>4, <1>5, <1>6, <2>2, <3>1
  <2>3. QED  BY <2>1, <2>2
<1>8. r = [i \in 0 .. N - 1 |-> r[i]]  BY <1>6
<1>9. y = [i \in 0 .. N - 1 |-> y[i]]  BY <1>4
<1> HIDE DEF r
<1>10. r = y  BY <1>7, <1>8, <1>9
<1>11. QED  BY <1>10 DEF r, x, y, p, S

-----------------------------------------------------------------------------
(* There and back, for the keys of generation.                              *)

(* A key object as generation makes it, less one half.                      *)
PrivateHalf(ty, id) == [KeyGen(ty, id) EXCEPT !.pub = NoBuf, !.compPub = NoComps]
PublicHalf(ty, id) ==
  [KeyGen(ty, id) EXCEPT !.priv = NoBuf, !.compPriv = NoComps,
                         !.pkey = @ \ {<<"cpriv", id>>}]

LEMMA TwoOrThree ==
  ASSUME NEW k, NEW a, NEW b, NEW c
  PROVE  /\ [k EXCEPT !.pub = a, !.compPub = b] = [[k EXCEPT !.pub = a] EXCEPT !.compPub = b]
         /\ [k EXCEPT !.priv = a, !.compPriv = b, !.pkey = c] =
              [[[k EXCEPT !.priv = a] EXCEPT !.compPriv = b] EXCEPT !.pkey = c]
OBVIOUS

LEMMA HalvesMade ==
  ASSUME NEW ty, NEW id \in Ids
  PROVE  /\ MadeKey(ty, id, {"priv"}) = PrivateHalf(ty, id)
         /\ MadeKey(ty, id, {"pub"}) = PublicHalf(ty, id)
<1>1. KeyGen(ty, id) = MadeKey(ty, id, {"priv", "pub"})  BY KeyGenMakes
<1> DEFINE pk == IF ~Hybrid(ty) THEN {} ELSE {<<"cpriv", id>>, <<"cpub", id>>}
           pp == IF ~Hybrid(ty) THEN {} ELSE {<<"cpub", id>>}
<1>2. pk \ {<<"cpriv", id>>} = pp
  <2>1. <<"cpriv", id>> # <<"cpub", id>>  OBVIOUS
  <2>2. QED  BY <2>1
<1>3. /\ MadeKey(ty, id, {"priv", "pub"}) =
           RawKey(ty, "ready", PrivLayout(ty, id), PubLayout(ty, id),
                  CompsOf(ty, ClassLen[id]), CompsOf(ty, CPub), pk)
      /\ MadeKey(ty, id, {"priv"}) =
           RawKey(ty, "ready", PrivLayout(ty, id), NoBuf,
                  CompsOf(ty, ClassLen[id]), NoComps, pk)
      /\ MadeKey(ty, id, {"pub"}) =
           RawKey(ty, "ready", NoBuf, PubLayout(ty, id), NoComps, CompsOf(ty, CPub), pp)
  BY MadeRaw
<1>4. KeyGen(ty, id).pkey = pk  BY <1>1, <1>3, RawFields
<1> DEFINE k == KeyGen(ty, id)  st == "ready"  nb == NoBuf  nc == NoComps
           x == PrivLayout(ty, id)  y == PubLayout(ty, id)
           cx == CompsOf(ty, ClassLen[id])  cy == CompsOf(ty, CPub)
<1>5. PrivateHalf(ty, id) = [k EXCEPT !.pub = nb, !.compPub = nc]
  BY DEF PrivateHalf
<1>6. PublicHalf(ty, id) = [k EXCEPT !.priv = nb, !.compPriv = nc, !.pkey = pp]
  BY <1>2, <1>4 DEF PublicHalf
<1>7. /\ k = RawKey(ty, st, x, y, cx, cy, pk)
      /\ MadeKey(ty, id, {"priv"}) = RawKey(ty, st, x, nb, cx, nc, pk)
      /\ MadeKey(ty, id, {"pub"}) = RawKey(ty, st, nb, y, nc, cy, pp)
  BY <1>1, <1>3
<1> HIDE DEF pk, pp, k, st, nb, nc, x, y, cx, cy
<1>8. [k EXCEPT !.pub = nb, !.compPub = nc] = RawKey(ty, st, x, nb, cx, nc, pk)
  <2>1. [k EXCEPT !.pub = nb] = RawKey(ty, st, x, nb, cx, cy, pk)  BY <1>7, RawPub
  <2>2. [RawKey(ty, st, x, nb, cx, cy, pk) EXCEPT !.compPub = nc] =
          RawKey(ty, st, x, nb, cx, nc, pk)
    BY RawCompPub
  <2>3. QED  BY <2>1, <2>2, TwoOrThree
<1>9. [k EXCEPT !.priv = nb, !.compPriv = nc, !.pkey = pp] = RawKey(ty, st, nb, y, nc, cy, pp)
  <2>1. [k EXCEPT !.priv = nb] = RawKey(ty, st, nb, y, cx, cy, pk)  BY <1>7, RawPriv
  <2>2. [RawKey(ty, st, nb, y, cx, cy, pk) EXCEPT !.compPriv = nc] =
          RawKey(ty, st, nb, y, nc, cy, pk)
    BY RawCompPriv
  <2>3. [RawKey(ty, st, nb, y, nc, cy, pk) EXCEPT !.pkey = pp] =
          RawKey(ty, st, nb, y, nc, cy, pp)
    BY RawPkey
  <2>4. QED  BY <2>1, <2>2, <2>3, TwoOrThree
<1>10. QED  BY <1>5, <1>6, <1>7, <1>8, <1>9

(* Whatever the lengths, decoding the private key blob of a generated key   *)
(* gives that key again, cell by cell and pointer by pointer; where the     *)
(* build leaves the public key out of the blob, its private half.           *)
THEOREM PkiRoundTrip ==
  ASSUME NEW ty, NEW id \in Ids
  PROVE  KeyOpPrivate(ty, PkiPrivBytes(KeyGen(ty, id))) =
           {IF NoPubInPriv THEN PrivateHalf(ty, id) ELSE KeyGen(ty, id)}
<1> DEFINE k == KeyGen(ty, id)
<1>1. k = MadeKey(ty, id, {"priv", "pub"})  BY KeyGenMakes
<1>2. /\ k.ty = ty /\ k.priv = PrivLayout(ty, id) /\ k.pub = PubLayout(ty, id)
      /\ k.compPub = CompsOf(ty, CPub)
  BY <1>1 DEF MadeKey
<1> HIDE DEF k
<1>3. PkiPrivBytes(k) = PkiLayout(ty, id)  BY <1>2, PkiWritten
<1>4. KeyOpPrivate(ty, PkiPrivBytes(k)) = {MadeKey(ty, id, PkiParts)}  BY <1>3, PkiRead
<1>5. CASE NoPubInPriv  BY <1>4, <1>5, HalvesMade DEF PkiParts, k
<1>6. CASE ~NoPubInPriv  BY <1>1, <1>4, <1>6 DEF PkiParts, k
<1>7. QED  BY <1>5, <1>6

(* The bit string of a SubjectPublicKeyInfo gives the public half.          *)
THEOREM SpkiRoundTrip ==
  ASSUME NEW ty, NEW id \in Ids
  PROVE  KeyOpPublic(ty, KeyGen(ty, id).pub) = {PublicHalf(ty, id)}
<1>1. KeyGen(ty, id).pub = PubLayout(ty, id)  BY KeyGenMakes DEF MadeKey
<1>2. QED  BY <1>1, SpkiRead, HalvesMade

(* And so do exported parameters: both, or the one that was passed.         *)
THEOREM ParamsRoundTrip ==
  ASSUME NEW ty, NEW id \in Ids
  PROVE  /\ KeyFromData(ty, KeyGen(ty, id).priv, KeyGen(ty, id).pub) = {KeyGen(ty, id)}
         /\ KeyFromData(ty, KeyGen(ty, id).priv, NoBuf) = {PrivateHalf(ty, id)}
         /\ KeyFromData(ty, NoBuf, KeyGen(ty, id).pub) = {PublicHalf(ty, id)}
<1>1. /\ KeyGen(ty, id) = MadeKey(ty, id, {"priv", "pub"})
      /\ KeyGen(ty, id).pub = PubLayout(ty, id)
      /\ KeyGen(ty, id).priv = PrivLayout(ty, id)
  BY KeyGenMakes DEF MadeKey
<1>2. QED  BY <1>1, FromDataMakes, HalvesMade

-----------------------------------------------------------------------------
(* Blobs from elsewhere.                                                    *)

(* What oqsx_key_fromdata does to the buffers it is given with a private    *)
(* key among them: at most a classical public key is written.               *)
Overwritten(ty, y, z) ==
  z = y \/ (Hybrid(ty) /\ \E id \in Ids : z = Memcpy(y, Comps(ty, y).cl, Part("cpub", id)))

LEMMA FromDataFields ==
  ASSUME NEW ty, NEW x, NEW y, x # NoBuf, NEW k \in KeyFromData(ty, x, y)
  PROVE  /\ k.ty = ty /\ k.priv = x /\ k.compPub = Comps(ty, y)
         /\ Overwritten(ty, y, k.pub)
<1> DEFINE l == Loaded(ty, x, y)
<1>1. PICK r \in RecreateClassicKey(l, "private") : k = [r EXCEPT !.st = "ready"]
  BY FromLoaded
<1>2. l.ty = ty /\ l.priv = x /\ l.pub = y /\ l.compPub = Comps(ty, y)
  BY RawLoaded, RawFields
<1>3. l = RawKey(ty, "new", x, y, Comps(ty, x), Comps(ty, y), {})  BY RawLoaded
<1> HIDE DEF l
<1>4. CASE ~Hybrid(ty)
  <2>1. r = l  BY <1>1, <1>2, <1>4 DEF RecreateClassicKey
  <2>2. k.ty = l.ty /\ k.priv = l.priv /\ k.pub = l.pub /\ k.compPub = l.compPub
    BY <1>1, <1>3, <2>1 DEF RawKey
  <2>3. QED  BY <1>2, <2>2 DEF Overwritten
<1>5. CASE Hybrid(ty)
  <2> DEFINE pk(id) == {<<"cpriv", id>>, <<"cpub", id>>}
             z(id) == IF NoPubInPriv THEN y ELSE Memcpy(y, Comps(ty, y).cl, Part("cpub", id))
  <2>1. \E id \in PairsOf("cpriv", Slice(l.priv, l.compPriv.cl, DecodeUint32(l.priv))) :
          r = [l EXCEPT !.pkey = pk(id),
                        !.pub = IF NoPubInPriv THEN @
                                ELSE Memcpy(@, l.compPub.cl, Part("cpub", id))]
    BY <1>1, <1>2, <1>5 DEF RecreateClassicKey
  <2>2. PICK id \in Ids : r = [l EXCEPT !.pkey = pk(id), !.pub = z(id)]
    BY <1>2, <2>1 DEF PairsOf
  <2> HIDE DEF pk, z
  <2>3. k.ty = l.ty /\ k.priv = l.priv /\ k.pub = z(id) /\ k.compPub = l.compPub
    BY <1>1, <1>3, <2>2 DEF RawKey
  <2>4. QED  BY <1>2, <1>5, <2>3 DEF z, Overwritten
<1>6. QED  BY <1>4, <1>5

(* The public key buffer the decoder makes for the n bytes s of a hybrid's  *)
(* blob: found behind its pointer, whatever classical key is written.       *)
LEMMA PubBehind ==
  ASSUME NEW ty, Hybrid(ty), NEW s, DOMAIN s = 0 .. QPub - 1, NEW y, NEW z,
         y = Memcpy(EncodeUint32(Zalloc(PubKeyLen(ty)), CPub), SizeOfUint32 + CPub, s),
         Overwritten(ty, y, z)
  PROVE  Slice(z, Comps(ty, y).oqs, QPub) = Slice(s, 0, QPub)
<1> DEFINE N == PubKeyLen(ty)  S == SizeOfUint32
           len == [i \in 0 .. S - 1 |-> <<"len", CPub, i>>]
           c == Memcpy(Zalloc(N), 0, len)
<1>1. /\ S \in Nat \ {0} /\ CPub \in Nat \ {0} /\ QPub \in Nat \ {0}
      /\ N = (S + CPub) + QPub
  BY Sizes DEF PubKeyLen
<1>2. y = Memcpy(c, S + CPub, s)  BY DEF EncodeUint32
<1>3. c = [i \in 0 .. N - 1 |-> IF i - 0 \in 0 .. S - 1 THEN len[i - 0] ELSE <<"zero">>]
  BY DEF Memcpy, Zalloc
<1> HIDE DEF N, S
<1>4. DOMAIN c = 0 .. N - 1 /\ c[0] = <<"len", CPub, 0>>
  <2>1. 0 - 0 = 0 /\ 0 \in 0 .. S - 1 /\ 0 \in 0 .. N - 1  BY <1>1
  <2>2. QED  BY <1>3, <2>1
<1> HIDE DEF c
<1>5. y = [i \in 0 .. N - 1 |-> IF i - (S + CPub) \in 0 .. QPub - 1
                                 THEN s[i - (S + CPub)] ELSE c[i]]
  BY <1>2, <1>4 DEF Memcpy
<1>6. Comps(ty, y).cl = S /\ Comps(ty, y).oqs = S + CPub
  <2>1. 0 \in 0 .. N - 1 /\ ~(0 - (S + CPub) \in 0 .. QPub - 1)  BY <1>1
  <2>2. y[0] = <<"len", CPub, 0>> /\ 0 \in DOMAIN y  BY <1>4, <1>5, <2>1
  <2>3. y # NoBuf  BY <2>2 DEF NoBuf
  <2>4. DecodeUint32(y) = CPub  BY <2>2 DEF DecodeUint32
  <2>5. QED  BY <2>3, <2>4 DEF Comps, S
<1>7. ASSUME NEW i \in 0 .. QPub - 1  PROVE z[(S + CPub) + i] = s[i]
  <2> DEFINE j == (S + CPub) + i
  <2>1. /\ j \in 0 .. N - 1 /\ j - (S + CPub) = i /\ ~(j - S \in 0 .. CPub - 1)
    BY <1>1
  <2>2. y[j] = s[i]
    <3> HIDE DEF j
    <3>1. QED  BY <1>5, <2>1
  <2>3. z[j] = y[j]
    <3>1. CASE z = y  BY <3>1
    <3>2. ASSUME NEW id \in Ids, z = Memcpy(y, S, Part("cpub", id))  PROVE z[j] = y[j]
      <4>1. DOMAIN y = 0 .. N - 1 /\ DOMAIN Part("cpub", id) = 0 .. CPub - 1
        BY <1>5, Parts
      <4> HIDE DEF j
      <4>2. QED  BY <2>1, <3>2, <4>1 DEF Memcpy
    <3>3. QED  BY <1>6, <3>1, <3>2 DEF Overwritten
  <2>4. QED  BY <2>2, <2>3
<1>8. Slice(s, 0, QPub) = [i \in 0 .. QPub - 1 |-> s[i]]  BY <1>1, SlicedFromStart
<1>9. Slice(z, S + CPub, QPub) = [i \in 0 .. QPub - 1 |-> s[i]]  BY <1>7 DEF Slice
<1>10. QED  BY <1>6, <1>8, <1>9

(* The decoder takes no blob it would not write: whatever private key blob  *)
(* it accepts, from this provider or not, the key it makes of it is encoded *)
(* as the same blob, byte for byte.  No byte of an accepted blob is ignored *)
(* or corrected.                                                            *)
THEOREM PkiCanonical ==
  ASSUME NEW ty, NEW p, p = [i \in DOMAIN p |-> p[i]], DecodeUint32(p) \in Nat,
         NEW k \in KeyOpPrivate(ty, p)
  PROVE  PkiPrivBytes(k) = p
<1> DEFINE N == PrivKeyLen(ty)  n == DecodeUint32(p)
           actual == IF Hybrid(ty) THEN N - (CPriv - n) ELSE N
           e == IF NoPubInPriv THEN 0 ELSE QPub
           pub0 == EncodeUint32(Zalloc(PubKeyLen(ty)), CPub)
           s == Slice(p, actual, QPub)
           x == Memcpy(Zalloc(N), 0, Slice(p, 0, actual))
           y == IF NoPubInPriv THEN NoBuf
                ELSE IF Hybrid(ty) THEN Memcpy(pub0, SizeOfUint32 + CPub, s) ELSE s
<1>1. /\ KeyOpPrivate(ty, p) = IF (Hybrid(ty) /\ n > CPriv) \/ DOMAIN p # 0 .. (actual + e) - 1
                               THEN {} ELSE KeyFromData(ty, x, y)
  BY DEF KeyOpPrivate
<1>2. /\ Hybrid(ty) => n <= CPriv
      /\ DOMAIN p = 0 .. (actual + e) - 1
      /\ k \in KeyFromData(ty, x, y)
  <2> HIDE DEF N, n, actual, e, x, y
  <2>1. ~((Hybrid(ty) /\ n > CPriv) \/ DOMAIN p # 0 .. (actual + e) - 1)  BY <1>1
  <2>2. n \in Nat /\ CPriv \in Nat  BY Sizes DEF n
  <2>3. QED  BY <1>1, <2>1, <2>2
<1>3. /\ N \in Nat /\ actual \in Nat \ {0} /\ actual <= N /\ QPub \in Nat \ {0}
  <2>1. CASE Hybrid(ty)
    <3>1. N = (SizeOfUint32 + CPriv) + QPriv  BY <2>1, Sizes DEF PrivKeyLen
    <3>2. actual = N - (CPriv - n)  BY <2>1
    <3> HIDE DEF N, n, actual
    <3>3. n \in Nat /\ n <= CPriv  BY <1>2, <2>1 DEF n
    <3>4. QED  BY <3>1, <3>2, <3>3, Sizes
  <2>2. CASE ~Hybrid(ty)
    <3>1. N = QPriv /\ actual = N  BY <2>2 DEF PrivKeyLen
    <3>2. QED  BY <3>1, Sizes
  <2>3. QED  BY <2>1, <2>2
<1> HIDE DEF actual, N
<1>4. Slice(p, 0, actual) = [i \in 0 .. actual - 1 |-> p[i]]
  BY <1>3, SlicedFromStart
<1>5. /\ DOMAIN x = 0 .. N - 1 /\ x # NoBuf
      /\ \A i \in 0 .. actual - 1 : x[i] = p[i]
  <2>1. x = [i \in 0 .. N - 1 |-> IF i - 0 \in 0 .. actual - 1 THEN p[i - 0] ELSE <<"zero">>]
    <3>1. \A i \in 0 .. actual - 1 : Slice(p, 0, actual)[i] = p[i]  BY <1>4
    <3>2. DOMAIN Slice(p, 0, actual) = 0 .. actual - 1  BY <1>4
    <3>3. QED  BY <3>1, <3>2 DEF Memcpy, Zalloc
  <2> HIDE DEF x
  <2>2. DOMAIN x = 0 .. N - 1  BY <2>1
  <2>3. 0 \in DOMAIN x  BY <1>3, <2>2
  <2>4. x # NoBuf  BY <2>3 DEF NoBuf
  <2>5. ASSUME NEW i \in 0 .. actual - 1  PROVE x[i] = p[i]
    <3>1. i \in 0 .. N - 1 /\ i - 0 = i  BY <1>3
    <3>2. QED  BY <2>1, <3>1
  <2>6. QED  BY <2>2, <2>4, <2>5
<1> HIDE DEF x
<1>6. /\ k.ty = ty /\ k.priv = x /\ k.compPub = Comps(ty, y)
      /\ Overwritten(ty, y, k.pub)
  <2> HIDE DEF y
  <2>1. QED  BY <1>2, <1>5, FromDataFields
<1>7. DecodeUint32(k.priv) = n
  <2>1. x[0] = p[0]  BY <1>3, <1>5
  <2>2. QED  BY <1>6, <2>1 DEF DecodeUint32
<1>8. Slice(k.priv, 0, actual) = [i \in 0 .. actual - 1 |-> p[i]]
  <2>1. Slice(x, 0, actual) = [i \in 0 .. actual - 1 |-> x[i]]  BY <1>3, SlicedFromStart
  <2>2. QED  BY <1>5, <1>6, <2>1
<1>9. PkiPrivBytes(k) =
        IF NoPubInPriv THEN Slice(k.priv, 0, actual)
        ELSE Memcpy(Memcpy(Zalloc(actual + QPub), 0, Slice(k.priv, 0, actual)),
                    actual, Slice(k.pub, k.compPub.oqs, QPub))
  BY <1>6, <1>7 DEF PkiPrivBytes, actual, N
<1>10. CASE NoPubInPriv
  <2>1. actual + e = actual  BY <1>3, <1>10
  <2>2. DOMAIN p = 0 .. actual - 1  BY <1>2, <2>1
  <2>3. p = [i \in 0 .. actual - 1 |-> p[i]]  BY <2>2
  <2>4. QED  BY <1>8, <1>9, <1>10, <2>3
<1>11. CASE ~NoPubInPriv
  <2>1. DOMAIN p = 0 .. (actual + QPub) - 1
    <3>1. e = QPub  BY <1>11
    <3>2. QED  BY <1>2, <3>1
  <2>2. s = [i \in 0 .. QPub - 1 |-> p[actual + i]]  BY DEF Slice
  <2> HIDE DEF s
  <2>3. DOMAIN s = 0 .. QPub - 1 /\ s = [i \in 0 .. QPub - 1 |-> s[i]]  BY <2>2
  <2>4. Slice(k.pub, k.compPub.oqs, QPub) = s
    <3>1. CASE Hybrid(ty)
      <4>1. y = Memcpy(EncodeUint32(Zalloc(PubKeyLen(ty)), CPub), SizeOfUint32 + CPub, s)
        BY <1>11, <3>1
      <4> HIDE DEF y
      <4>2. Slice(k.pub, Comps(ty, y).oqs, QPub) = Slice(s, 0, QPub)
        <5>1. Overwritten(ty, y, k.pub) /\ DOMAIN s = 0 .. QPub - 1  BY <1>6, <2>3
        <5>2. QED  BY <3>1, <4>1, <5>1, PubBehind
      <4>3. Slice(s, 0, QPub) = [i \in 0 .. QPub - 1 |-> s[i]]  BY <1>3, SlicedFromStart
      <4>4. QED  BY <1>6, <2>3, <4>2, <4>3
    <3>2. CASE ~Hybrid(ty)
      <4>1. y = s  BY <1>11, <3>2
      <4>2. k.pub = s /\ k.compPub = Comps(ty, s)  BY <1>6, <3>2, <4>1 DEF Overwritten
      <4>3. 0 \in DOMAIN s  BY <1>3, <2>3
      <4>4. s # NoBuf  BY <4>3 DEF NoBuf
      <4>5. k.compPub.oqs = 0  BY <3>2, <4>2, <4>4 DEF Comps
      <4>6. Slice(s, 0, QPub) = [i \in 0 .. QPub - 1 |-> s[i]]  BY <1>3, SlicedFromStart
      <4>7. QED  BY <2>3, <4>2, <4>5, <4>6
    <3>3. QED  BY <3>1, <3>2
  <2> DEFINE h == [i \in 0 .. actual - 1 |-> p[i]]  M == actual + QPub
             a == Memcpy(Zalloc(M), 0, h)  r == Memcpy(a, actual, s)
  <2>5. PkiPrivBytes(k) = r  BY <1>8, <1>9, <1>11, <2>4
  <2>6. a = [i \in 0 .. M - 1 |-> IF i - 0 \in 0 .. actual - 1 THEN h[i - 0] ELSE <<"zero">>]
    BY DEF Memcpy, Zalloc
  <2>7. M \in Nat  BY <1>3
  <2>8. r = [i \in 0 .. M - 1 |-> IF i - actual \in 0 .. QPub - 1 THEN s[i - actual] ELSE a[i]]
    BY <2>3, <2>6 DEF Memcpy
  <2> HIDE DEF r
  <2>9. ASSUME NEW i \in 0 .. M - 1  PROVE r[i] = p[i]
    <3>1. i - 0 = i /\ (i \in 0 .. actual - 1 <=> i < actual)
          /\ (i - actual \in 0 .. QPub - 1 <=> ~(i < actual)) /\ actual + (i - actual) = i
      BY <1>3, <2>7
    <3>2. CASE i < actual
      <4>1. i \in 0 .. actual - 1 /\ ~(i - actual \in 0 .. QPub - 1)  BY <3>1, <3>2
      <4>2. h[i] = p[i]  BY <4>1
      <4> HIDE DEF h, a, M, actual
      <4>3. a[i] = h[i]  BY <2>6, <3>1, <4>1
      <4>4. r[i] = a[i]  BY <2>8, <4>1
      <4>5. QED  BY <4>2, <4>3, <4>4
    <3>3. CASE ~(i < actual)
      <4>1. s[i - actual] = p[i]  BY <2>2, <3>1, <3>3
      <4>2. i - actual \in 0 .. QPub - 1  BY <3>1, <3>3
      <4> HIDE DEF a, M, actual
      <4>3. r[i] = s[i - actual]  BY <2>8, <4>2
      <4>4. QED  BY <4>1, <4>3
    <3>4. QED  BY <3>2, <3>3
  <2>10. p = [i \in 0 .. M - 1 |-> p[i]]  BY <2>1
  <2>11. r = [i \in 0 .. M - 1 |-> r[i]]  BY <2>8
  <2> HIDE DEF M
  <2>12. r = p  BY <2>9, <2>10, <2>11
  <2>13. QED  BY <2>5, <2>12
<1>12. QED  BY <1>10, <1>11

=============================================================================
