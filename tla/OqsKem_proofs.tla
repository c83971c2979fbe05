--------------------------- MODULE OqsKem_proofs ---------------------------
(****************************************************************************)
(* Both ends of an exchange agree on a secret, and a hybrid secret takes    *)
(* both halves: the invariant of OqsKem and its properties, for any number  *)
(* of keys, key pairs and runs, and every size of keys, ciphertexts and     *)
(* secrets.                                                                 *)
(****************************************************************************)
EXTENDS OqsKem, OqsxKeyLayout_proofs

OnKeys(f) == f = [k \in Keys |-> f[k]]
OnRuns(f) == f = [r \in Runs |-> f[r]]
IsBytes(x) == x = [i \in DOMAIN x |-> x[i]]

(* The two buffers of a key object of the pair id, and where they are read. *)
PubOk(ky, id) ==
  ky.pub = NoBuf \/ (ky.pub = PubLayout(ky.ty, id) /\ ky.compPub = CompsOf(ky.ty, CPub))
PrivOk(ky, id) ==
  ky.priv = NoBuf \/ (ky.priv = PrivLayout(ky.ty, id) /\ ky.compPriv = CompsOf(ky.ty, ClassLen[id]))

KeyOk(ky, id) ==
  \/ ky.st = "none" /\ ky.pub = NoBuf /\ ky.priv = NoBuf
  \/ ky.st # "none" /\ ky.ty \in Types /\ id \in Ids /\ PubOk(ky, id) /\ PrivOk(ky, id)

(* What a run for a pair gives: everything in it names the pair and the run.*)
CtOf(ty, id, r) ==
  IF Hybrid(ty) THEN Join(CPub, EphPub(r), QCt, OqsCt(id, r)) ELSE OqsCt(id, r)
SecretOf(ty, id, r) ==
  IF Hybrid(ty) THEN Join(CSec, Kex(id, r), QSec, OqsSecret(id, r)) ELSE OqsSecret(id, r)

RunOk(x, r) ==
  \/ x = NoRun
  \/ /\ x.ty \in Types /\ x.id \in Ids
     /\ x.ct = CtOf(x.ty, x.id, r) /\ x.secret = SecretOf(x.ty, x.id, r)

(* What decapsulation makes of a ciphertext with the private key of a pair. *)
HybGot(id, ct) ==
  LET eph == {r \in Runs : Slice(ct, 0, CPub) = EphPub(r)}
  IN  IF DOMAIN ct # 0 .. (CPub + QCt) - 1 \/ eph = {} THEN Failed
      ELSE Join(CSec, Kex(id, CHOOSE r \in eph : TRUE),
                QSec, OqsDecaps(id, Slice(ct, CPub, QCt)))
Got(ty, id, ct) ==
  IF Hybrid(ty) THEN HybGot(id, ct) ELSE OqsDecaps(id, Slice(ct, 0, QCt))

OutOk(x) ==
  \/ x = NoRun
  \/ /\ x.ty \in Types /\ x.id \in Ids
     /\ IsBytes(x.ct)
     /\ x.secret = Got(x.ty, x.id, x.ct)

KeysInv == OnKeys(key) /\ OnKeys(of) /\ \A k \in Keys : KeyOk(key[k], of[k])
RunsInv == OnRuns(run) /\ \A r \in Runs : RunOk(run[r], r)
IInv == KeysInv /\ RunsInv /\ OutOk(out)

-----------------------------------------------------------------------------
(* Bytes and their concatenation.                                           *)

LEMMA Lengths ==
  /\ CSec \in Nat /\ CSec > 0 /\ QCt \in Nat /\ QCt > 0 /\ QSec \in Nat /\ QSec > 0
  /\ CPub \in Nat /\ CPub > 0
  /\ \A id \in Ids : ClassLen[id] = CPriv
BY KemAssumption, Sizes

(* Bytes of two things differ in the first one.                             *)
LEMMA BytesTell ==
  ASSUME NEW n \in Nat, n > 0, NEW a, NEW b
  PROVE  /\ Bytes(n, a)[0] = <<a, 0>> /\ DOMAIN Bytes(n, a) = 0 .. n - 1
         /\ Bytes(n, a) = Bytes(n, b) => a = b
<1>1. Bytes(n, a)[0] = <<a, 0>> /\ Bytes(n, b)[0] = <<b, 0>>  BY DEF Bytes
<1>2. DOMAIN Bytes(n, a) = 0 .. n - 1  BY DEF Bytes
<1>3. QED  BY <1>1, <1>2

(* No byte of a library's output is as the caller's buffer was.             *)
LEMMA NotZero ==
  ASSUME NEW a, NEW i
  PROVE  <<a, i>> # <<"zero">>
<1>1. DOMAIN <<a, i>> = 1 .. 2 /\ DOMAIN <<"zero">> = 1 .. 1  OBVIOUS
<1>2. QED  BY <1>1

(* m bytes of one thing and n of another.                                   *)
BytesOfTwo(m, a, n, b) ==
  [i \in 0 .. (m + n) - 1 |-> IF i < m THEN <<a, i>> ELSE <<b, i - m>>]

LEMMA Joined ==
  ASSUME NEW m \in Nat, NEW n \in Nat, NEW a, NEW b
  PROVE  Join(m, Bytes(m, a), n, Bytes(n, b)) = BytesOfTwo(m, a, n, b)
<1> DEFINE x == Bytes(m, a)  y == Bytes(n, b)  z == Zalloc(m + n)  D == 0 .. (m + n) - 1
           u == Memcpy(z, 0, x)  v == Memcpy(u, m, y)
<1>1. DOMAIN x = 0 .. m - 1 /\ (\A i \in 0 .. m - 1 : x[i] = <<a, i>>)  BY DEF Bytes
<1>2. DOMAIN y = 0 .. n - 1 /\ (\A i \in 0 .. n - 1 : y[i] = <<b, i>>)  BY DEF Bytes
<1>3. DOMAIN z = D  BY DEF Zalloc
<1> HIDE DEF x, y, z
<1>4. u = [i \in D |-> IF i - 0 \in 0 .. m - 1 THEN x[i - 0] ELSE z[i]]
  BY <1>1, <1>3 DEF Memcpy
<1>5. DOMAIN u = D /\ (\A i \in D : i < m => u[i] = <<a, i>>)
  <2>1. \A i \in D : i < m => i - 0 = i /\ i \in 0 .. m - 1  OBVIOUS
  <2>2. QED  BY <1>1, <1>4, <2>1
<1> HIDE DEF u
<1>6. v = [i \in D |-> IF i - m \in 0 .. n - 1 THEN y[i - m] ELSE u[i]]
  BY <1>2, <1>5 DEF Memcpy
<1>7. \A i \in D : v[i] = IF i < m THEN <<a, i>> ELSE <<b, i - m>>
  <2>1. \A i \in D : IF i < m THEN i - m \notin 0 .. n - 1 ELSE i - m \in 0 .. n - 1
    OBVIOUS
  <2>2. QED  BY <1>2, <1>5, <1>6, <2>1
<1> HIDE DEF v
<1>8. v = [i \in D |-> IF i < m THEN <<a, i>> ELSE <<b, i - m>>]
  BY <1>6, <1>7
<1>9. QED  BY <1>8 DEF v, u, x, y, z, Join, BytesOfTwo

(* What is to be read of them.                                              *)
HasTwo(c, m, a, n, b) ==
  /\ DOMAIN c = 0 .. (m + n) - 1 /\ IsBytes(c)
  /\ Slice(c, 0, m) = Bytes(m, a) /\ Slice(c, m, n) = Bytes(n, b)
  /\ \A i \in DOMAIN c : c[i] # <<"zero">>

LEMMA JoinSlices ==
  ASSUME NEW m \in Nat, NEW n \in Nat, NEW a, NEW b
  PROVE  HasTwo(Join(m, Bytes(m, a), n, Bytes(n, b)), m, a, n, b)
<1> DEFINE c == Join(m, Bytes(m, a), n, Bytes(n, b))
<1>1. c = [i \in 0 .. (m + n) - 1 |-> IF i < m THEN <<a, i>> ELSE <<b, i - m>>]
  <2>1. c = BytesOfTwo(m, a, n, b)  BY Joined
  <2> HIDE DEF c
  <2>2. QED  BY <2>1 DEF BytesOfTwo
<1> HIDE DEF c
<1>2. \A i \in 0 .. m - 1 : c[0 + i] = <<a, i>>
  <2>1. \A i \in 0 .. m - 1 : 0 + i = i /\ i \in 0 .. (m + n) - 1 /\ i < m  OBVIOUS
  <2>2. QED  BY <1>1, <2>1
<1>3. \A i \in 0 .. n - 1 : c[m + i] = <<b, i>>
  <2>1. \A i \in 0 .. n - 1 : m + i \in 0 .. (m + n) - 1 /\ ~(m + i < m) /\ (m + i) - m = i
    OBVIOUS
  <2>2. QED  BY <1>1, <2>1
<1>4. \A i \in DOMAIN c : c[i] # <<"zero">>
  BY <1>1, NotZero
<1>5. Slice(c, 0, m) = Bytes(m, a)  BY <1>2 DEF Slice, Bytes
<1>6. Slice(c, m, n) = Bytes(n, b)  BY <1>3 DEF Slice, Bytes
<1>7. DOMAIN c = 0 .. (m + n) - 1 /\ IsBytes(c)  BY <1>1 DEF IsBytes
<1>8. HasTwo(c, m, a, n, b)  BY <1>4, <1>5, <1>6, <1>7 DEF HasTwo
<1>9. QED  BY <1>8 DEF c

(* Bytes are what their two pieces are.                                     *)
LEMMA JoinOfSlices ==
  ASSUME NEW m \in Nat, NEW n \in Nat, NEW a, NEW b, NEW c,
         IsBytes(c), DOMAIN c = 0 .. (m + n) - 1,
         Slice(c, 0, m) = Bytes(m, a), Slice(c, m, n) = Bytes(n, b)
  PROVE  c = Join(m, Bytes(m, a), n, Bytes(n, b))
<1> DEFINE D == 0 .. (m + n) - 1
<1>1. \A i \in 0 .. m - 1 : c[0 + i] = <<a, i>>
  <2>1. \A i \in 0 .. m - 1 : Slice(c, 0, m)[i] = c[0 + i] /\ Bytes(m, a)[i] = <<a, i>>
    BY DEF Slice, Bytes
  <2>2. QED  BY <2>1
<1>2. \A i \in 0 .. n - 1 : c[m + i] = <<b, i>>
  <2>1. \A i \in 0 .. n - 1 : Slice(c, m, n)[i] = c[m + i] /\ Bytes(n, b)[i] = <<b, i>>
    BY DEF Slice, Bytes
  <2>2. QED  BY <2>1
<1>3. \A i \in D : c[i] = IF i < m THEN <<a, i>> ELSE <<b, i - m>>
  <2>1. \A i \in D : i < m => i \in 0 .. m - 1 /\ 0 + i = i  OBVIOUS
  <2>2. \A i \in D : ~(i < m) => i - m \in 0 .. n - 1 /\ m + (i - m) = i  OBVIOUS
  <2>3. QED  BY <1>1, <1>2, <2>1, <2>2
<1>4. c = [i \in D |-> c[i]]  BY DEF IsBytes
<1>5. c = [i \in D |-> IF i < m THEN <<a, i>> ELSE <<b, i - m>>]  BY <1>3, <1>4
<1>6. c = BytesOfTwo(m, a, n, b)  BY <1>5 DEF BytesOfTwo
<1>7. QED  BY <1>6, Joined

-----------------------------------------------------------------------------
(* Keys.                                                                    *)

LEMMA MadeOk ==
  ASSUME NEW ty \in Types, NEW id \in Ids, NEW parts, NEW ky, ky = MadeKey(ty, id, parts)
  PROVE  KeyOk(ky, id) /\ ky.ty = ty /\ ky.st = "ready"
<1>1. /\ ky.ty = ty /\ ky.st = "ready"
      /\ ky.priv = IF "priv" \in parts THEN PrivLayout(ty, id) ELSE NoBuf
      /\ ky.pub = IF "pub" \in parts THEN PubLayout(ty, id) ELSE NoBuf
      /\ ky.compPriv = IF "priv" \in parts THEN CompsOf(ty, ClassLen[id]) ELSE NoComps
      /\ ky.compPub = IF "pub" \in parts THEN CompsOf(ty, CPub) ELSE NoComps
  BY DEF MadeKey
<1>2. PubOk(ky, id)  BY <1>1 DEF PubOk
<1>3. PrivOk(ky, id)  BY <1>1 DEF PrivOk
<1>4. QED  BY <1>1, <1>2, <1>3 DEF KeyOk

(* The point of one key set in a key of another pair: the first pair's, and *)
(* nothing private.                                                         *)
LEMMA PointSet ==
  ASSUME NEW ty \in Types, NEW id \in Ids, NEW e \in Ids, NEW from, NEW ky,
         from.ty = ty, from.pub = PubLayout(ty, id),
         ky = SetEncodedPub(KeyGen(ty, e), PointBytes(from))
  PROVE  KeyOk(ky, id)
<1> DEFINE new == KeyGen(ty, e)  p == PointLayout(ty, id)
<1>1. PointBytes(from) = p  BY PointRead
<1>2. new = MadeKey(ty, e, {"priv", "pub"})  BY KeyGenMakes
<1>3. /\ DOMAIN new = {"ty", "st", "priv", "pub", "compPriv", "compPub", "pkey"}
      /\ new.ty = ty /\ new.pub = PubLayout(ty, e) /\ new.compPub = CompsOf(ty, CPub)
  BY <1>2 DEF MadeKey
<1>4. ky = SetEncodedPub(new, p)  BY <1>1
<1> HIDE DEF new, p
<1>5. ASSUME ty # "HYB_KEM"  PROVE KeyOk(ky, id)
  <2>1. ky = [new EXCEPT !.st = "pubset", !.pub = p, !.priv = NoBuf]
    BY <1>3, <1>4, <1>5 DEF SetEncodedPub
  <2>2. ky.st = "pubset" /\ ky.pub = p /\ ky.priv = NoBuf /\ ky.ty = ty
        /\ ky.compPub = CompsOf(ty, CPub)
    BY <1>3, <2>1
  <2>3. p = PubLayout(ty, id)  BY <1>5 DEF p, PointLayout
  <2>4. QED  BY <2>2, <2>3 DEF KeyOk, PubOk, PrivOk
<1>6. ASSUME ty = "HYB_KEM"  PROVE KeyOk(ky, id)
  <2>1. CompsOf(ty, CPub).cl = SizeOfUint32 /\ SizeOfUint32 \notin {NULL, Heap}
    BY <1>6, Sizes DEF CompsOf, Hybrid, NULL, Heap
  <2>2. ky = [new EXCEPT !.st = "pubset", !.priv = NoBuf,
                         !.pub = Memcpy(@, SizeOfUint32, p)]
    BY <1>3, <1>4, <1>6, <2>1 DEF SetEncodedPub
  <2>3. ky.st = "pubset" /\ ky.priv = NoBuf /\ ky.ty = ty /\ ky.compPub = CompsOf(ty, CPub)
        /\ ky.pub = Memcpy(PubLayout(ty, e), SizeOfUint32, p)
    BY <1>3, <2>2
  <2>4. ky.pub = PubLayout(ty, id)  BY <1>6, <2>3, PointWritten DEF p
  <2>5. QED  BY <2>3, <2>4 DEF KeyOk, PubOk, PrivOk
<1>7. QED  BY <1>5, <1>6

(* Whatever way a key is given away, what is made of it is of its pair.     *)
LEMMA CopyOk ==
  ASSUME NEW k \in Keys, NEW how \in {"spki", "pki", "point"}, NEW ky \in Copies(k, how),
         KeyOk(key[k], of[k]), key[k].st # "none"
  PROVE  KeyOk(ky, of[k])
<1> DEFINE from == key[k]  ty == from.ty  id == of[k]
<1>1. ty \in Types /\ id \in Ids /\ PubOk(from, id) /\ PrivOk(from, id)  BY DEF KeyOk
<1>2. ASSUME how = "spki"  PROVE KeyOk(ky, id)
  <2>1. from.pub # NoBuf /\ ky \in KeyOpPublic(ty, from.pub)  BY <1>2 DEF Copies
  <2>2. from.pub = PubLayout(ty, id)  BY <1>1, <2>1 DEF PubOk
  <2>3. ky = MadeKey(ty, id, {"pub"})  BY <1>1, <2>1, <2>2, SpkiRead
  <2>4. QED  BY <1>1, <2>3, MadeOk
<1>3. ASSUME how = "pki"  PROVE KeyOk(ky, id)
  <2>1. from.pub # NoBuf /\ from.priv # NoBuf /\ ky \in KeyOpPrivate(ty, PkiPrivBytes(from))
    BY <1>3 DEF Copies
  <2>2. from.pub = PubLayout(ty, id) /\ from.compPub = CompsOf(ty, CPub)
        /\ from.priv = PrivLayout(ty, id)
    BY <1>1, <2>1 DEF PubOk, PrivOk
  <2>3. PkiPrivBytes(from) = PkiLayout(ty, id)  BY <1>1, <2>2, PkiWritten
  <2>4. ky = MadeKey(ty, id, PkiParts)  BY <1>1, <2>1, <2>3, PkiRead
  <2>5. QED  BY <1>1, <2>4, MadeOk
<1>4. ASSUME how = "point"  PROVE KeyOk(ky, id)
  <2>1. from.pub # NoBuf
        /\ \E e \in Ids : ky = SetEncodedPub(KeyGen(ty, e), PointBytes(from))
    BY <1>4 DEF Copies
  <2>2. from.pub = PubLayout(ty, id)  BY <1>1, <2>1 DEF PubOk
  <2>3. PICK e \in Ids : ky = SetEncodedPub(KeyGen(ty, e), PointBytes(from))  BY <2>1
  <2>4. QED  BY <1>1, <2>2, <2>3, PointSet
<1>5. QED  BY <1>2, <1>3, <1>4

(* What the libraries find behind the pointers of a key.                    *)
LEMMA PubFound ==
  ASSUME NEW k \in Keys, KeyOk(key[k], of[k]), key[k].pub # NoBuf
  PROVE  /\ key[k].ty \in Types /\ of[k] \in Ids /\ OqsPub(k) = of[k]
         /\ Hybrid(key[k].ty) => ClassicPub(k) = of[k]
<1> DEFINE ty == key[k].ty  id == of[k]
<1>1. ty \in Types /\ id \in Ids /\ key[k].pub = PubLayout(ty, id)
      /\ key[k].compPub = CompsOf(ty, CPub)
  BY DEF KeyOk, PubOk
<1>2. Owner("qpub", Part("qpub", id)) = id /\ Owner("cpub", Part("cpub", id)) = id
  BY <1>1, OnePair
<1>3. CASE Hybrid(ty)
  <2>1. CompsOf(ty, CPub).cl = SizeOfUint32 /\ CompsOf(ty, CPub).oqs = SizeOfUint32 + CPub
    BY <1>3 DEF CompsOf
  <2>2. /\ Slice(key[k].pub, key[k].compPub.cl, CPub) = Part("cpub", id)
        /\ Slice(key[k].pub, key[k].compPub.oqs, QPub) = Part("qpub", id)
    BY <1>1, <1>3, <2>1, HybridPieces
  <2>3. QED  BY <1>1, <1>2, <2>2 DEF OqsPub, ClassicPub
<1>4. CASE ~Hybrid(ty)
  <2>1. CompsOf(ty, CPub).oqs = 0  BY <1>4 DEF CompsOf
  <2>2. Slice(key[k].pub, key[k].compPub.oqs, QPub) = Part("qpub", id)
    BY <1>1, <1>4, <2>1, PlainPieces
  <2>3. QED  BY <1>1, <1>2, <1>4, <2>2 DEF OqsPub
<1>5. QED  BY <1>3, <1>4

LEMMA PrivFound ==
  ASSUME NEW k \in Keys, KeyOk(key[k], of[k]), key[k].priv # NoBuf
  PROVE  /\ key[k].ty \in Types /\ of[k] \in Ids /\ OqsPriv(k) = of[k]
         /\ Hybrid(key[k].ty) => ClassicPriv(k) = of[k]
<1> DEFINE ty == key[k].ty  id == of[k]
<1>1. ty \in Types /\ id \in Ids /\ key[k].priv = PrivLayout(ty, id)
      /\ key[k].compPriv = CompsOf(ty, ClassLen[id])
  BY DEF KeyOk, PrivOk
<1>2. Owner("qpriv", Part("qpriv", id)) = id /\ Owner("cpriv", Part("cpriv", id)) = id
  BY <1>1, OnePair
<1>3. CASE Hybrid(ty)
  <2>1. /\ CompsOf(ty, ClassLen[id]).cl = SizeOfUint32
        /\ CompsOf(ty, ClassLen[id]).oqs = SizeOfUint32 + ClassLen[id]
    BY <1>3 DEF CompsOf
  <2>2. ClassLen[id] = CPriv  BY <1>1, Lengths
  <2>3. Slice(key[k].priv, key[k].compPriv.cl, CPriv) = Part("cpriv", id)
    BY <1>1, <1>3, <2>1, <2>2, HybridPieces
  <2>4. Slice(key[k].priv, key[k].compPriv.oqs, QPriv) = Part("qpriv", id)
    BY <1>1, <1>3, <2>1, HybridPieces
  <2>5. QED  BY <1>1, <1>2, <2>3, <2>4 DEF OqsPriv, ClassicPriv
<1>4. CASE ~Hybrid(ty)
  <2>1. CompsOf(ty, ClassLen[id]).oqs = 0  BY <1>4 DEF CompsOf
  <2>2. Slice(key[k].priv, key[k].compPriv.oqs, QPriv) = Part("qpriv", id)
    BY <1>1, <1>4, <2>1, PlainPieces
  <2>3. QED  BY <1>1, <1>2, <1>4, <2>2 DEF OqsPriv
<1>5. QED  BY <1>3, <1>4

-----------------------------------------------------------------------------
(* The steps.                                                               *)

LEMMA InitHolds == Init => IInv
<1> SUFFICES ASSUME Init PROVE IInv  OBVIOUS
<1>1. Unused.st = "none" /\ Unused.pub = NoBuf /\ Unused.priv = NoBuf
  BY DEF Unused, OqsxKeyNew
<1>2. OnKeys(key) /\ OnKeys(of) /\ OnRuns(run)  BY DEF Init, OnKeys, OnRuns
<1>3. ASSUME NEW k \in Keys  PROVE KeyOk(key[k], of[k])
  <2>1. key[k] = Unused  BY DEF Init
  <2>2. QED  BY <1>1, <2>1 DEF KeyOk
<1>4. \A r \in Runs : RunOk(run[r], r)  BY DEF Init, RunOk
<1>5. OutOk(out)  BY DEF Init, OutOk
<1>6. QED  BY <1>2, <1>3, <1>4, <1>5 DEF IInv, KeysInv, RunsInv

(* One key object is replaced.                                              *)
LEMMA KeyStep ==
  ASSUME IInv, NEW k \in Keys, NEW ky, NEW id, KeyOk(ky, id),
         key' = [key EXCEPT ![k] = ky], of' = [of EXCEPT ![k] = id],
         UNCHANGED <<run, out>>
  PROVE  IInv'
<1>1. /\ OnKeys(key)' /\ OnKeys(of)'
      /\ \A l \in Keys : /\ key'[l] = IF l = k THEN ky ELSE key[l]
                         /\ of'[l] = IF l = k THEN id ELSE of[l]
  BY DEF IInv, KeysInv, OnKeys
<1>2. KeysInv'  BY <1>1 DEF IInv, KeysInv
<1>3. RunsInv'  BY DEF IInv, RunsInv, OnRuns
<1>4. OutOk(out)'  BY DEF IInv
<1>5. QED  BY <1>2, <1>3, <1>4 DEF IInv

LEMMA GenKeeps ==
  ASSUME IInv, NEW k \in Keys, NEW ty \in Types, NEW id \in Ids, Gen(k, ty, id)
  PROVE  IInv'
<1>1. KeyOk(KeyGen(ty, id), id)  BY KeyGenMakes, MadeOk
<1>2. QED  BY <1>1, KeyStep DEF Gen

LEMMA GiveKeeps ==
  ASSUME IInv, NEW k \in Keys, NEW l \in Keys, NEW how \in {"spki", "pki", "point"},
         Give(k, l, how)
  PROVE  IInv'
<1>1. PICK ky \in Copies(k, how) : key' = [key EXCEPT ![l] = ky]  BY DEF Give
<1>2. key[k].st # "none" /\ of' = [of EXCEPT ![l] = of[k]] /\ UNCHANGED <<run, out>>
  BY DEF Give
<1>3. KeyOk(ky, of[k])
  <2>1. KeyOk(key[k], of[k])  BY DEF IInv, KeysInv
  <2>2. QED  BY <1>2, <2>1, CopyOk
<1>4. QED  BY <1>1, <1>2, <1>3, KeyStep

LEMMA FreeKeeps ==
  ASSUME IInv, NEW k \in Keys, Free(k)
  PROVE  IInv'
<1>1. KeyOk(Unused, Nobody)
  <2>1. Unused.st = "none" /\ Unused.pub = NoBuf /\ Unused.priv = NoBuf
    BY DEF Unused, OqsxKeyNew
  <2>2. QED  BY <2>1 DEF KeyOk
<1>2. QED  BY <1>1, KeyStep DEF Free

LEMMA EncapsKeeps ==
  ASSUME IInv, NEW k \in Keys, NEW r \in Runs, Encaps(k, r)
  PROVE  IInv'
<1> DEFINE ty == key[k].ty  id == of[k]
           res == IF Hybrid(ty) THEN HybEncaps(k, r) ELSE QsEncaps(k, r)
           new == [ty |-> ty, id |-> id, ct |-> res.ct, secret |-> res.secret]
<1>1. key[k].pub # NoBuf /\ run' = [run EXCEPT ![r] = new] /\ UNCHANGED <<key, of, out>>
  BY DEF Encaps
<1>2. ty \in Types /\ id \in Ids /\ OqsPub(k) = id /\ (Hybrid(ty) => ClassicPub(k) = id)
  BY <1>1, PubFound DEF IInv, KeysInv
<1>3. QsEncaps(k, r).ct = OqsCt(id, r) /\ QsEncaps(k, r).secret = OqsSecret(id, r)
  BY <1>2 DEF QsEncaps
<1>4. Hybrid(ty) => EvpEncaps(k, r).ct = EphPub(r) /\ EvpEncaps(k, r).secret = Kex(id, r)
  BY <1>2 DEF EvpEncaps
<1>5. res.ct = CtOf(ty, id, r) /\ res.secret = SecretOf(ty, id, r)
  BY <1>3, <1>4 DEF HybEncaps, CtOf, SecretOf
<1>6. RunOk(new, r)
  <2> HIDE DEF res
  <2>1. QED  BY <1>2, <1>5 DEF RunOk
<1> HIDE DEF new, res
<1>7. OnRuns(run)' /\ \A s \in Runs : run'[s] = IF s = r THEN new ELSE run[s]
  BY <1>1 DEF IInv, RunsInv, OnRuns
<1>8. RunsInv'  BY <1>6, <1>7 DEF IInv, RunsInv
<1>9. KeysInv' /\ OutOk(out)'  BY <1>1 DEF IInv, KeysInv, OnKeys
<1>10. QED  BY <1>8, <1>9 DEF IInv

(* Everything that arrives is a string of bytes.                            *)
LEMMA ArrivingBytes ==
  ASSUME RunsInv, NEW ty, NEW ct \in Arriving(ty)
  PROVE  IsBytes(ct)
<1> DEFINE sent == {run[r].ct : r \in {s \in Runs : run[s] # NoRun /\ run[s].ty = ty}}
<1>1. ASSUME NEW x \in sent  PROVE IsBytes(x)
  <2>1. PICK r \in Runs : x = run[r].ct /\ run[r] # NoRun  OBVIOUS
  <2>2. x = CtOf(run[r].ty, run[r].id, r)  BY <2>1 DEF RunsInv, RunOk
  <2>3. CASE Hybrid(run[r].ty)
    BY <2>2, <2>3 DEF CtOf, Join, Memcpy, IsBytes
  <2>4. CASE ~Hybrid(run[r].ty)
    BY <2>2, <2>4 DEF CtOf, OqsCt, Bytes, IsBytes
  <2>5. QED  BY <2>3, <2>4
<1>2. \A x, y, n : IsBytes(Slice(x, y, n)) /\ IsBytes(Memcpy(x, n, y))
  BY DEF Slice, Memcpy, IsBytes
<1>3. \/ ct \in sent
      \/ \E x, n : ct = Slice(x, 0, n)
      \/ \E x, y : ct = Memcpy(x, 0, y)
  BY DEF Arriving
<1>4. QED  BY <1>1, <1>2, <1>3

LEMMA DecapsKeeps ==
  ASSUME IInv, NEW k \in Keys, NEW ct \in Arriving(key[k].ty), Decaps(k, ct)
  PROVE  IInv'
<1> DEFINE ty == key[k].ty  id == of[k]
           s == IF Hybrid(ty) THEN HybDecaps(k, ct) ELSE QsDecaps(k, Slice(ct, 0, QCt))
           new == [ty |-> ty, id |-> id, ct |-> ct, secret |-> s]
<1>1. key[k].priv # NoBuf /\ out' = new /\ UNCHANGED <<key, of, run>>
  BY DEF Decaps
<1>2. ty \in Types /\ id \in Ids /\ OqsPriv(k) = id /\ (Hybrid(ty) => ClassicPriv(k) = id)
  BY <1>1, PrivFound DEF IInv, KeysInv
<1>3. \A x : QsDecaps(k, x) = OqsDecaps(id, x)  BY <1>2 DEF QsDecaps
<1>4. ASSUME Hybrid(ty)  PROVE HybDecaps(k, ct) = HybGot(id, ct)
  <2> DEFINE eph == {r \in Runs : Slice(ct, 0, CPub) = EphPub(r)}
             q == OqsDecaps(id, Slice(ct, CPub, QCt))
             kex == Kex(id, CHOOSE r \in eph : TRUE)
             secret0 == EvpDecaps(k, Slice(ct, 0, CPub))
  <2>1. id # Nobody  BY <1>2, KemAssumption
  <2>2. secret0 = IF eph = {} THEN Failed ELSE kex
    BY <1>2, <1>4, <2>1 DEF EvpDecaps
  <2>3. kex # Failed
    <3>1. DOMAIN kex = 0 .. CSec - 1  BY DEF Kex, Bytes
    <3>2. 0 \in DOMAIN kex  BY <3>1, Lengths
    <3>3. DOMAIN Failed = {}  BY DEF Failed
    <3>4. QED  BY <3>2, <3>3
  <2>4. CtLen("HYB_KEM") = CPub + QCt  BY DEF CtLen, Hybrid
  <2>5. HybDecaps(k, ct) = IF DOMAIN ct # 0 .. (CPub + QCt) - 1 THEN Failed
                           ELSE IF secret0 = Failed THEN Failed
                           ELSE Join(CSec, secret0, QSec, q)
    <3> DEFINE p == QsDecaps(k, Slice(ct, CPub, QCt))  n == CtLen("HYB_KEM")
    <3>1. HybDecaps(k, ct) = IF DOMAIN ct # 0 .. n - 1 THEN Failed
                             ELSE IF secret0 = Failed THEN Failed
                             ELSE Join(CSec, secret0, QSec, p)
      BY DEF HybDecaps
    <3>2. p = q /\ n = CPub + QCt  BY <1>3, <2>4
    <3> HIDE DEF p, n, q, secret0
    <3>3. QED  BY <3>1, <3>2
  <2>6. HybGot(id, ct) = IF DOMAIN ct # 0 .. (CPub + QCt) - 1 \/ eph = {} THEN Failed
                         ELSE Join(CSec, kex, QSec, q)
    BY DEF HybGot
  <2> HIDE DEF eph, q, kex, secret0
  <2>7. QED  BY <2>2, <2>3, <2>5, <2>6
<1>5. s = Got(ty, id, ct)  BY <1>3, <1>4 DEF Got
<1>6. IsBytes(ct)  BY ArrivingBytes DEF IInv
<1> HIDE DEF s
<1>7. OutOk(new)  BY <1>2, <1>5, <1>6 DEF OutOk
<1> HIDE DEF new
<1>8. OutOk(out)'  BY <1>1, <1>7
<1>9. KeysInv'  BY <1>1 DEF IInv, KeysInv, OnKeys
<1>10. RunsInv'  BY <1>1 DEF IInv, RunsInv, OnRuns
<1>11. QED  BY <1>8, <1>9, <1>10 DEF IInv

LEMMA NextKeeps == IInv /\ [Next]_vars => IInv'
<1> SUFFICES ASSUME IInv, [Next]_vars PROVE IInv'  OBVIOUS
<1>1. ASSUME NEW k \in Keys, NEW ty \in Types, NEW id \in Ids, Gen(k, ty, id)  PROVE IInv'
  BY <1>1, GenKeeps
<1>2. ASSUME NEW k \in Keys, NEW l \in Keys, NEW how \in {"spki", "pki", "point"},
             Give(k, l, how)
      PROVE  IInv'
  BY <1>2, GiveKeeps
<1>3. ASSUME NEW k \in Keys, Free(k)  PROVE IInv'  BY <1>3, FreeKeeps
<1>4. ASSUME NEW k \in Keys, NEW r \in Runs, Encaps(k, r)  PROVE IInv'  BY <1>4, EncapsKeeps
<1>5. ASSUME NEW k \in Keys, NEW ct \in Arriving(key[k].ty), Decaps(k, ct)  PROVE IInv'
  BY <1>5, DecapsKeeps
<1>6. CASE UNCHANGED vars
  <2>1. KeysInv'  BY <1>6 DEF vars, IInv, KeysInv, OnKeys
  <2>2. RunsInv'  BY <1>6 DEF vars, IInv, RunsInv, OnRuns
  <2>3. OutOk(out)'  BY <1>6 DEF vars, IInv
  <2>4. QED  BY <2>1, <2>2, <2>3 DEF IInv
<1>7. QED  BY <1>1, <1>2, <1>3, <1>4, <1>5, <1>6 DEF Next

-----------------------------------------------------------------------------
(* Every key object holds halves of the pair it stands for where they are   *)
(* read, every run and every decapsulation gave what its pair and its       *)
(* ciphertext determine.                                                    *)
THEOREM KemInvariant == Spec => []IInv
<1>1. QED  BY InitHolds, NextKeeps, PTL DEF Spec

-----------------------------------------------------------------------------
(* What the bytes of a library tell of what went into them.                 *)
LEMMA Tells ==
  /\ \A r, s : EphPub(r) = EphPub(s) => r = s
  /\ \A id, jd, r, s : Kex(id, r) = Kex(jd, s) => id = jd /\ r = s
  /\ \A id, jd, r, s : OqsCt(id, r) = OqsCt(jd, s) => id = jd /\ r = s
  /\ \A id, jd, r, s : OqsSecret(id, r) = OqsSecret(jd, s) => id = jd /\ r = s
  /\ \A id, jd, r, ct : OqsRejected(id, ct) # OqsSecret(jd, r)
<1>1. \A r, s : EphPub(r) = EphPub(s) => <<"eph", r>> = <<"eph", s>>
  BY BytesTell, Lengths DEF EphPub
<1>2. \A id, jd, r, s : Kex(id, r) = Kex(jd, s) => <<"kex", id, r>> = <<"kex", jd, s>>
  BY BytesTell, Lengths DEF Kex
<1>3. \A id, jd, r, s : OqsCt(id, r) = OqsCt(jd, s) => <<"ct", id, r>> = <<"ct", jd, s>>
  BY BytesTell, Lengths DEF OqsCt
<1>4. \A id, jd, r, s : OqsSecret(id, r) = OqsSecret(jd, s) => <<"ss", id, r>> = <<"ss", jd, s>>
  BY BytesTell, Lengths DEF OqsSecret
<1>5. \A id, jd, r, ct : OqsRejected(id, ct) = OqsSecret(jd, r)
                         => <<"rejected", id, ct>> = <<"ss", jd, r>>
  BY BytesTell, Lengths DEF OqsRejected, OqsSecret
<1>6. \A id, jd, r, ct : <<"rejected", id, ct>> # <<"ss", jd, r>>  OBVIOUS
<1>7. QED  BY <1>1, <1>2, <1>3, <1>4, <1>5, <1>6

(* The private key of the pair gives the secret of the run.                 *)
LEMMA DecapsOwn ==
  ASSUME NEW id, NEW r \in Runs
  PROVE  OqsDecaps(id, OqsCt(id, r)) = OqsSecret(id, r)
<1> DEFINE c == CHOOSE s \in Runs : OqsCt(id, r) = OqsCt(id, s)
<1>1. c \in Runs /\ OqsCt(id, r) = OqsCt(id, c)  OBVIOUS
<1>2. c = r  BY <1>1, Tells
<1>3. OqsDecaps(id, OqsCt(id, r)) = OqsSecret(id, c)  BY DEF OqsDecaps
<1> HIDE DEF c
<1>4. QED  BY <1>2, <1>3

LEMMA GotOwn ==
  ASSUME NEW ty, NEW id \in Ids, NEW r \in Runs
  PROVE  Got(ty, id, CtOf(ty, id, r)) = SecretOf(ty, id, r)
<1> DEFINE ct == CtOf(ty, id, r)
<1>1. CASE Hybrid(ty)
  <2> DEFINE eph == {s \in Runs : Slice(ct, 0, CPub) = EphPub(s)}
  <2>1. ct = Join(CPub, Bytes(CPub, <<"eph", r>>), QCt, Bytes(QCt, <<"ct", id, r>>))
    BY <1>1 DEF CtOf, EphPub, OqsCt
  <2>2. /\ DOMAIN ct = 0 .. (CPub + QCt) - 1
        /\ Slice(ct, 0, CPub) = EphPub(r) /\ Slice(ct, CPub, QCt) = OqsCt(id, r)
    <3>1. HasTwo(ct, CPub, <<"eph", r>>, QCt, <<"ct", id, r>>)
      BY <2>1, JoinSlices, Lengths
    <3> HIDE DEF ct
    <3>2. QED  BY <3>1 DEF HasTwo, EphPub, OqsCt
  <2> HIDE DEF ct
  <2>3. eph = {r}  BY <2>2, Tells
  <2>4. (CHOOSE s \in eph : TRUE) = r  BY <2>3
  <2>5. HybGot(id, ct) = IF DOMAIN ct # 0 .. (CPub + QCt) - 1 \/ eph = {} THEN Failed
                         ELSE Join(CSec, Kex(id, CHOOSE s \in eph : TRUE),
                                   QSec, OqsDecaps(id, Slice(ct, CPub, QCt)))
    BY DEF HybGot
  <2> HIDE DEF eph
  <2>6. HybGot(id, ct) = Join(CSec, Kex(id, r), QSec, OqsSecret(id, r))
    BY <2>2, <2>3, <2>4, <2>5, DecapsOwn
  <2>7. QED  BY <1>1, <2>6 DEF Got, SecretOf, ct
<1>2. CASE ~Hybrid(ty)
  <2>1. ct = OqsCt(id, r)  BY <1>2 DEF CtOf
  <2>2. Slice(OqsCt(id, r), 0, QCt) = OqsCt(id, r)
    <3> DEFINE x == OqsCt(id, r)
    <3>1. x = [i \in 0 .. QCt - 1 |-> <<<<"ct", id, r>>, i>>]  BY DEF OqsCt, Bytes
    <3>2. \A i \in 0 .. QCt - 1 : x[0 + i] = <<<<"ct", id, r>>, i>>
      <4>1. \A i \in 0 .. QCt - 1 : 0 + i = i  BY Lengths
      <4>2. QED  BY <3>1, <4>1
    <3>3. Slice(x, 0, QCt) = [i \in 0 .. QCt - 1 |-> <<<<"ct", id, r>>, i>>]
      <4> HIDE DEF x
      <4>1. QED  BY <3>2 DEF Slice
    <3>4. QED  BY <3>1, <3>3
  <2>3. QED  BY <1>2, <2>1, <2>2, DecapsOwn DEF Got, SecretOf
<1>3. QED  BY <1>1, <1>2

(* The private key of the pair a run was for gives its secret from its      *)
(* ciphertext, whatever way both keys came.                                 *)
THEOREM SecretsAgreeHolds == Spec => []SecretsAgree
<1>1. IInv => SecretsAgree
  <2> SUFFICES ASSUME IInv, NEW r \in Runs, out # NoRun, out.ty = run[r].ty,
                      out.ct = run[r].ct, out.id = run[r].id
               PROVE  out.secret = run[r].secret
    BY DEF SecretsAgree
  <2>1. /\ out.ty \in Types /\ out.id \in Ids /\ out.secret = Got(out.ty, out.id, out.ct)
        /\ RunOk(run[r], r)
    BY DEF IInv, OutOk, RunsInv
  <2>2. run[r] # NoRun
    <3>1. NoRun.ty = "none"  BY DEF NoRun
    <3>2. QED  BY <2>1, <3>1, KemAssumption
  <2>3. /\ run[r].ct = CtOf(out.ty, out.id, r)
        /\ run[r].secret = SecretOf(out.ty, out.id, r)
    BY <2>1, <2>2 DEF RunOk
  <2>4. QED  BY <2>1, <2>3, GotOwn
<1>2. QED  BY <1>1, KemInvariant, PTL

(* A hybrid secret tells the pair and, byte by byte, the ciphertext.        *)
LEMMA HybBinds ==
  ASSUME NEW id \in Ids, NEW jd \in Ids, NEW ct, IsBytes(ct),
         NEW r \in Runs, HybGot(id, ct) # Failed,
         HybGot(id, ct) = SecretOf("HYB_KEM", jd, r)
  PROVE  id = jd /\ ct = CtOf("HYB_KEM", jd, r)
<1> DEFINE eph == {s \in Runs : Slice(ct, 0, CPub) = EphPub(s)}
           e == CHOOSE s \in eph : TRUE
           q == Slice(ct, CPub, QCt)
           d == OqsDecaps(id, q)
<1>1. /\ DOMAIN ct = 0 .. (CPub + QCt) - 1 /\ eph # {}
      /\ HybGot(id, ct) = Join(CSec, Kex(id, e), QSec, d)
  BY DEF HybGot
<1>2. e \in Runs /\ Slice(ct, 0, CPub) = EphPub(e)  BY <1>1
<1>3. Hybrid("HYB_KEM")  BY DEF Hybrid
<1>4. \/ \E s \in Runs : q = OqsCt(id, s) /\ d = OqsSecret(id, s)
      \/ d = OqsRejected(id, q)
  <2> DEFINE s == CHOOSE t \in Runs : q = OqsCt(id, t)
  <2>1. CASE \E t \in Runs : q = OqsCt(id, t)
    <3>1. s \in Runs /\ q = OqsCt(id, s)  BY <2>1
    <3>2. d = OqsSecret(id, s)
      <4> HIDE DEF q
      <4>1. QED  BY <2>1 DEF OqsDecaps
    <3> HIDE DEF s, q, d
    <3>3. QED  BY <3>1, <3>2
  <2>2. CASE ~ \E t \in Runs : q = OqsCt(id, t)
    <3> HIDE DEF q
    <3>1. QED  BY <2>2 DEF OqsDecaps
  <2>3. QED  BY <2>1, <2>2
<1>5. PICK w : d = Bytes(QSec, w)  BY <1>4 DEF OqsSecret, OqsRejected
<1> HIDE DEF eph, e, q, d
<1>6. Join(CSec, Kex(id, e), QSec, d) = Join(CSec, Kex(jd, r), QSec, OqsSecret(jd, r))
  BY <1>1, <1>3 DEF SecretOf
<1>7. /\ Slice(Join(CSec, Kex(id, e), QSec, d), 0, CSec) = Kex(id, e)
      /\ Slice(Join(CSec, Kex(id, e), QSec, d), CSec, QSec) = d
  <2>1. HasTwo(Join(CSec, Kex(id, e), QSec, d), CSec, <<"kex", id, e>>, QSec, w)
    BY <1>5, JoinSlices, Lengths DEF Kex
  <2>2. QED  BY <1>5, <2>1 DEF HasTwo, Kex
<1>8. /\ Slice(Join(CSec, Kex(jd, r), QSec, OqsSecret(jd, r)), 0, CSec) = Kex(jd, r)
      /\ Slice(Join(CSec, Kex(jd, r), QSec, OqsSecret(jd, r)), CSec, QSec) = OqsSecret(jd, r)
  <2>1. HasTwo(Join(CSec, Kex(jd, r), QSec, OqsSecret(jd, r)),
               CSec, <<"kex", jd, r>>, QSec, <<"ss", jd, r>>)
    BY JoinSlices, Lengths DEF Kex, OqsSecret
  <2>2. QED  BY <2>1 DEF HasTwo, Kex, OqsSecret
<1>9. id = jd /\ e = r /\ d = OqsSecret(jd, r)
  <2>1. Kex(id, e) = Kex(jd, r) /\ d = OqsSecret(jd, r)  BY <1>6, <1>7, <1>8
  <2>2. QED  BY <2>1, Tells
<1>10. q = OqsCt(jd, r)
  <2>1. d # OqsRejected(id, q)  BY <1>9, Tells
  <2>2. PICK s \in Runs : q = OqsCt(id, s) /\ d = OqsSecret(id, s)  BY <1>4, <2>1
  <2>3. s = r
    <3>1. OqsSecret(id, s) = OqsSecret(jd, r)  BY <1>9, <2>2
    <3>2. QED  BY <3>1, Tells
  <2>4. QED  BY <1>9, <2>2, <2>3
<1>11. ct = Join(CPub, EphPub(r), QCt, OqsCt(jd, r))
  <2>1. Slice(ct, 0, CPub) = Bytes(CPub, <<"eph", r>>)  BY <1>2, <1>9 DEF EphPub
  <2>2. Slice(ct, CPub, QCt) = Bytes(QCt, <<"ct", jd, r>>)  BY <1>10 DEF q, OqsCt
  <2>3. ct = Join(CPub, Bytes(CPub, <<"eph", r>>), QCt, Bytes(QCt, <<"ct", jd, r>>))
    BY <1>1, <2>1, <2>2, JoinOfSlices, Lengths
  <2>4. QED  BY <2>3 DEF EphPub, OqsCt
<1>12. QED  BY <1>3, <1>9, <1>11 DEF CtOf

(* No other pair and no other ciphertext gives the secret of a hybrid run,  *)
(* nor does a plain run give a hybrid's.                                    *)
THEOREM SecretsBindHolds == Spec => []SecretsBind
<1>1. IInv => SecretsBind
  <2> SUFFICES ASSUME IInv, NEW r \in Runs, Hybrid(out.ty), out.secret # Failed,
                      out.secret = run[r].secret
               PROVE  out.id = run[r].id /\ out.ct = run[r].ct
    BY DEF SecretsBind
  <2>1. NoRun.ty = "none" /\ NoRun.secret = Failed  BY DEF NoRun
  <2>2. /\ out.ty = "HYB_KEM" /\ out.id \in Ids /\ IsBytes(out.ct)
        /\ out.secret = HybGot(out.id, out.ct)
    BY <2>1, KemAssumption DEF IInv, OutOk, Got, Hybrid
  <2>3. /\ run[r].ty \in Types /\ run[r].id \in Ids
        /\ run[r].ct = CtOf(run[r].ty, run[r].id, r)
        /\ run[r].secret = SecretOf(run[r].ty, run[r].id, r)
    BY <2>1 DEF IInv, RunsInv, RunOk
  <2>4. Hybrid(run[r].ty)
    <3> SUFFICES ASSUME ~Hybrid(run[r].ty) PROVE FALSE  OBVIOUS
    <3> DEFINE id == run[r].id
               eph == {s \in Runs : Slice(out.ct, 0, CPub) = EphPub(s)}
               e == CHOOSE s \in eph : TRUE
               d == OqsDecaps(out.id, Slice(out.ct, CPub, QCt))
    <3>1. out.secret = OqsSecret(id, r)  BY <2>3 DEF SecretOf
    <3>2. out.secret = Join(CSec, Kex(out.id, e), QSec, d)  BY <2>2 DEF HybGot
    <3>3. \E w : d = Bytes(QSec, w)  BY DEF OqsDecaps, OqsSecret, OqsRejected
    <3> HIDE DEF d, e
    <3>4. Slice(out.secret, 0, CSec) = Kex(out.id, e)
      <4>1. PICK w : d = Bytes(QSec, w)  BY <3>3
      <4>2. HasTwo(Join(CSec, Kex(out.id, e), QSec, d), CSec, <<"kex", out.id, e>>, QSec, w)
        BY <4>1, JoinSlices, Lengths DEF Kex
      <4>3. QED  BY <3>2, <4>2 DEF HasTwo, Kex
    <3>5. Slice(out.secret, 0, CSec)[0] = out.secret[0]  BY Lengths DEF Slice
    <3>6. Kex(out.id, e)[0] = <<<<"kex", out.id, e>>, 0>>  BY Lengths, BytesTell DEF Kex
    <3>7. OqsSecret(id, r)[0] = <<<<"ss", id, r>>, 0>>  BY Lengths, BytesTell DEF OqsSecret
    <3>8. <<<<"ss", id, r>>, 0>> # <<<<"kex", out.id, e>>, 0>>  OBVIOUS
    <3>9. QED  BY <3>1, <3>4, <3>5, <3>6, <3>7, <3>8
  <2>5. run[r].ty = "HYB_KEM"  BY <2>3, <2>4, KemAssumption DEF Hybrid
  <2> DEFINE id == out.id  jd == run[r].id  ct == out.ct
  <2>6. /\ id \in Ids /\ jd \in Ids /\ IsBytes(ct) /\ HybGot(id, ct) # Failed
        /\ HybGot(id, ct) = SecretOf("HYB_KEM", jd, r)
        /\ run[r].ct = CtOf("HYB_KEM", jd, r)
    BY <2>2, <2>3, <2>5
  <2> HIDE DEF id, jd, ct
  <2>7. id = jd /\ ct = CtOf("HYB_KEM", jd, r)  BY <2>6, HybBinds
  <2>8. QED  BY <2>6, <2>7 DEF id, jd, ct
<1>2. QED  BY <1>1, KemInvariant, PTL

(* Every byte of a secret was written by one of the two libraries.          *)
THEOREM SecretsWholeHolds == Spec => []SecretsWhole
<1> DEFINE Whole(s) == \A i \in DOMAIN s : s[i] # <<"zero">>
<1>1. Whole(Failed)  BY DEF Failed
<1>2. \A n, w : Whole(Bytes(n, w))  BY NotZero DEF Bytes
<1>3. \A id, e, w : Whole(Join(CSec, Kex(id, e), QSec, Bytes(QSec, w)))
  <2> TAKE id, e, w
  <2> DEFINE c == Join(CSec, Kex(id, e), QSec, Bytes(QSec, w))
  <2>1. HasTwo(c, CSec, <<"kex", id, e>>, QSec, w)  BY JoinSlices, Lengths DEF Kex
  <2> HIDE DEF c
  <2>2. Whole(c)  BY <2>1 DEF HasTwo
  <2>3. QED  BY <2>2 DEF c
<1>4. \A id, c : \E w : OqsDecaps(id, c) = Bytes(QSec, w)
  BY DEF OqsDecaps, OqsSecret, OqsRejected
<1>5. \A ty, id, ct : Whole(Got(ty, id, ct))
  <2> TAKE ty, id, ct
  <2>1. CASE ~Hybrid(ty)  BY <1>2, <1>4, <2>1 DEF Got
  <2>2. CASE Hybrid(ty)
    <3>1. Got(ty, id, ct) = Failed \/ \E e, w : Got(ty, id, ct) =
            Join(CSec, Kex(id, e), QSec, Bytes(QSec, w))
      BY <1>4, <2>2 DEF Got, HybGot
    <3>2. QED  BY <1>1, <1>3, <3>1
  <2>3. QED  BY <2>1, <2>2
<1>6. \A ty, id, r : Whole(SecretOf(ty, id, r))
  BY <1>2, <1>3 DEF SecretOf, OqsSecret
<1>7. NoRun.secret = Failed  BY DEF NoRun
<1>8. IInv => SecretsWhole
  <2> SUFFICES ASSUME IInv, NEW x \in {out} \cup {run[r] : r \in Runs} PROVE Whole(x.secret)
    BY DEF SecretsWhole
  <2>1. x = NoRun \/ (\E ty, id, ct : x.secret = Got(ty, id, ct))
          \/ (\E ty, id, r : x.secret = SecretOf(ty, id, r))
    BY DEF IInv, OutOk, RunsInv, RunOk
  <2> HIDE DEF Whole
  <2>2. QED  BY <1>1, <1>5, <1>6, <1>7, <2>1
<1>9. QED  BY <1>8, KemInvariant, PTL
=============================================================================
