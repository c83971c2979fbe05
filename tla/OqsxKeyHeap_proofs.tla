------------------------- MODULE OqsxKeyHeap_proofs -------------------------
(***************************************************************************)
(* Proofs about the memory of keys and generation contexts.  An action     *)
(* replaces one object by the result of an operator on it, so that the     *)
(* invariant is one on single objects: what an object of each stage is     *)
(* like.  Its heart is Tidy: the blocks of an object in use are those its  *)
(* fields point to, and strays.                                            *)
(***************************************************************************)
EXTENDS OqsxKeyHeap, TLAPS

LEMMA FieldsKnown ==
  /\ KeyFields \subseteq Fields /\ GenFields \subseteq Fields
  /\ Fields \cap Strays = {}
  /\ NULL \notin Addrs
  /\ \A f \in Fields : f \notin KeyFields => f = "oqsName"
  /\ \A kd \in Hybrids : kd \in KeyKinds
BY HeapAssumption DEF Fields, KeyFields, GenFields, Strays, NULL, KeyKinds, Hybrids

-----------------------------------------------------------------------------
(* The allocator.                                                          *)

\* The field blocks of o are those its fields point to, each once, and
\* nothing was given back that was not live.
Tidy(o) ==
  /\ \A f \in Fields : o.ptr[f] # NULL => <<f, o.ptr[f]>> \in o.live
  /\ \A b \in o.live : b[1] \in Fields => o.ptr[b[1]] = b[2]
  /\ o.twice = {}

\* Two objects that differ in pointers and blocks at most.
SameButHeap(o, r) ==
  r.st = o.st /\ r.kind = o.kind /\ r.point = o.point /\ r.comp = o.comp

SameStrays(o, r) ==
  \A b \in (Fields \cup Strays) \X Addrs : b[1] \in Strays => (b \in r.live <=> b \in o.live)

\* Where the object has no block of a field, the allocator has an address.
LEMMA AddressFree ==
  ASSUME NEW o, NEW f, \A a \in Addrs : <<f, a>> \notin o.live
  PROVE  Address(o, f) \in Addrs /\ <<f, Address(o, f)>> \notin o.live
<1>1. \E a \in Addrs : <<f, a>> \notin o.live  BY HeapAssumption
<1>2. QED  BY <1>1 DEF Address

\* A tidy object has no block of a field that is NULL.
LEMMA NullHasNoBlock ==
  ASSUME NEW o \in Objects, Tidy(o), NEW f \in Fields, o.ptr[f] = NULL
  PROVE  \A a \in Addrs : <<f, a>> \notin o.live
BY FieldsKnown DEF Tidy

\* Allocating into fields that are NULL.
LEMMA AllocTidy ==
  ASSUME NEW o \in Objects, Tidy(o), NEW fs \in SUBSET Fields,
         \A f \in fs : o.ptr[f] = NULL
  PROVE  /\ Alloc(o, fs) \in Objects /\ Tidy(Alloc(o, fs))
         /\ SameButHeap(o, Alloc(o, fs)) /\ SameStrays(o, Alloc(o, fs))
         /\ \A f \in fs : Alloc(o, fs).ptr[f] # NULL
         /\ \A f \in Fields \ fs : Alloc(o, fs).ptr[f] = o.ptr[f]
<1> DEFINE r == Alloc(o, fs)
<1>1. \A f \in fs : Address(o, f) \in Addrs
  BY NullHasNoBlock, AddressFree
<1>2. /\ r.ptr = [f \in Fields |-> IF f \in fs THEN Address(o, f) ELSE o.ptr[f]]
      /\ r.live = o.live \cup {<<f, Address(o, f)>> : f \in fs}
      /\ r.twice = o.twice /\ SameButHeap(o, r)
  BY DEF Alloc, Objects, SameButHeap
<1>3. r.ptr \in [Fields -> Addrs \cup {NULL}]
  BY <1>1, <1>2 DEF Objects
<1>4. r.live \in SUBSET ((Fields \cup Strays) \X Addrs)
  BY <1>1, <1>2 DEF Objects
<1>5. r \in Objects
  BY <1>3, <1>4 DEF Alloc, Objects
<1>6. Tidy(r)
  <2>1. ASSUME NEW f \in Fields, r.ptr[f] # NULL PROVE <<f, r.ptr[f]>> \in r.live
    BY <1>2, <2>1 DEF Tidy
  <2>2. ASSUME NEW b \in r.live, b[1] \in Fields PROVE r.ptr[b[1]] = b[2]
    <3>1. CASE b \in o.live
      BY <3>1, <2>2, <1>2, FieldsKnown DEF Tidy, Objects
    <3>2. CASE b \in {<<f, Address(o, f)>> : f \in fs}
      BY <3>2, <2>2, <1>2
    <3>3. QED  BY <3>1, <3>2, <1>2, <2>2
  <2>3. QED  BY <2>1, <2>2, <1>2 DEF Tidy
<1>7. SameStrays(o, r)
  BY <1>2, FieldsKnown DEF SameStrays
<1>8. QED  BY <1>1, <1>2, <1>5, <1>6, <1>7, FieldsKnown

LEMMA StrayTidy ==
  ASSUME NEW o \in Objects, Tidy(o), NEW s \in Strays, \A a \in Addrs : <<s, a>> \notin o.live
  PROVE  /\ Stray(o, s) \in Objects /\ Tidy(Stray(o, s))
         /\ SameButHeap(o, Stray(o, s)) /\ Stray(o, s).ptr = o.ptr
         /\ \A b \in Stray(o, s).live : b \in o.live \/ b[1] = s
<1>1. Address(o, s) \in Addrs  BY AddressFree
<1>2. /\ Stray(o, s).ptr = o.ptr /\ Stray(o, s).twice = o.twice
      /\ Stray(o, s).live = o.live \cup {<<s, Address(o, s)>>}
      /\ SameButHeap(o, Stray(o, s))
  BY DEF Stray, Objects, SameButHeap
<1>3. Stray(o, s) \in Objects  BY <1>1 DEF Stray, Objects
<1>4. QED  BY <1>2, <1>3, FieldsKnown DEF Tidy

\* Giving the blocks of some fields back and forgetting their addresses.
LEMMA FreeAndNullTidy ==
  ASSUME NEW o \in Objects, Tidy(o), NEW fs \in SUBSET Fields
  PROVE  /\ FreeAndNull(o, fs) \in Objects /\ Tidy(FreeAndNull(o, fs))
         /\ SameButHeap(o, FreeAndNull(o, fs)) /\ SameStrays(o, FreeAndNull(o, fs))
         /\ \A f \in fs : FreeAndNull(o, fs).ptr[f] = NULL
         /\ \A f \in Fields \ fs : FreeAndNull(o, fs).ptr[f] = o.ptr[f]
<1> DEFINE r == FreeAndNull(o, fs)
<1>1. /\ r.ptr = [f \in Fields |-> IF f \in fs THEN NULL ELSE o.ptr[f]]
      /\ r.live = o.live \ Blocks(o, fs)
      /\ r.twice = o.twice \cup {f \in fs : o.ptr[f] # NULL /\ <<f, o.ptr[f]>> \notin o.live}
      /\ SameButHeap(o, r)
  BY DEF FreeAndNull, FreeFields, SetNull, Objects, SameButHeap
<1>2. r.twice = {}
  BY <1>1 DEF Tidy
<1>3. r.ptr \in [Fields -> Addrs \cup {NULL}]
  BY <1>1 DEF Objects
<1>4. r \in Objects
  BY <1>1, <1>2, <1>3 DEF FreeAndNull, FreeFields, SetNull, Objects
<1>5. Tidy(r)
  <2>1. ASSUME NEW f \in Fields, r.ptr[f] # NULL PROVE <<f, r.ptr[f]>> \in r.live
    BY <1>1, <2>1 DEF Tidy, Blocks
  <2>2. ASSUME NEW b \in r.live, b[1] \in Fields PROVE r.ptr[b[1]] = b[2]
    <3>1. b \in o.live /\ b \notin Blocks(o, fs)  BY <1>1
    <3>2. o.ptr[b[1]] = b[2] /\ b = <<b[1], b[2]>>  BY <3>1, <2>2 DEF Tidy, Objects
    <3>3. b[1] \notin fs  BY <3>1, <3>2 DEF Blocks
    <3>4. QED  BY <1>1, <3>2, <3>3, <2>2
  <2>3. QED  BY <1>2, <2>1, <2>2 DEF Tidy
<1>6. SameStrays(o, r)
  BY <1>1, FieldsKnown DEF SameStrays, Blocks
<1>7. QED  BY <1>1, <1>4, <1>5, <1>6

\* Giving everything a tidy object has back leaves the strays.
LEMMA FreeAll ==
  ASSUME NEW o \in Objects, Tidy(o), NEW fs \in SUBSET Fields,
         \A f \in Fields \ fs : o.ptr[f] = NULL
  PROVE  /\ FreeFields(o, fs) \in Objects
         /\ SameButHeap(o, FreeFields(o, fs))
         /\ FreeFields(o, fs).twice = {}
         /\ \A b \in FreeFields(o, fs).live : b \in o.live /\ b[1] \in Strays
<1> DEFINE r == FreeFields(o, fs)
<1>1. /\ r.ptr = o.ptr /\ r.live = o.live \ Blocks(o, fs)
      /\ r.twice = o.twice \cup {f \in fs : o.ptr[f] # NULL /\ <<f, o.ptr[f]>> \notin o.live}
      /\ SameButHeap(o, r)
  BY DEF FreeFields, Objects, SameButHeap
<1>2. r.twice = {}
  BY <1>1 DEF Tidy
<1>3. r \in Objects
  BY <1>1, <1>2 DEF FreeFields, Objects
<1>4. ASSUME NEW b \in r.live PROVE b \in o.live /\ b[1] \in Strays
  <2>1. b \in o.live /\ b \notin Blocks(o, fs)  BY <1>1
  <2>2. b = <<b[1], b[2]>> /\ b[1] \in Fields \cup Strays /\ b[2] \in Addrs
    BY <2>1 DEF Objects
  <2>3. ASSUME b[1] \in Fields PROVE FALSE
    <3>1. o.ptr[b[1]] = b[2] /\ b[2] # NULL  BY <2>1, <2>2, <2>3, FieldsKnown DEF Tidy
    <3>2. b[1] \in fs  BY <3>1, <2>3
    <3>3. QED  BY <3>1, <3>2, <2>1, <2>2 DEF Blocks
  <2>4. QED  BY <2>1, <2>2, <2>3
<1>5. QED  BY <1>1, <1>2, <1>3, <1>4

-----------------------------------------------------------------------------
(* What the sequences of oqsx_key_new allocate.                            *)

\* What oqsx_key_new may allocate before the property query.
NewFields ==
  KeyFields \ ({"priv", "pub", "pkey", "propq"} \cup (IF NoAtomic THEN {} ELSE {"lock"}))

LEMMA KindOrderFields == \A kd \in KeyKinds : KindOrder(kd) \in Seq(NewFields)
<1> SUFFICES ASSUME NEW kd \in KeyKinds PROVE KindOrder(kd) \in Seq(NewFields)
  OBVIOUS
<1>1. {"compPriv", "compPub", "qs", "evp", "evpCtx", "keyParam"} \subseteq NewFields
  BY DEF NewFields, KeyFields
<1>2. CASE kd \in {"SIG", "KEM"}
  BY <1>1, <1>2 DEF KindOrder
<1>3. CASE kd \in {"ECP", "HYB_SIG"}
  BY <1>1, <1>3 DEF KindOrder
<1>4. CASE kd = "ECX"
  BY <1>1, <1>4 DEF KindOrder
<1>5. CASE kd = "HYB_RSA"
  BY <1>1, <1>5 DEF KindOrder
<1>6. QED  BY <1>2, <1>3, <1>4, <1>5 DEF KeyKinds, Hybrids, HybridKems

\* The property query comes last, if at all.
LEMMA NewOrderFields ==
  ASSUME NEW kd \in KeyKinds, NEW p \in BOOLEAN
  PROVE  /\ Len(NewOrder(kd, p)) \in Nat /\ Len(Header) \in Nat /\ Len(Header) < Len(NewOrder(kd, p))
         /\ \A i \in 1 .. Len(NewOrder(kd, p)) : NewOrder(kd, p)[i] \in NewFields \cup {"propq"}
         /\ \A i \in 1 .. Len(NewOrder(kd, p)) - 1 : NewOrder(kd, p)[i] \in NewFields
         /\ \A i \in 1 .. Len(Header) : NewOrder(kd, p)[i] \in NewFields
<1> DEFINE prefix == Header \o KindOrder(kd) \o <<"tlsName">>
<1>1. Header \in Seq(NewFields) /\ "tlsName" \in NewFields
  <2>1. "self" \in NewFields /\ "tlsName" \in NewFields  BY DEF NewFields, KeyFields
  <2>2. NoAtomic => "lock" \in NewFields  BY DEF NewFields, KeyFields
  <2>3. <<"self">> \in Seq(NewFields)  BY <2>1
  <2>4. NoAtomic => <<"self", "lock">> \in Seq(NewFields)  BY <2>1, <2>2
  <2>5. QED  BY <2>1, <2>3, <2>4 DEF Header
<1>2. prefix \in Seq(NewFields) /\ Len(prefix) = Len(Header) + Len(KindOrder(kd)) + 1
  BY <1>1, KindOrderFields
<1>3. \A i \in 1 .. Len(prefix) : prefix[i] \in NewFields
  BY <1>2
<1>4. Len(Header) \in Nat /\ Len(KindOrder(kd)) \in Nat
  BY <1>1, KindOrderFields
<1>5. CASE p
  <2>1. NewOrder(kd, p) = prefix \o <<"propq">>  BY <1>5 DEF NewOrder
  <2> HIDE DEF prefix
  <2>2. Len(NewOrder(kd, p)) = Len(prefix) + 1  BY <2>1, <1>2
  <2>3. /\ \A i \in 1 .. Len(prefix) : NewOrder(kd, p)[i] = prefix[i]
        /\ NewOrder(kd, p)[Len(prefix) + 1] = "propq"
    BY <2>1, <1>2
  <2>4. QED  BY <2>2, <2>3, <1>2, <1>3, <1>4
<1>6. CASE ~p
  <2>1. NewOrder(kd, p) = prefix \o <<>>  BY <1>6 DEF NewOrder
  <2> HIDE DEF prefix
  <2>2. Len(NewOrder(kd, p)) = Len(prefix)  BY <2>1, <1>2
  <2>3. \A i \in 1 .. Len(prefix) : NewOrder(kd, p)[i] = prefix[i]  BY <2>1, <1>2
  <2>4. QED  BY <2>2, <2>3, <1>2, <1>3, <1>4
<1>7. QED  BY <1>5, <1>6

-----------------------------------------------------------------------------
(* The invariant of one object.                                            *)

\* Strays a key may come to hold, in the words of LeaksAreKnown.
StrayKnown(o, s) ==
  \/ s = "point" /\ o.point = "alone" /\ o.kind \in HybridKems
  \/ s = "encoding" /\ o.kind \in Hybrids \ {"ECX"} /\ ~NoPubInPriv
  \/ s = "npk" /\ o.kind \in {"ECP", "HYB_SIG"} /\ o.st = "freed"

\* HalvesLead of one key.
Leading(o, f, lead) == IF o.ptr[f] = NULL THEN lead = "null" ELSE Holds(o, f) /\ lead = "buf"

Led(o) ==
  /\ Leading(o, "priv", o.comp.priv) \/ (o.point # "none" /\ o.ptr["priv"] = NULL)
  /\ o.point # "alone" =>
       /\ Leading(o, "pub", o.comp.pubCl) /\ Leading(o, "pub", o.comp.pubQs)
       /\ o.ptr["priv"] # NULL \/ o.ptr["pub"] # NULL
  /\ o.kind \in Hybrids => Holds(o, "pkey")

\* A tidy key with its three buffers still to come.
Blank(o) ==
  /\ o.ptr["priv"] = NULL /\ o.ptr["pub"] = NULL /\ o.ptr["pkey"] = NULL
  /\ \A b \in o.live : b[1] \in Fields
  /\ o.point = "none" /\ o.comp.pubQs = "uninit"

\* Between calls: a point was written to new memory only where comp_pubkey
\* was not set, and the comp pointers remember it.
PointOnce(o) ==
  /\ (\E b \in o.live : b[1] = "point") => o.comp.pubCl = "point"
  /\ o.comp.pubQs = "buf" => o.comp.pubCl = "buf"
  /\ o.point = "alone" => o.comp.pubQs # "buf"

TidyKey(o) == Tidy(o) /\ o.ptr["oqsName"] = NULL /\ o.kind \in KeyKinds

KeyInv(o) ==
  /\ o \in Objects /\ o.st # "gctx"
  /\ o.st = "none" => o = NoObject
  /\ o.st \in Stages \cup Usable => TidyKey(o)
  /\ o.st \in Stages => Blank(o)
  /\ o.st \in Usable => PointOnce(o)
  /\ o.st = "ready" => Led(o)
  /\ o.twice # {} => NoAtomic /\ o.st = "aborted" /\ o.twice = {"self"}
  /\ \A b \in o.live : b[1] \in Strays => StrayKnown(o, b[1])
  /\ o.st \in Gone => \A b \in o.live : b[1] \in Fields =>
       \/ o.st = "aborted" /\ b[1] \in KeyFields \ {"self", "propq"}
       \/ o.st = "lost" /\ b[1] \in KeyFields \ {"pkey"}

GenInv(o) ==
  /\ o \in Objects /\ o.st \in {"none", "gctx", "freed"} /\ o.twice = {}
  /\ \A b \in o.live : b[1] \in Fields
  /\ o.st = "none" => o = NoObject
  /\ o.st = "gctx" => Tidy(o) /\ o.kind \in Kinds /\ \A f \in Fields \ GenFields : o.ptr[f] = NULL
  /\ o.st = "freed" => o.live = {}

HeapInv == /\ obj \in [Keys \cup Gens -> Objects]
           /\ \A k \in Keys : KeyInv(obj[k])
           /\ \A g \in Gens : GenInv(obj[g])

-----------------------------------------------------------------------------
(* oqsx_key_free and oqsx_key_new.                                         *)

LEMMA StageNames ==
  /\ Gone \cap (Stages \cup Usable) = {} /\ Stages \cap Usable = {}
  /\ "gctx" \notin Gone \cup Stages \cup Usable
BY DEF Gone, Stages, Usable

\* A tidy key can be freed wherever its strays are known, be it for being
\* freed now.
LEMMA KeyFreeInv ==
  ASSUME NEW o \in Objects, TidyKey(o),
         \A b \in o.live : b[1] \in Strays =>
            StrayKnown(o, b[1]) \/ (b[1] = "npk" /\ o.kind \in {"ECP", "HYB_SIG"})
  PROVE  KeyInv(KeyFree(o))
<1> DEFINE gone == FreeFields(o, KeyFields)
           r == KeyFree(o)
<1>1. /\ gone \in Objects /\ SameButHeap(o, gone) /\ gone.twice = {}
      /\ \A b \in gone.live : b \in o.live /\ b[1] \in Strays
  BY FreeAll, FieldsKnown DEF TidyKey
<1>2. r \in Objects /\ r = [gone EXCEPT !.st = "freed"]
  BY <1>1 DEF KeyFree, Objects, Gone
<1> HIDE DEF gone, r
<1>3. /\ r.st = "freed" /\ r.live = gone.live /\ r.twice = {}
      /\ r.kind = o.kind /\ r.point = o.point
  BY <1>1, <1>2 DEF Objects, SameButHeap
<1>4. \A b \in r.live : b[1] \in Strays /\ b[1] \notin Fields /\ StrayKnown(r, b[1])
  BY <1>1, <1>3, FieldsKnown DEF StrayKnown
<1>5. KeyInv(r)
  BY <1>2, <1>3, <1>4, StageNames DEF KeyInv, Gone, Stages, Usable
<1>6. QED  BY <1>5 DEF r

LEMMA NoObjectTidy ==
  ASSUME NEW kd \in KeyKinds
  PROVE  LET o == [NoObject EXCEPT !.kind = kd] IN
         /\ o \in Objects /\ Tidy(o) /\ o.kind = kd /\ o.st = "none"
         /\ o.live = {} /\ o.point = "none" /\ \A f \in Fields : o.ptr[f] = NULL
BY DEF NoObject, Objects, Tidy, Gone, Leads

LEMMA NoObjectInv == KeyInv(NoObject) /\ GenInv(NoObject)
BY StageNames DEF NoObject, Objects, KeyInv, GenInv, Gone, Leads, Stages, Usable

\* What err: leaves: the lost blocks are those of the fields that were filled
\* before the property query, and never the object itself.
LEMMA AbortedInv ==
  ASSUME NEW kd \in KeyKinds, NEW fs \in SUBSET NewFields, NEW f, f = "lock" => NoAtomic
  PROVE  KeyInv(Aborted(NoObject, kd, fs, f))
<1> DEFINE o == [NoObject EXCEPT !.kind = kd]
           made == Alloc(o, fs)
           back == IF kd = "HYB_SIG" /\ f = "keyParam" THEN FreeAndNull(made, {"evpCtx"}) ELSE made
           gone == FreeFields(back, {"self"})
           end == IF f = "lock" THEN FreeFields(gone, {"self"}) ELSE gone
           r == [end EXCEPT !.st = "aborted"]
<1>0. r = Aborted(NoObject, kd, fs, f)
  BY DEF Aborted
<1>1. /\ o \in Objects /\ Tidy(o) /\ o.live = {} /\ \A g \in Fields : o.ptr[g] = NULL
  BY NoObjectTidy
<1>2. fs \in SUBSET Fields /\ fs \subseteq KeyFields \ {"propq"}
      /\ "self" \in Fields /\ "evpCtx" \in Fields
  BY FieldsKnown DEF NewFields, KeyFields
<1> HIDE DEF o
<1>3. /\ made \in Objects /\ Tidy(made) /\ SameStrays(o, made)
      /\ \A g \in Fields \ fs : made.ptr[g] = NULL
  BY <1>1, <1>2, AllocTidy
<1> HIDE DEF made
<1>4. /\ back \in Objects /\ Tidy(back) /\ SameStrays(o, back)
      /\ \A g \in Fields \ fs : back.ptr[g] = NULL
  BY <1>2, <1>3, FreeAndNullTidy DEF SameStrays
<1> HIDE DEF back
<1>5. \A b \in back.live : b[1] \in fs /\ b[1] \in Fields /\ back.ptr[b[1]] = b[2]
  <2> SUFFICES ASSUME NEW b \in back.live
               PROVE  b[1] \in fs /\ b[1] \in Fields /\ back.ptr[b[1]] = b[2]
    OBVIOUS
  <2>1. b \in (Fields \cup Strays) \X Addrs  BY <1>4 DEF Objects
  <2>2. b[1] \notin Strays  BY <2>1, <1>1, <1>4 DEF SameStrays
  <2>3. back.ptr[b[1]] = b[2] /\ b[2] # NULL  BY <2>1, <2>2, <1>4, FieldsKnown DEF Tidy
  <2>4. QED  BY <2>1, <2>2, <2>3, <1>4
<1>6. /\ gone \in Objects /\ gone.twice = {} /\ gone.live = back.live \ {<<"self", back.ptr["self"]>>}
      /\ gone.ptr = back.ptr
  <2>1. /\ gone.ptr = back.ptr /\ gone.live = back.live \ Blocks(back, {"self"})
        /\ gone.twice = back.twice \cup
             {g \in {"self"} : back.ptr[g] # NULL /\ <<g, back.ptr[g]>> \notin back.live}
    BY <1>4 DEF FreeFields, Objects
  <2>2. gone.twice = {}  BY <2>1, <1>2, <1>4 DEF Tidy
  <2>3. gone \in Objects  BY <2>1, <2>2, <1>4 DEF FreeFields, Objects
  <2>4. QED  BY <2>1, <2>2, <2>3 DEF Blocks
<1> HIDE DEF gone
<1>7. /\ end \in Objects /\ end.live \subseteq gone.live
      /\ end.twice # {} => NoAtomic /\ end.twice = {"self"}
  <2>1. CASE f = "lock"
    <3>1. /\ end.live = gone.live \ Blocks(gone, {"self"})
          /\ end.twice = gone.twice \cup
               {g \in {"self"} : gone.ptr[g] # NULL /\ <<g, gone.ptr[g]>> \notin gone.live}
      BY <2>1, <1>6 DEF FreeFields, Objects
    <3>2. end.twice \subseteq {"self"}  BY <3>1, <1>6
    <3>3. end \in Objects  BY ZenonT(40), <3>1, <3>2, <2>1, <1>6, <1>2 DEF FreeFields, Objects
    <3>4. QED  BY <3>1, <3>2, <3>3, <2>1
  <2>2. CASE f # "lock"
    BY <2>2, <1>6
  <2>3. QED  BY <2>1, <2>2
<1> HIDE DEF end
<1>8. r \in Objects /\ r.st = "aborted" /\ r.live = end.live /\ r.twice = end.twice
  BY <1>7 DEF Objects, Gone
<1>9. \A b \in r.live : b[1] \in Fields \ Strays /\ b[1] \in KeyFields \ {"self", "propq"}
  <2> SUFFICES ASSUME NEW b \in r.live, b[1] \notin Strays => b[1] = "self"
               PROVE  FALSE
    BY <1>2, <1>5, <1>6, <1>7, <1>8, FieldsKnown
  <2>1. b \in back.live /\ b # <<"self", back.ptr["self"]>>  BY <1>6, <1>7, <1>8
  <2>2. b[1] \in Fields /\ back.ptr[b[1]] = b[2] /\ b = <<b[1], b[2]>>
    BY <2>1, <1>4, <1>5 DEF Objects
  <2>3. QED  BY <2>1, <2>2, FieldsKnown
<1>10. KeyInv(r)
  BY <1>7, <1>8, <1>9, StageNames DEF KeyInv, Gone, Stages, Usable
<1>11. QED  BY <1>0, <1>10

\* A key of oqsx_key_new, one that was given up included.
LEMMA KeyNewInv ==
  ASSUME NEW kd \in KeyKinds, NEW p \in BOOLEAN, NEW named \in BOOLEAN,
         NEW stage \in Stages \cup {"empty"},
         NEW r \in KeyNew(NoObject, kd, p, named, stage)
  PROVE  KeyInv(r)
<1> DEFINE order == NewOrder(kd, p)
           o == [NoObject EXCEPT !.kind = kd]
<1>1. /\ Len(order) \in Nat /\ Len(Header) \in Nat /\ Len(Header) < Len(order)
      /\ \A i \in 1 .. Len(order) : order[i] \in NewFields \cup {"propq"}
      /\ \A i \in 1 .. Len(order) - 1 : order[i] \in NewFields
      /\ \A i \in 1 .. Len(Header) : order[i] \in NewFields
  BY NewOrderFields
<1>2. NewFields \cup {"propq"} \subseteq KeyFields \ {"priv", "pub", "pkey"}
      /\ ("lock" \in NewFields => NoAtomic)
  BY DEF NewFields, KeyFields
<1> HIDE DEF order
<1>3. ASSUME NEW n \in 0 .. Len(order) - 1, NEW miss \in SUBSET Unchecked,
             r = Aborted(NoObject, kd, Got(order, n, miss), order[n + 1])
      PROVE  KeyInv(r)
  <2>1. Got(order, n, miss) \in SUBSET NewFields
    BY <1>1 DEF Got
  <2>2. order[n + 1] = "lock" => NoAtomic
    <3>1. n + 1 \in 1 .. Len(order)  BY <1>1
    <3>2. order[n + 1] \in NewFields \cup {"propq"}  BY <3>1, <1>1
    <3>3. QED  BY <3>2, <1>2
  <2>3. QED  BY <2>1, <2>2, <1>3, AbortedInv
<1>4. ASSUME r = Aborted(NoObject, kd, Got(order, Len(Header), {}), "name")
      PROVE  KeyInv(r)
  <2>1. Got(order, Len(Header), {}) \in SUBSET NewFields
    BY <1>1 DEF Got
  <2>2. QED  BY <2>1, <1>4, AbortedInv
<1>5. ASSUME NEW miss \in SUBSET Unchecked,
             r = [Alloc(o, Got(order, Len(order), miss)) EXCEPT !.st = stage]
      PROVE  KeyInv(r)
  <2> DEFINE fs == Got(order, Len(order), miss)
             made == Alloc(o, fs)
  <2>1. fs \subseteq KeyFields \ {"priv", "pub", "pkey"} /\ fs \in SUBSET Fields
    BY <1>1, <1>2, FieldsKnown DEF Got
  <2>2. /\ o \in Objects /\ Tidy(o) /\ o.kind = kd /\ o.live = {} /\ o.point = "none"
        /\ \A f \in Fields : o.ptr[f] = NULL
        /\ o.comp.pubQs = "uninit" /\ o.comp.pubCl = "uninit"
    BY NoObjectTidy DEF NoObject
  <2> HIDE DEF o, fs
  <2>3. /\ made \in Objects /\ Tidy(made) /\ SameButHeap(o, made) /\ SameStrays(o, made)
        /\ \A f \in Fields \ fs : made.ptr[f] = NULL
    BY <2>1, <2>2, AllocTidy
  <2> HIDE DEF made
  <2>4. /\ r.st = stage /\ r.ptr = made.ptr /\ r.live = made.live /\ r.twice = made.twice
        /\ r.kind = kd /\ r.point = "none" /\ r.comp = o.comp /\ r \in Objects
    BY <1>5, <2>2, <2>3 DEF SameButHeap, Objects, Usable, made, o, fs
  <2>5. /\ r.ptr["priv"] = NULL /\ r.ptr["pub"] = NULL /\ r.ptr["pkey"] = NULL
        /\ r.ptr["oqsName"] = NULL
    BY <2>1, <2>3, <2>4 DEF Fields, KeyFields, GenFields
  <2>6. \A b \in r.live : b[1] \in Fields /\ b[1] \notin Strays
    BY <2>2, <2>3, <2>4, FieldsKnown DEF SameStrays, Objects
  <2>7. Tidy(r)
    BY <2>3, <2>4 DEF Tidy
  <2>8. TidyKey(r) /\ Blank(r) /\ PointOnce(r)
    BY <2>2, <2>4, <2>5, <2>6, <2>7 DEF TidyKey, Blank, PointOnce, Strays
  <2>9. r.st \notin Gone /\ r.st # "ready" /\ r.st # "gctx" /\ r.st # "none"
    BY <2>4 DEF Gone, Stages
  <2>10. QED
    BY <2>4, <2>6, <2>7, <2>8, <2>9 DEF KeyInv, Tidy
<1>6. QED
  BY <1>3, <1>4, <1>5 DEF KeyNew, order, o

-----------------------------------------------------------------------------
(* Filling a key: oqsx_key_gen, oqsx_key_op, oqsx_key_fromdata.            *)

\* A key under construction: no stray, no point.
Making(o) ==
  o \in Objects /\ TidyKey(o) /\ o.point = "none" /\ \A b \in o.live : b[1] \in Fields

LEMMA AllocMaking ==
  ASSUME NEW o, Making(o), NEW fs \in SUBSET KeyFields, \A f \in fs : o.ptr[f] = NULL
  PROVE  /\ Making(Alloc(o, fs)) /\ Alloc(o, fs).kind = o.kind /\ Alloc(o, fs).comp = o.comp
         /\ \A f \in fs : Alloc(o, fs).ptr[f] # NULL
         /\ \A f \in Fields \ fs : Alloc(o, fs).ptr[f] = o.ptr[f]
<1> DEFINE r == Alloc(o, fs)
<1>1. o \in Objects /\ Tidy(o) /\ fs \in SUBSET Fields /\ "oqsName" \in Fields \ KeyFields
  BY FieldsKnown DEF Making, TidyKey, Fields, GenFields, KeyFields
<1>2. /\ r \in Objects /\ Tidy(r) /\ SameButHeap(o, r) /\ SameStrays(o, r)
      /\ \A f \in fs : r.ptr[f] # NULL
      /\ \A f \in Fields \ fs : r.ptr[f] = o.ptr[f]
  BY <1>1, AllocTidy
<1> HIDE DEF r
<1>3. \A b \in r.live : b[1] \in Fields
  BY <1>2, FieldsKnown DEF SameStrays, Objects, Making
<1>4. Making(r) /\ r.kind = o.kind /\ r.comp = o.comp
  BY <1>1, <1>2, <1>3 DEF Making, TidyKey, SameButHeap
<1>5. QED  BY <1>2, <1>4 DEF r

\* A key that is forgotten where it has no classical key yet.
LEMMA LostInv ==
  ASSUME NEW o, Making(o), o.ptr["pkey"] = NULL
  PROVE  KeyInv(Done(o, "lost"))
<1> DEFINE r == Done(o, "lost")
<1>1. /\ r \in Objects /\ r.st = "lost" /\ r.live = o.live /\ r.twice = {}
  BY DEF Making, TidyKey, Tidy, Done, Objects, Gone
<1>2. ASSUME NEW b \in r.live
      PROVE  b[1] \in Fields \ Strays /\ b[1] \in KeyFields \ {"pkey"}
  <2>1. b[1] \in Fields /\ o.ptr[b[1]] = b[2] /\ b[2] \in Addrs
    BY <1>1 DEF Making, TidyKey, Tidy, Objects
  <2>2. o.ptr["oqsName"] = NULL  BY DEF Making, TidyKey
  <2>3. QED  BY <2>1, <2>2, FieldsKnown
<1> HIDE DEF r
<1>3. KeyInv(r)
  BY <1>1, <1>2, StageNames DEF KeyInv, Gone, Stages, Usable
<1>4. QED  BY <1>3 DEF r

\* oqsx_key_set_composites moves no block.
LEMMA SetCompositesMaking ==
  ASSUME NEW o, Making(o)
  PROVE  /\ Making(SetComposites(o))
         /\ SetComposites(o).ptr = o.ptr /\ SetComposites(o).kind = o.kind
         /\ SetComposites(o).comp.priv = (IF o.ptr["priv"] = NULL THEN "null" ELSE "buf")
         /\ SetComposites(o).comp.pubCl = (IF o.ptr["pub"] = NULL THEN "null" ELSE "buf")
         /\ SetComposites(o).comp.pubQs = (IF o.ptr["pub"] = NULL THEN "null" ELSE "buf")
BY DEF SetComposites, Making, TidyKey, Tidy, Objects, Leads

\* A key that is handed out with the comp pointers set over its buffers and a
\* classical key where it has one.
LEMMA ReadyInv ==
  ASSUME NEW o \in Objects, TidyKey(o), o.point = "none",
         \A b \in o.live : b[1] \in Strays => b[1] # "point" /\ StrayKnown(o, b[1]) /\ b[1] # "npk",
         o.comp.priv = (IF o.ptr["priv"] = NULL THEN "null" ELSE "buf"),
         o.comp.pubCl = (IF o.ptr["pub"] = NULL THEN "null" ELSE "buf"),
         o.comp.pubQs = (IF o.ptr["pub"] = NULL THEN "null" ELSE "buf"),
         o.ptr["priv"] # NULL \/ o.ptr["pub"] # NULL,
         o.kind \in Hybrids => o.ptr["pkey"] # NULL
  PROVE  KeyInv(Done(o, "ready"))
<1> DEFINE r == Done(o, "ready")
<1>1. /\ r \in Objects /\ r.st = "ready" /\ r.ptr = o.ptr /\ r.live = o.live /\ r.twice = o.twice
      /\ r.comp = o.comp /\ r.kind = o.kind /\ r.point = "none"
  BY DEF Done, Objects, Usable
<1> HIDE DEF r
<1>2. TidyKey(r) /\ o.twice = {}
  BY <1>1 DEF TidyKey, Tidy
<1>3. \A b \in r.live : b[1] \in Strays => b[1] # "point" /\ StrayKnown(r, b[1])
  BY <1>1 DEF StrayKnown
<1>4. PointOnce(r)
  BY <1>1, <1>3 DEF PointOnce, Strays
<1>5. Led(r)
  <2>1. \A f \in {"priv", "pub", "pkey"} : r.ptr[f] # NULL => Holds(r, f)
    BY <1>2 DEF Holds, TidyKey, Tidy, Fields, KeyFields
  <2>2. QED  BY <1>1, <2>1 DEF Led, Leading
<1>6. KeyInv(r)
  BY <1>1, <1>2, <1>3, <1>4, <1>5, StageNames DEF KeyInv, Gone, Stages, Usable
<1>7. QED  BY <1>6 DEF r

\* A hybrid key whose classical half could not be made.
LEMMA HalfInv ==
  ASSUME NEW o, Making(o), o.comp.pubQs = "uninit"
  PROVE  KeyInv(Done(o, "half"))
<1> DEFINE r == Done(o, "half")
<1>1. /\ r \in Objects /\ r.st = "half" /\ r.ptr = o.ptr /\ r.live = o.live /\ r.twice = o.twice
      /\ r.comp = o.comp /\ r.kind = o.kind /\ r.point = "none"
  BY DEF Done, Objects, Usable, Making
<1>2. TidyKey(r) /\ o.twice = {} /\ \A b \in r.live : b[1] \in Fields
  BY <1>1 DEF TidyKey, Tidy, Making
<1> HIDE DEF r
<1>3. PointOnce(r)
  BY <1>1, <1>2 DEF PointOnce, Fields, KeyFields, GenFields
<1>4. KeyInv(r)
  BY <1>1, <1>2, <1>3, FieldsKnown, StageNames DEF KeyInv, Gone, Stages, Usable
<1>5. QED  BY <1>4 DEF r

LEMMA MakingFreed ==
  ASSUME NEW o, Making(o) PROVE KeyInv(KeyFree(o))
BY KeyFreeInv, FieldsKnown DEF Making

LEMMA KeyGenInv ==
  ASSUME NEW o, Making(o), Blank(o), NEW r \in KeyGen(o)
  PROVE  KeyInv(r)
<1> DEFINE pub == Alloc(o, {"pub"})
           both == Alloc(pub, {"priv"})
           set == SetComposites(both)
           full == IF o.kind \in Hybrids THEN Alloc(set, {"pkey"}) ELSE set
<1>0. {"pub", "priv", "pkey"} \subseteq KeyFields /\ {"pub", "priv", "pkey"} \subseteq Fields
  BY DEF KeyFields, Fields
<1>1. /\ Making(pub) /\ pub.kind = o.kind /\ pub.comp = o.comp /\ pub.ptr["pub"] # NULL
      /\ pub.ptr["priv"] = NULL /\ pub.ptr["pkey"] = NULL
  BY <1>0, AllocMaking DEF Blank
<1> HIDE DEF pub
<1>2. /\ Making(both) /\ both.kind = o.kind /\ both.comp = o.comp
      /\ both.ptr["pub"] # NULL /\ both.ptr["priv"] # NULL /\ both.ptr["pkey"] = NULL
  BY <1>0, <1>1, AllocMaking
<1> HIDE DEF both
<1>3. /\ Making(set) /\ set.kind = o.kind /\ set.ptr = both.ptr
      /\ set.comp.priv = "buf" /\ set.comp.pubCl = "buf" /\ set.comp.pubQs = "buf"
  BY <1>2, SetCompositesMaking
<1> HIDE DEF set
<1>4. /\ Making(full) /\ full.kind = o.kind /\ full.comp = set.comp
      /\ full.ptr["pub"] # NULL /\ full.ptr["priv"] # NULL
      /\ o.kind \in Hybrids => full.ptr["pkey"] # NULL
  BY <1>0, <1>2, <1>3, AllocMaking
<1> HIDE DEF full
<1>5. KeyInv(Done(o, "lost")) /\ KeyInv(Done(pub, "lost"))
  BY <1>1, LostInv DEF Blank
<1>6. KeyInv(Done(both, "half"))
  BY <1>2, HalfInv DEF Blank
<1>7. KeyInv(Done(FreeAndNull(full, {"pkey"}), "lost"))
  <2> DEFINE back == FreeAndNull(full, {"pkey"})
  <2>1. /\ back \in Objects /\ Tidy(back) /\ SameButHeap(full, back) /\ SameStrays(full, back)
        /\ back.ptr["pkey"] = NULL /\ \A f \in Fields \ {"pkey"} : back.ptr[f] = full.ptr[f]
    BY <1>0, <1>4, FreeAndNullTidy DEF Making, TidyKey
  <2> HIDE DEF back
  <2>2. \A b \in back.live : b[1] \in Fields
    BY <2>1, <1>4, FieldsKnown DEF SameStrays, Objects, Making
  <2>3. Making(back)
    BY <2>1, <2>2, <1>4 DEF Making, TidyKey, SameButHeap, Fields, GenFields
  <2>4. QED  BY <2>1, <2>3, LostInv DEF back
<1>8. KeyInv(Done(full, "ready"))
  <2>1. full \in Objects /\ TidyKey(full) /\ full.point = "none"
        /\ \A b \in full.live : b[1] \notin Strays
    BY <1>4, FieldsKnown DEF Making
  <2>2. QED  BY <1>3, <1>4, <2>1, ReadyInv
<1>9. QED
  BY <1>5, <1>6, <1>7, <1>8 DEF KeyGen, pub, both, set, full

\* The last part of a decode or an import.
LEMMA CompleteInv ==
  ASSUME NEW o, Making(o), o.ptr["pkey"] = NULL, o.ptr["priv"] # NULL \/ o.ptr["pub"] # NULL,
         NEW op, NEW r \in Complete(o, op)
  PROVE  KeyInv(r)
<1> DEFINE s == SetComposites(o)
           got == Alloc(s, {"pkey"})
           strayed == Stray(got, "encoding")
           kept == IF op = "private" /\ ~NoPubInPriv /\ s.kind # "ECX" /\ s.comp.pubCl = "null"
                   THEN strayed ELSE got
           npk == Stray(s, "npk")
<1>0. {"pub", "priv", "pkey"} \subseteq KeyFields /\ {"pub", "priv", "pkey"} \subseteq Fields
      /\ {"npk", "encoding"} \subseteq Strays
  BY DEF KeyFields, Fields, Strays
<1>1. /\ Making(s) /\ s.ptr = o.ptr /\ s.kind = o.kind
      /\ s.comp.priv = (IF s.ptr["priv"] = NULL THEN "null" ELSE "buf")
      /\ s.comp.pubCl = (IF s.ptr["pub"] = NULL THEN "null" ELSE "buf")
      /\ s.comp.pubQs = (IF s.ptr["pub"] = NULL THEN "null" ELSE "buf")
  BY SetCompositesMaking
<1>2. PICK q \in Recreate(s, op) : r = (IF q[2] THEN Done(q[1], "ready") ELSE KeyFree(q[1]))
  BY DEF Complete
<1>3. \/ s.kind \notin Hybrids /\ q = <<s, TRUE>>
      \/ s.kind \in Hybrids /\ q = <<s, FALSE>>
      \/ s.kind \in Hybrids /\ q = <<kept, TRUE>>
      \/ s.kind \in Hybrids /\ q = <<kept, FALSE>>
      \/ s.kind \in {"ECP", "HYB_SIG"} /\ q = <<npk, FALSE>>
  BY <1>2 DEF Recreate
<1> HIDE DEF s
<1>4. /\ Making(got) /\ got.kind = s.kind /\ got.comp = s.comp /\ got.ptr["pkey"] # NULL
      /\ got.ptr["priv"] = s.ptr["priv"] /\ got.ptr["pub"] = s.ptr["pub"]
  BY <1>0, <1>1, AllocMaking
<1> HIDE DEF got
<1>5. /\ npk \in Objects /\ TidyKey(npk) /\ npk.kind = s.kind
      /\ \A b \in npk.live : b[1] \in Strays => b[1] = "npk"
  BY <1>0, <1>1, StrayTidy, FieldsKnown DEF Making, TidyKey, SameButHeap
<1>6. /\ strayed \in Objects /\ TidyKey(strayed) /\ SameButHeap(got, strayed)
      /\ strayed.ptr = got.ptr /\ \A b \in strayed.live : b[1] \in Strays => b[1] = "encoding"
  BY <1>0, <1>4, StrayTidy, FieldsKnown DEF Making, TidyKey, SameButHeap
<1> HIDE DEF npk, strayed
<1>7. s.kind \in Hybrids =>
      /\ kept \in Objects /\ TidyKey(kept) /\ kept.kind = s.kind /\ kept.comp = s.comp
      /\ kept.ptr = got.ptr /\ kept.point = "none"
      /\ \A b \in kept.live : b[1] \in Strays => b[1] = "encoding" /\ StrayKnown(kept, b[1])
  <2>1. CASE kept = got
    BY <2>1, <1>4, FieldsKnown DEF Making
  <2>2. CASE kept # got
    <3>1. kept = strayed /\ ~NoPubInPriv /\ s.kind # "ECX"  BY <2>2
    <3>2. QED  BY <3>1, <1>4, <1>6 DEF SameButHeap, Making, StrayKnown
  <2>3. QED  BY <2>1, <2>2
<1> HIDE DEF kept
<1>8. CASE s.kind \notin Hybrids /\ q = <<s, TRUE>>
  <2>1. s \in Objects /\ TidyKey(s) /\ s.point = "none" /\ \A b \in s.live : b[1] \notin Strays
    BY <1>1, FieldsKnown DEF Making
  <2>2. r = Done(s, "ready")  BY <1>2, <1>8
  <2>3. QED  BY <1>1, <1>8, <2>1, <2>2, ReadyInv
<1>9. CASE s.kind \in Hybrids /\ q = <<s, FALSE>>
  BY <1>1, <1>2, <1>9, MakingFreed
<1>10. CASE s.kind \in Hybrids /\ q = <<kept, TRUE>>
  <2>1. r = Done(kept, "ready")  BY <1>2, <1>10
  <2>2. QED  BY <1>1, <1>4, <1>7, <1>10, <2>1, ReadyInv
<1>11. CASE s.kind \in Hybrids /\ q = <<kept, FALSE>>
  <2>1. r = KeyFree(kept)  BY <1>2, <1>11
  <2>2. QED  BY <1>7, <1>11, <2>1, KeyFreeInv
<1>12. CASE s.kind \in {"ECP", "HYB_SIG"} /\ q = <<npk, FALSE>>
  <2>1. r = KeyFree(npk)  BY <1>2, <1>12
  <2>2. QED  BY <1>5, <1>12, <2>1, KeyFreeInv
<1>13. QED  BY <1>3, <1>8, <1>9, <1>10, <1>11, <1>12

LEMMA KeyOpInv ==
  ASSUME NEW o, Making(o), Blank(o), NEW op \in {"public", "private"}, NEW r \in KeyOp(o, op)
  PROVE  KeyInv(r)
<1> DEFINE first == Alloc(o, IF op = "public" THEN {"pub"} ELSE {"priv"})
           both == IF op = "public" \/ NoPubInPriv THEN first ELSE Alloc(first, {"pub"})
<1>0. {"pub", "priv", "pkey"} \subseteq KeyFields /\ {"pub", "priv", "pkey"} \subseteq Fields
  BY DEF KeyFields, Fields
<1>1. CASE op = "public"
  <2>1. first = Alloc(o, {"pub"}) /\ both = first  BY <1>1
  <2>2. Making(first) /\ first.ptr["pub"] # NULL /\ first.ptr["pkey"] = NULL
    BY <1>0, <2>1, AllocMaking DEF Blank
  <2>3. r \in {KeyFree(o), KeyFree(first)} \cup Complete(first, op)
    BY <2>1 DEF KeyOp
  <2> HIDE DEF first, both
  <2>4. QED  BY <2>2, <2>3, MakingFreed, CompleteInv
<1>2. CASE op = "private"
  <2>1. first = Alloc(o, {"priv"})  BY <1>2
  <2>2. /\ Making(first) /\ first.ptr["priv"] # NULL /\ first.ptr["pkey"] = NULL
        /\ first.ptr["pub"] = NULL
    BY <1>0, <2>1, AllocMaking DEF Blank
  <2>3. r \in {KeyFree(o), KeyFree(first)} \cup Complete(both, op)
    BY DEF KeyOp
  <2> HIDE DEF first
  <2>4. Making(both) /\ both.ptr["priv"] # NULL /\ both.ptr["pkey"] = NULL
    <3>1. CASE NoPubInPriv
      BY <3>1, <2>2
    <3>2. CASE ~NoPubInPriv
      BY <3>2, <1>0, <1>2, <2>2, AllocMaking
    <3>3. QED  BY <3>1, <3>2
  <2> HIDE DEF both
  <2>5. QED  BY <2>2, <2>3, <2>4, MakingFreed, CompleteInv
<1>3. QED  BY <1>1, <1>2

LEMMA FromDataInv ==
  ASSUME NEW o, Making(o), Blank(o), NEW fs \in SUBSET {"priv", "pub"}, NEW r \in FromData(o, fs)
  PROVE  KeyInv(r)
<1>0. {"pub", "priv", "pkey"} \subseteq KeyFields /\ {"pub", "priv", "pkey"} \subseteq Fields
  BY DEF KeyFields, Fields
<1>1. \A part \in SUBSET {"priv", "pub"} :
        /\ Making(Alloc(o, part)) /\ Alloc(o, part).ptr["pkey"] = NULL
        /\ \A f \in part : Alloc(o, part).ptr[f] # NULL
  <2> SUFFICES ASSUME NEW part \in SUBSET {"priv", "pub"}
               PROVE  /\ Making(Alloc(o, part)) /\ Alloc(o, part).ptr["pkey"] = NULL
                      /\ \A f \in part : Alloc(o, part).ptr[f] # NULL
    OBVIOUS
  <2>1. part \in SUBSET KeyFields /\ "pkey" \in Fields \ part /\ \A f \in part : o.ptr[f] = NULL
    BY <1>0 DEF Blank
  <2>2. QED  BY <2>1, AllocMaking DEF Blank
<1>2. \/ \E part \in {{}, fs \cap {"priv"}} : r = KeyFree(Alloc(o, part))
      \/ fs # {} /\ r \in Complete(Alloc(o, fs), IF "priv" \in fs THEN "private" ELSE "public")
  BY DEF FromData
<1>3. CASE \E part \in {{}, fs \cap {"priv"}} : r = KeyFree(Alloc(o, part))
  BY <1>1, <1>3, MakingFreed
<1>4. CASE fs # {} /\ r \in Complete(Alloc(o, fs), IF "priv" \in fs THEN "private" ELSE "public")
  <2>1. "priv" \in fs \/ "pub" \in fs  BY <1>4
  <2>2. QED  BY <1>1, <1>4, <2>1, CompleteInv
<1>5. QED  BY <1>2, <1>3, <1>4

-----------------------------------------------------------------------------
(* A key in use: oqsx_set_params.                                          *)

UsableInv(o) ==
  /\ o \in Objects /\ o.st \in Usable
  /\ TidyKey(o) /\ PointOnce(o) /\ (o.st = "ready" => Led(o))
  /\ \A b \in o.live : b[1] \in Strays => StrayKnown(o, b[1])

LEMMA UsableIsInv ==
  ASSUME NEW o
  PROVE  /\ UsableInv(o) => KeyInv(o)
         /\ KeyInv(o) /\ o.st \in Usable => UsableInv(o)
<1>1. UsableInv(o) => KeyInv(o)
  <2> SUFFICES ASSUME UsableInv(o) PROVE KeyInv(o)
    OBVIOUS
  <2>1. o.st \notin Gone \cup Stages \cup {"gctx", "none"} /\ o.twice = {}
    BY StageNames DEF UsableInv, Gone, TidyKey, Tidy
  <2>2. QED  BY <2>1 DEF UsableInv, KeyInv
<1>2. KeyInv(o) /\ o.st \in Usable => UsableInv(o)
  BY DEF UsableInv, KeyInv
<1>3. QED  BY <1>1, <1>2

\* A change of strings leaves a usable key usable.
LEMMA UsableKept ==
  ASSUME NEW o, UsableInv(o), NEW r \in Objects, Tidy(r), SameButHeap(o, r), SameStrays(o, r),
         \A f \in {"priv", "pub", "pkey", "oqsName"} : r.ptr[f] = o.ptr[f]
  PROVE  UsableInv(r)
<1>1. /\ r.st = o.st /\ r.kind = o.kind /\ r.point = o.point /\ r.comp = o.comp
  BY DEF SameButHeap
<1>2. \A b \in r.live : b[1] \in Strays => b \in o.live
  BY DEF SameStrays, Objects
<1>3. TidyKey(r) /\ r.st \in Usable
  BY <1>1 DEF TidyKey, UsableInv
<1>4. \A b \in r.live : b[1] \in Strays => StrayKnown(r, b[1])
  BY <1>1, <1>2 DEF StrayKnown, UsableInv
<1>5. PointOnce(r)
  BY <1>1, <1>2 DEF PointOnce, UsableInv, Strays
<1>6. r.st = "ready" => Led(r)
  <2>1. \A f \in {"priv", "pub", "pkey"} : (r.ptr[f] # NULL => Holds(r, f))
    BY <1>3 DEF Holds, TidyKey, Tidy, Fields, KeyFields
  <2>2. "pkey" \in Fields /\ (Holds(o, "pkey") => r.ptr["pkey"] # NULL)
    BY DEF Fields, KeyFields, Holds
  <2>3. QED  BY <1>1, <2>1, <2>2 DEF Led, Leading, UsableInv
<1>7. QED  BY <1>3, <1>4, <1>5, <1>6 DEF UsableInv

LEMMA StrdupInv ==
  ASSUME NEW o, UsableInv(o), NEW r \in Strdup(o, "propq")
  PROVE  UsableInv(r)
<1> DEFINE empty == FreeAndNull(o, {"propq"})
           full == Alloc(empty, {"propq"})
<1>0. {"priv", "pub", "pkey", "oqsName", "propq"} \subseteq Fields
  BY DEF Fields, KeyFields, GenFields
<1>1. /\ empty \in Objects /\ Tidy(empty) /\ SameButHeap(o, empty) /\ SameStrays(o, empty)
      /\ empty.ptr["propq"] = NULL /\ \A f \in Fields \ {"propq"} : empty.ptr[f] = o.ptr[f]
  BY <1>0, FreeAndNullTidy DEF UsableInv, TidyKey
<1> HIDE DEF empty
<1>2. UsableInv(empty)
  BY <1>0, <1>1, UsableKept
<1>3. /\ full \in Objects /\ Tidy(full) /\ SameButHeap(empty, full) /\ SameStrays(empty, full)
      /\ \A f \in Fields \ {"propq"} : full.ptr[f] = empty.ptr[f]
  BY <1>0, <1>1, AllocTidy
<1> HIDE DEF full
<1>4. UsableInv(full)
  BY <1>0, <1>2, <1>3, UsableKept
<1>5. QED  BY <1>2, <1>4 DEF Strdup, empty, full

\* A peer's point over a key, whatever it had.
LEMMA TakePointInv ==
  ASSUME NEW o, UsableInv(o) PROVE UsableInv(TakePoint(o))
<1> DEFINE base == [o EXCEPT !.comp.pubCl = "point"]
           there == CASE o.kind \in HybridKems /\ o.comp.pubCl \in {"null", "uninit"} -> Stray(base, "point")
                      [] o.kind \notin HybridKems /\ o.ptr["pub"] = NULL -> Alloc(o, {"pub"})
                      [] OTHER -> o
           back == FreeAndNull(there, {"priv"})
           r == [back EXCEPT !.point = IF o.comp.pubQs = "buf" THEN "over" ELSE "alone"]
<1>0. {"priv", "pub", "pkey", "oqsName"} \subseteq Fields /\ "point" \in Strays
  BY DEF Fields, KeyFields, GenFields, Strays
<1>1. o \in Objects /\ Tidy(o) /\ o.ptr["oqsName"] = NULL /\ o.kind \in KeyKinds /\ PointOnce(o)
  BY DEF UsableInv, TidyKey
\* the object before the private half goes
<1>2. /\ there \in Objects /\ Tidy(there) /\ there.st = o.st /\ there.kind = o.kind
      /\ there.comp.priv = o.comp.priv /\ there.comp.pubQs = o.comp.pubQs
      /\ \A f \in {"priv", "pkey", "oqsName"} : there.ptr[f] = o.ptr[f]
      /\ o.ptr["pub"] # NULL => there.ptr["pub"] = o.ptr["pub"]
      /\ o.comp.pubQs = "buf" => there.comp.pubCl = o.comp.pubCl
      /\ \A b \in there.live : b[1] \in Strays => b \in o.live \/ (b[1] = "point" /\ o.kind \in HybridKems)
      /\ (\E b \in there.live : b[1] = "point") => there.comp.pubCl = "point"
      /\ (\E b \in there.live : b[1] = "point") => o.comp.pubQs # "buf"
  <2>1. CASE o.kind \in HybridKems /\ o.comp.pubCl \in {"null", "uninit"}
    <3>1. there = Stray(base, "point")  BY <2>1
    <3>2. /\ base \in Objects /\ base.ptr = o.ptr /\ base.live = o.live /\ base.twice = o.twice
          /\ base.st = o.st /\ base.kind = o.kind /\ base.comp.priv = o.comp.priv
          /\ base.comp.pubQs = o.comp.pubQs /\ base.comp.pubCl = "point"
      BY <1>1 DEF Objects, Leads
    <3> HIDE DEF base
    <3>3. Tidy(base)  BY <1>1, <3>2 DEF Tidy
    <3>4. \A a \in Addrs : <<"point", a>> \notin base.live
      BY <2>1, <1>1, <3>2 DEF PointOnce
    <3>5. /\ there \in Objects /\ Tidy(there) /\ SameButHeap(base, there) /\ there.ptr = base.ptr
          /\ \A b \in there.live : b \in base.live \/ b[1] = "point"
      BY <1>0, <3>1, <3>2, <3>3, <3>4, StrayTidy
    <3> HIDE DEF there
    <3>6. o.comp.pubQs # "buf"  BY <2>1, <1>1 DEF PointOnce
    <3>7. QED  BY <2>1, <3>2, <3>5, <3>6 DEF SameButHeap
  <2>2. CASE o.kind \notin HybridKems /\ o.ptr["pub"] = NULL
    <3>1. there = Alloc(o, {"pub"})  BY <2>2
    <3>2. /\ there \in Objects /\ Tidy(there) /\ SameButHeap(o, there) /\ SameStrays(o, there)
          /\ \A f \in Fields \ {"pub"} : there.ptr[f] = o.ptr[f]
      BY <1>0, <1>1, <2>2, <3>1, AllocTidy
    <3> HIDE DEF there
    <3>3. \A b \in there.live : b[1] \in Strays => b \in o.live
      BY <3>2 DEF SameStrays, Objects
    <3>4. QED  BY <1>0, <1>1, <2>2, <3>2, <3>3 DEF SameButHeap, PointOnce
  <2>3. CASE ~(o.kind \in HybridKems /\ o.comp.pubCl \in {"null", "uninit"})
             /\ ~(o.kind \notin HybridKems /\ o.ptr["pub"] = NULL)
    <3>1. there = o  BY <2>3
    <3>2. QED  BY <1>1, <3>1 DEF PointOnce
  <2>4. QED  BY <2>1, <2>2, <2>3
<1>3. r = TakePoint(o)
  BY DEF TakePoint
<1> HIDE DEF there
<1>4. /\ back \in Objects /\ Tidy(back) /\ SameButHeap(there, back) /\ SameStrays(there, back)
      /\ back.ptr["priv"] = NULL /\ \A f \in Fields \ {"priv"} : back.ptr[f] = there.ptr[f]
  BY <1>0, <1>2, FreeAndNullTidy
<1> HIDE DEF back
<1>5. /\ r \in Objects /\ r.ptr = back.ptr /\ r.live = back.live /\ r.twice = back.twice
      /\ r.st = o.st /\ r.kind = o.kind /\ r.comp = there.comp
      /\ r.point = IF o.comp.pubQs = "buf" THEN "over" ELSE "alone"
  BY <1>2, <1>4 DEF Objects, SameButHeap
<1> HIDE DEF r
<1>6. \A b \in r.live : b[1] \in Strays => b \in there.live
  BY <1>4, <1>5 DEF SameStrays, Objects
<1>7. TidyKey(r) /\ r.st \in Usable
  BY <1>0, <1>1, <1>2, <1>4, <1>5 DEF TidyKey, Tidy, UsableInv
<1>8. PointOnce(r)
  BY <1>0, <1>1, <1>2, <1>5, <1>6 DEF PointOnce
<1>9. \A b \in r.live : b[1] \in Strays => StrayKnown(r, b[1])
  <2> SUFFICES ASSUME NEW b \in r.live, b[1] \in Strays PROVE StrayKnown(r, b[1])
    OBVIOUS
  <2>1. b \in there.live  BY <1>6
  <2>2. CASE b \in o.live
    <3>1. StrayKnown(o, b[1])  BY <2>2 DEF UsableInv
    <3>2. b[1] = "point" => r.point = "alone"  BY <2>1, <1>2, <1>5
    <3>3. QED  BY <3>1, <3>2, <1>5 DEF StrayKnown
  <2>3. CASE b[1] = "point" /\ o.kind \in HybridKems
    BY <2>1, <2>3, <1>2, <1>5 DEF StrayKnown
  <2>4. QED  BY <2>1, <2>2, <2>3, <1>2
<1>10. r.st = "ready" => Led(r)
  <2> SUFFICES ASSUME r.st = "ready" PROVE Led(r)
    OBVIOUS
  <2>1. Led(o)  BY <1>5 DEF UsableInv
  <2>2. \A f \in {"pub", "pkey"} : r.ptr[f] # NULL => Holds(r, f)
    BY <1>0, <1>7 DEF TidyKey, Tidy, Holds
  <2>3. o.kind \in Hybrids => Holds(r, "pkey")
    BY <1>0, <1>2, <1>4, <1>5, <2>1, <2>2 DEF Led, Holds
  <2>4. ASSUME o.comp.pubQs = "buf"
        PROVE  Holds(r, "pub") /\ r.comp.pubCl = "buf" /\ r.comp.pubQs = "buf"
    <3>1. o.point # "alone" /\ o.comp.pubCl = "buf"  BY <2>4, <1>1 DEF PointOnce
    <3>2. o.ptr["pub"] # NULL  BY <3>1, <2>1, <2>4 DEF Led, Leading
    <3>3. r.ptr["pub"] # NULL  BY <3>2, <1>0, <1>2, <1>4, <1>5
    <3>4. QED  BY <3>1, <3>3, <2>2, <2>4, <1>2, <1>5
  <2>5. r.point # "none" /\ r.ptr["priv"] = NULL  BY <1>4, <1>5
  <2>6. QED  BY <1>5, <2>3, <2>4, <2>5 DEF Led, Leading, Holds
<1>11. QED  BY <1>3, <1>5, <1>7, <1>8, <1>9, <1>10 DEF UsableInv

-----------------------------------------------------------------------------
(* Generation contexts.                                                    *)

LEMMA GenStrdupInv ==
  ASSUME NEW o, GenInv(o), o.st = "gctx", NEW f \in {"tlsName", "propq"}, NEW r \in Strdup(o, f)
  PROVE  GenInv(r) /\ r.st = "gctx"
<1> DEFINE empty == FreeAndNull(o, {f})
           full == Alloc(empty, {f})
<1>0. f \in Fields /\ f \in GenFields
  BY DEF Fields, KeyFields, GenFields
<1>1. /\ empty \in Objects /\ Tidy(empty) /\ SameButHeap(o, empty) /\ SameStrays(o, empty)
      /\ empty.ptr[f] = NULL /\ \A g \in Fields \ {f} : empty.ptr[g] = o.ptr[g]
  BY <1>0, FreeAndNullTidy DEF GenInv
<1> HIDE DEF empty
<1>2. /\ full \in Objects /\ Tidy(full) /\ SameButHeap(empty, full) /\ SameStrays(empty, full)
      /\ \A g \in Fields \ {f} : full.ptr[g] = empty.ptr[g]
  BY <1>0, <1>1, AllocTidy
<1> HIDE DEF full
<1>3. ASSUME NEW q \in {empty, full} PROVE GenInv(q) /\ q.st = "gctx"
  <2>1. /\ q \in Objects /\ Tidy(q) /\ q.st = "gctx" /\ q.kind = o.kind
        /\ SameStrays(o, q) /\ \A g \in Fields \ {f} : q.ptr[g] = o.ptr[g]
    BY <1>1, <1>2 DEF SameButHeap, SameStrays
  <2>2. \A b \in q.live : b[1] \in Fields
    BY <2>1, FieldsKnown DEF SameStrays, Objects, GenInv
  <2>3. QED  BY <1>0, <2>1, <2>2 DEF GenInv, Tidy
<1>4. QED  BY <1>3 DEF Strdup, empty, full

LEMMA GenInitInv ==
  ASSUME NEW kd \in Kinds, NEW names \in SUBSET {"oqsName", "tlsName"}
  PROVE  GenInv([Alloc([NoObject EXCEPT !.kind = kd], {"self"} \cup names) EXCEPT !.st = "gctx"])
<1> DEFINE o == [NoObject EXCEPT !.kind = kd]
           fs == {"self"} \cup names
           made == Alloc(o, fs)
           r == [made EXCEPT !.st = "gctx"]
<1>1. fs \subseteq GenFields /\ fs \in SUBSET Fields
  BY FieldsKnown DEF GenFields
<1>2. /\ o \in Objects /\ Tidy(o) /\ o.kind = kd /\ o.live = {} /\ \A f \in Fields : o.ptr[f] = NULL
  BY NoObjectTidy, HeapAssumption
<1> HIDE DEF o, fs
<1>3. /\ made \in Objects /\ Tidy(made) /\ SameButHeap(o, made) /\ SameStrays(o, made)
      /\ \A f \in Fields \ fs : made.ptr[f] = NULL
  BY <1>1, <1>2, AllocTidy
<1> HIDE DEF made
<1>4. /\ r \in Objects /\ r.st = "gctx" /\ r.kind = kd /\ r.ptr = made.ptr
      /\ r.live = made.live /\ r.twice = made.twice
  BY <1>2, <1>3 DEF Objects, SameButHeap
<1> HIDE DEF r
<1>5. \A b \in r.live : b[1] \in Fields
  BY <1>2, <1>3, <1>4, FieldsKnown DEF SameStrays, Objects
<1>6. GenInv(r)
  BY <1>1, <1>3, <1>4, <1>5 DEF GenInv, Tidy
<1>7. QED  BY <1>6 DEF r, made, o, fs

LEMMA GenFreeInv ==
  ASSUME NEW o, GenInv(o), o.st = "gctx"
  PROVE  GenInv([FreeFields(o, GenFields) EXCEPT !.st = "freed"])
<1> DEFINE gone == FreeFields(o, GenFields)
           r == [gone EXCEPT !.st = "freed"]
<1>1. /\ gone \in Objects /\ gone.twice = {}
      /\ \A b \in gone.live : b \in o.live /\ b[1] \in Strays
  BY FreeAll, FieldsKnown DEF GenInv
<1> HIDE DEF gone
<1>2. gone.live = {}  BY <1>1, FieldsKnown DEF GenInv
<1>3. r \in Objects /\ r.st = "freed" /\ r.live = {} /\ r.twice = {}
  BY <1>1, <1>2 DEF Objects, Gone
<1>4. QED  BY <1>3 DEF GenInv, gone

-----------------------------------------------------------------------------
(* The actions.                                                            *)

\* Every action replaces one object by one that keeps its invariant.
LEMMA KeyChange ==
  ASSUME HeapInv, NEW k \in Keys, NEW r, KeyInv(r), obj' = [obj EXCEPT ![k] = r]
  PROVE  HeapInv'
<1>1. r \in Objects /\ k \notin Gens  BY HeapAssumption DEF KeyInv
<1>2. /\ obj' \in [Keys \cup Gens -> Objects]
      /\ \A x \in Keys \cup Gens : obj'[x] = IF x = k THEN r ELSE obj[x]
  BY <1>1 DEF HeapInv
<1>3. \A j \in Keys : KeyInv(obj'[j])  BY <1>2 DEF HeapInv
<1>4. \A g \in Gens : GenInv(obj'[g])  BY <1>1, <1>2 DEF HeapInv
<1>5. QED  BY <1>2, <1>3, <1>4 DEF HeapInv

LEMMA GenChange ==
  ASSUME HeapInv, NEW g \in Gens, NEW r, GenInv(r), obj' = [obj EXCEPT ![g] = r]
  PROVE  HeapInv'
<1>1. r \in Objects /\ g \notin Keys  BY HeapAssumption DEF GenInv
<1>2. /\ obj' \in [Keys \cup Gens -> Objects]
      /\ \A x \in Keys \cup Gens : obj'[x] = IF x = g THEN r ELSE obj[x]
  BY <1>1 DEF HeapInv
<1>3. \A k \in Keys : KeyInv(obj'[k])  BY <1>1, <1>2 DEF HeapInv
<1>4. \A h \in Gens : GenInv(obj'[h])  BY <1>2 DEF HeapInv
<1>5. QED  BY <1>2, <1>3, <1>4 DEF HeapInv

\* Inside a call that fills a key.
LEMMA StageIsMaking ==
  ASSUME HeapInv, NEW k \in Keys, obj[k].st \in Stages
  PROVE  Making(obj[k]) /\ Blank(obj[k])
BY DEF HeapInv, KeyInv, Making, Blank

LEMMA KeyStep ==
  ASSUME HeapInv, NEW k \in Keys,
         \/ \E kd \in Kinds, stage \in {"opPub", "opPriv", "import", "empty"} : New(k, kd, stage)
         \/ \E g \in Gens : GenkeyNew(g, k)
         \/ \E fs \in SUBSET {"priv", "pub"} : Import(k, fs)
         \/ \E fs \in SUBSET {"point", "propq"} : SetParams(k, fs)
         \/ Generate(k) \/ Decode(k) \/ Free(k)
  PROVE  HeapInv'
<1>1. ASSUME NEW kd \in Kinds, NEW stage \in {"opPub", "opPriv", "import", "empty"}, New(k, kd, stage)
      PROVE  HeapInv'
  <2>1. PICK r \in KeyNew(obj[k], kd, FALSE, TRUE, stage) : obj' = [obj EXCEPT ![k] = r]
    BY <1>1 DEF New
  <2>2. obj[k] = NoObject /\ kd \in KeyKinds /\ stage \in Stages \cup {"empty"}
    BY <1>1, HeapAssumption DEF New, HeapInv, KeyInv, Stages
  <2>3. KeyInv(r)  BY <2>1, <2>2, KeyNewInv
  <2>4. QED  BY <2>1, <2>3, KeyChange
<1>2. ASSUME NEW g \in Gens, GenkeyNew(g, k) PROVE HeapInv'
  <2> DEFINE p == obj[g].ptr["propq"] # NULL
             named == NULL \notin {obj[g].ptr["oqsName"], obj[g].ptr["tlsName"]}
  <2>1. PICK r \in KeyNew(obj[k], obj[g].kind, p, named, "gen") : obj' = [obj EXCEPT ![k] = r]
    BY <1>2 DEF GenkeyNew
  <2>2. obj[k] = NoObject /\ obj[g].kind \in KeyKinds /\ "gen" \in Stages \cup {"empty"}
    BY <1>2, HeapAssumption DEF GenkeyNew, HeapInv, KeyInv, GenInv, Stages
  <2>3. p \in BOOLEAN /\ named \in BOOLEAN  OBVIOUS
  <2> HIDE DEF p, named
  <2>4. KeyInv(r)  BY <2>1, <2>2, <2>3, KeyNewInv
  <2>5. QED  BY <2>1, <2>4, KeyChange
<1>3. ASSUME NEW fs \in SUBSET {"priv", "pub"}, Import(k, fs) PROVE HeapInv'
  <2>1. PICK r \in FromData(obj[k], fs) : obj' = [obj EXCEPT ![k] = r]
    BY <1>3 DEF Import, Becomes
  <2>2. KeyInv(r)  BY <1>3, <2>1, StageIsMaking, FromDataInv DEF Import, Stages
  <2>3. QED  BY <2>1, <2>2, KeyChange
<1>4. ASSUME NEW fs \in SUBSET {"point", "propq"}, SetParams(k, fs) PROVE HeapInv'
  <2> DEFINE o == IF "point" \in fs THEN TakePoint(obj[k]) ELSE obj[k]
  <2>1. PICK r \in (IF "propq" \in fs THEN Strdup(o, "propq") ELSE {o}) : obj' = [obj EXCEPT ![k] = r]
    BY <1>4 DEF SetParams, Becomes
  <2>2. UsableInv(obj[k])  BY <1>4, UsableIsInv DEF SetParams, HeapInv
  <2>3. UsableInv(o)  BY <2>2, TakePointInv
  <2> HIDE DEF o
  <2>4. UsableInv(r)  BY <2>1, <2>3, StrdupInv
  <2>5. QED  BY <2>1, <2>4, UsableIsInv, KeyChange
<1>5. ASSUME Generate(k) PROVE HeapInv'
  <2>1. PICK r \in KeyGen(obj[k]) : obj' = [obj EXCEPT ![k] = r]
    BY <1>5 DEF Generate, Becomes
  <2>2. KeyInv(r)  BY <1>5, <2>1, StageIsMaking, KeyGenInv DEF Generate, Stages
  <2>3. QED  BY <2>1, <2>2, KeyChange
<1>6. ASSUME Decode(k) PROVE HeapInv'
  <2>1. PICK op \in {"public", "private"} :
          obj[k].st \in Stages /\ \E r \in KeyOp(obj[k], op) : obj' = [obj EXCEPT ![k] = r]
    BY <1>6 DEF Decode, Becomes, Stages
  <2>2. PICK r \in KeyOp(obj[k], op) : obj' = [obj EXCEPT ![k] = r]
    BY <2>1
  <2>3. KeyInv(r)  BY <2>1, <2>2, StageIsMaking, KeyOpInv
  <2>4. QED  BY <2>2, <2>3, KeyChange
<1>7. ASSUME Free(k) PROVE HeapInv'
  <2>1. obj' = [obj EXCEPT ![k] = KeyFree(obj[k])] /\ obj[k].st \in Usable
    BY <1>7 DEF Free, Becomes
  <2>2. KeyInv(KeyFree(obj[k]))
    BY <2>1, UsableIsInv, KeyFreeInv DEF HeapInv, UsableInv
  <2>3. QED  BY <2>1, <2>2, KeyChange
<1>8. QED  BY <1>1, <1>2, <1>3, <1>4, <1>5, <1>6, <1>7

LEMMA GenStep ==
  ASSUME HeapInv, NEW g \in Gens,
         \/ \E kd \in Kinds : GenInit(g, kd)
         \/ \E fs \in SUBSET {"tlsName", "propq"} : GenSetParams(g, fs)
         \/ GenCleanup(g)
  PROVE  HeapInv'
<1>0. GenInv(obj[g]) /\ g \in DOMAIN obj  BY DEF HeapInv
<1>1. ASSUME NEW kd \in Kinds, GenInit(g, kd) PROVE HeapInv'
  <2>1. PICK names \in SUBSET {"oqsName", "tlsName"} :
          obj' = [obj EXCEPT ![g] = [Alloc([obj[g] EXCEPT !.kind = kd], {"self"} \cup names)
                                       EXCEPT !.st = "gctx"]]
    BY <1>1, <1>0 DEF GenInit
  <2>2. obj[g] = NoObject  BY <1>0, <1>1 DEF GenInit, GenInv
  <2>3. QED  BY <2>1, <2>2, GenInitInv, GenChange
<1>2. ASSUME NEW fs \in SUBSET {"tlsName", "propq"}, GenSetParams(g, fs) PROVE HeapInv'
  <2>1. PICK r \in (IF "tlsName" \in fs THEN Strdup(obj[g], "tlsName") ELSE {obj[g]}) :
          Becomes(g, IF "propq" \in fs THEN Strdup(r, "propq") ELSE {r})
    BY <1>2 DEF GenSetParams
  <2>2. PICK q \in (IF "propq" \in fs THEN Strdup(r, "propq") ELSE {r}) : obj' = [obj EXCEPT ![g] = q]
    BY <2>1 DEF Becomes
  <2>3. obj[g].st = "gctx"  BY <1>2 DEF GenSetParams
  <2>4. GenInv(r) /\ r.st = "gctx"  BY <1>0, <2>1, <2>3, GenStrdupInv
  <2>5. GenInv(q)  BY <2>2, <2>4, GenStrdupInv
  <2>6. QED  BY <2>2, <2>5, GenChange
<1>3. ASSUME GenCleanup(g) PROVE HeapInv'
  <2>1. /\ obj[g].st = "gctx"
        /\ obj' = [obj EXCEPT ![g] = [FreeFields(obj[g], GenFields) EXCEPT !.st = "freed"]]
    BY <1>0, <1>3 DEF GenCleanup
  <2>2. QED  BY <1>0, <2>1, GenFreeInv, GenChange
<1>4. QED  BY <1>1, <1>2, <1>3

-----------------------------------------------------------------------------
(* The theorems.                                                           *)

\* The inductive invariant holds of any number of keys and contexts, in every
\* build: what an object of each stage owns, whatever failed before.
THEOREM HeapInvariant == Spec => []HeapInv
<1>1. Init => HeapInv
  BY NoObjectInv DEF Init, HeapInv, KeyInv
<1>2. HeapInv /\ [Next]_obj => HeapInv'
  <2> SUFFICES ASSUME HeapInv, [Next]_obj PROVE HeapInv'
    OBVIOUS
  <2>1. CASE Next
    BY <2>1, KeyStep, GenStep DEF Next
  <2>2. CASE obj' = obj
    BY <2>2 DEF HeapInv
  <2>3. QED  BY <2>1, <2>2
<1>3. QED  BY <1>1, <1>2, PTL DEF Spec

\* An object is always one of the records the module lists.
THEOREM HeapTypeCorrect == Spec => []TypeOK
<1>1. HeapInv => TypeOK  BY DEF HeapInv, TypeOK
<1>2. QED  BY <1>1, HeapInvariant, PTL

\* Every field of an object in use is NULL or owns a live block, and nothing
\* is given back twice save the object whose lock could not be made.
THEOREM OwnedOnceHolds == Spec => []OwnedOnce
<1>1. HeapInv => OwnedOnce
  <2> SUFFICES ASSUME HeapInv, NEW x \in Keys \cup Gens
               PROVE  /\ obj[x].st \notin Gone =>
                           \A f \in Fields : obj[x].ptr[f] = NULL \/ Holds(obj[x], f)
                      /\ obj[x].twice # {} =>
                           NoAtomic /\ obj[x].st = "aborted" /\ obj[x].twice = {"self"}
    BY DEF OwnedOnce
  <2>1. CASE x \in Keys
    <3>1. KeyInv(obj[x]) /\ obj[x] \in Objects  BY <2>1 DEF HeapInv
    <3>2. obj[x].st \notin Gone => Tidy(obj[x])
      BY <3>1 DEF KeyInv, TidyKey, Objects
    <3>3. QED  BY <3>1, <3>2 DEF KeyInv, Tidy, Holds
  <2>2. CASE x \in Gens
    <3>1. GenInv(obj[x])  BY <2>2 DEF HeapInv
    <3>2. QED  BY <3>1 DEF GenInv, Tidy, Holds, Gone
  <2>3. QED  BY <2>1, <2>2
<1>2. QED  BY <1>1, HeapInvariant, PTL

\* No block is lost but at the five places LeaksAreKnown names.
THEOREM LeaksAreKnownHolds == Spec => []LeaksAreKnown
<1>1. HeapInv => LeaksAreKnown
  <2> SUFFICES ASSUME HeapInv, NEW x \in Keys \cup Gens, NEW b \in obj[x].live
      PROVE  \/ obj[x].st \notin Gone /\ b[1] \in Fields /\ obj[x].ptr[b[1]] = b[2]
             \/ obj[x].st = "aborted" /\ b[1] \in KeyFields \ {"self", "propq"}
             \/ obj[x].st = "lost" /\ b[1] \in KeyFields \ {"pkey"}
             \/ StrayKnown(obj[x], b[1])
    BY DEF LeaksAreKnown, StrayKnown
  <2>1. CASE x \in Keys
    <3>1. KeyInv(obj[x]) /\ b[1] \in Fields \cup Strays  BY <2>1 DEF HeapInv, Objects
    <3>2. CASE b[1] \in Strays
      BY <3>1, <3>2 DEF KeyInv
    <3>3. CASE b[1] \in Fields /\ obj[x].st \in Gone
      BY <3>1, <3>3 DEF KeyInv
    <3>4. CASE b[1] \in Fields /\ obj[x].st \notin Gone
      <4>1. Tidy(obj[x])  BY <3>1, <3>4 DEF KeyInv, TidyKey, Objects
      <4>2. QED  BY <3>4, <4>1 DEF Tidy
    <3>5. QED  BY <3>1, <3>2, <3>3, <3>4
  <2>2. CASE x \in Gens
    <3>1. GenInv(obj[x])  BY <2>2 DEF HeapInv
    <3>2. obj[x].st = "gctx"  BY <3>1 DEF GenInv, NoObject
    <3>3. QED  BY <3>1, <3>2 DEF GenInv, Tidy, Gone
  <2>3. QED  BY <2>1, <2>2
<1>2. QED  BY <1>1, HeapInvariant, PTL

\* A ready key has its halves where the comp pointers lead, save what a point
\* written over it leaves.
THEOREM HalvesLeadHolds == Spec => []HalvesLead
<1>1. HeapInv => HalvesLead
  BY DEF HeapInv, KeyInv, Led, Leading, HalvesLead
<1>2. QED  BY <1>1, HeapInvariant, PTL
=============================================================================
