----------------------------- MODULE OqsxKeyHeap -----------------------------
(***************************************************************************)
(* Who owns the memory of an OQSX_KEY and of a key generation context.     *)
(* oqsx_key_new makes up to eleven allocations, the functions that fill a  *)
(* key three more; each can fail, and each error path has to give back     *)
(* exactly what was there (oqsprov_keys.c, oqs_kmgmt.c).                   *)
(*                                                                         *)
(* An object is its pointer fields, the blocks the heap has given it, and  *)
(* where its comp pointers lead.  Blocks are explicit so that one that is  *)
(* freed twice, forgotten, or still pointed to can be seen.  A key under   *)
(* construction is in a stage named for the call that makes it; what is in *)
(* the buffers is the matter of OqsxKeyMaterial, how many share a key that *)
(* of OqsxKeyRef: here a key has one holder.                               *)
(***************************************************************************)
EXTENDS Naturals, Sequences, FiniteSets

CONSTANTS
  Keys,         \* OQSX_KEY objects
  Gens,         \* key generation contexts, struct oqsx_gen_ctx
  Kinds,        \* the kinds of algorithm in use
  Addrs,        \* addresses of one field's block; a freed one is used again
  NoAtomic,     \* built with OQS_PROVIDER_NOATOMIC: keys have a lock
  NoPubInPriv   \* built with NOPUBKEY_IN_PRIVKEY

HybridKems == {"ECP", "ECX"}
Hybrids == HybridKems \cup {"HYB_SIG", "HYB_RSA"}
KeyKinds == {"SIG", "KEM"} \cup Hybrids

ASSUME HeapAssumption ==
  /\ Keys \cap Gens = {}
  /\ Kinds \subseteq KeyKinds
  /\ Addrs \subseteq Nat \ {0} /\ Addrs # {}
  /\ NoAtomic \in BOOLEAN /\ NoPubInPriv \in BOOLEAN

\* The pointer fields that own a block.  evp is the OQSX_EVP_CTX, evpCtx
\* and keyParam are what it points to, qs is the OQS_SIG or OQS_KEM.
KeyFields == {"self", "lock", "compPriv", "compPub", "qs", "evp", "evpCtx",
              "keyParam", "tlsName", "propq", "priv", "pub", "pkey"}
GenFields == {"self", "oqsName", "tlsName", "propq"}
Fields == KeyFields \cup GenFields

\* Blocks no field owns: the memory behind a comp_pubkey[0] that was NULL,
\* an encoding that i2d_PublicKey allocates, an EVP_PKEY without parameters.
Strays == {"point", "encoding", "npk"}

NULL == 0
Stages == {"gen", "opPub", "opPriv", "import"}    \* inside a call
Usable == {"empty", "ready", "half"}              \* in the hands of EVP
Gone == {"none", "aborted", "lost", "freed"}

\* comp pointers: never set, NULL, into the key's buffer, to a stray block.
Leads == {"uninit", "null", "buf", "point"}

VARIABLE obj    \* obj[o]: a key or a generation context

NoObject ==
  [st |-> "none", kind |-> "none", ptr |-> [f \in Fields |-> NULL], live |-> {},
   twice |-> {}, point |-> "none",
   comp |-> [priv |-> "uninit", pubCl |-> "uninit", pubQs |-> "uninit"]]

Objects ==
  [st : {"gctx"} \cup Stages \cup Usable \cup Gone, kind : KeyKinds \cup {"none"},
   ptr : [Fields -> Addrs \cup {NULL}], live : SUBSET ((Fields \cup Strays) \X Addrs),
   twice : SUBSET Fields,    \* ghost: blocks given back when they were not live
   point : {"none", "over", "alone"},   \* ghost: a point was taken, over a
                            \* public half that comp_pubkey leads to or without
   comp : [priv : Leads, pubCl : Leads, pubQs : Leads]]

TypeOK == obj \in [Keys \cup Gens -> Objects]

Init == obj = [o \in Keys \cup Gens |-> NoObject]

-----------------------------------------------------------------------------
(* The allocator.                                                          *)

Blocks(o, fs) == {<<f, o.ptr[f]>> : f \in fs}
Address(o, f) == CHOOSE a \in Addrs : <<f, a>> \notin o.live

Alloc(o, fs) ==
  [o EXCEPT !.ptr = [f \in Fields |-> IF f \in fs THEN Address(o, f) ELSE o.ptr[f]],
            !.live = @ \cup {<<f, Address(o, f)>> : f \in fs}]

Stray(o, f) == [o EXCEPT !.live = @ \cup {<<f, Address(o, f)>>}]

\* OPENSSL_free and its like do nothing with NULL.
FreeFields(o, fs) ==
  [o EXCEPT !.live = @ \ Blocks(o, fs),
            !.twice = @ \cup {f \in fs : o.ptr[f] # NULL /\ <<f, o.ptr[f]>> \notin o.live}]

SetNull(o, fs) == [o EXCEPT !.ptr = [f \in Fields |-> IF f \in fs THEN NULL ELSE o.ptr[f]]]

FreeAndNull(o, fs) == SetNull(FreeFields(o, fs), fs)

\* Mutant: what the OQSX_EVP_CTX points to is freed, keyParam is forgotten.
KeyFreeForgets(o) == [FreeFields(o, KeyFields \ {"keyParam"}) EXCEPT !.st = "freed"]

\* oqsx_key_free on the last reference: every field, what evp points to first.
KeyFree(o) == [FreeFields(o, KeyFields) EXCEPT !.st = "freed"]

-----------------------------------------------------------------------------
(* oqsx_key_new, and the OQSX_EVP_CTX initialisers it calls.               *)

\* What each kind allocates, in this order.
KindOrder(kd) ==
  CASE kd \in {"SIG", "KEM"} -> <<"compPriv", "compPub", "qs">>
    [] kd \in {"ECP", "HYB_SIG"} -> <<"qs", "evp", "evpCtx", "keyParam", "compPriv", "compPub">>
    [] kd = "ECX" -> <<"qs", "evp", "keyParam", "evpCtx", "compPriv", "compPub">>
    [] kd = "HYB_RSA" -> <<"qs", "evp", "evpCtx", "compPriv", "compPub">>

Header == IF NoAtomic THEN <<"self", "lock">> ELSE <<"self">>

NewOrder(kd, withPropq) ==
  Header \o KindOrder(kd) \o <<"tlsName">> \o (IF withPropq THEN <<"propq">> ELSE <<>>)

\* Allocations whose failure the code does not look at.
Unchecked == {"compPriv", "compPub", "tlsName"}

\* Everything the first n steps got, when the unchecked ones in miss failed.
Got(order, n, miss) == {order[i] : i \in 1 .. n} \ miss

\* What err: leaves of a key that got fs when f failed: only the object is
\* freed.  oqsx_hybsig_init gives its ctx back itself, and a failing lock
\* frees the object a second time.
Aborted(o, kd, fs, f) ==
  LET made == Alloc([o EXCEPT !.kind = kd], fs)
      back == IF kd = "HYB_SIG" /\ f = "keyParam" THEN FreeAndNull(made, {"evpCtx"}) ELSE made
      gone == FreeFields(back, {"self"})
  IN  [IF f = "lock" THEN FreeFields(gone, {"self"}) ELSE gone EXCEPT !.st = "aborted"]

\* The keys oqsx_key_new may make for a call, those it gives up included.
\* Without a name it ends before the first allocation of its kind.
KeyNew(o, kd, withPropq, named, stage) ==
  LET order == NewOrder(kd, withPropq)
  IN  {Aborted(o, kd, Got(order, n, miss), order[n + 1]) :
         n \in {i \in 0 .. Len(order) - 1 : order[i + 1] \notin Unchecked
                                            /\ (named \/ i < Len(Header))},
         miss \in SUBSET Unchecked}
      \cup
      IF named
      THEN {[Alloc([o EXCEPT !.kind = kd], Got(order, Len(order), miss)) EXCEPT !.st = stage] :
              miss \in SUBSET Unchecked}
      ELSE {Aborted(o, kd, Got(order, Len(Header), {}), "name")}

\* A key constructor of keymgmt, or the start of a decode or an import.
New(k, kd, stage) ==
  /\ obj[k].st = "none"
  /\ \E r \in KeyNew(obj[k], kd, FALSE, TRUE, stage) : obj' = [obj EXCEPT ![k] = r]

\* oqsx_genkey up to the key object.
GenkeyNew(g, k) ==
  /\ obj[g].st = "gctx"
  /\ obj[k].st = "none"
  /\ \E r \in KeyNew(obj[k], obj[g].kind, obj[g].ptr["propq"] # NULL,
                     NULL \notin {obj[g].ptr["oqsName"], obj[g].ptr["tlsName"]}, "gen") :
       obj' = [obj EXCEPT ![k] = r]

-----------------------------------------------------------------------------
(* Filling a key.                                                          *)

\* The code writes through both arrays without a look at them: what happens
\* where one could not be allocated is not defined.
HasComps(o) == NULL \notin {o.ptr["compPriv"], o.ptr["compPub"]}

\* oqsx_key_set_composites.
SetComposites(o) ==
  LET Lead(f) == IF o.ptr[f] = NULL THEN "null" ELSE "buf"
  IN  [o EXCEPT !.comp = [priv |-> Lead("priv"), pubCl |-> Lead("pub"), pubQs |-> Lead("pub")]]

Done(o, st) == [o EXCEPT !.st = st]

\* oqsx_key_gen: public buffer, private buffer, classical key, comp pointers,
\* OQS key.  oqsx_genkey forgets the key on any failure it is told of; a
\* failed classical generation it is not told of.
KeyGen(o) ==
  LET pub == Alloc(o, {"pub"})
      both == Alloc(pub, {"priv"})
      set == SetComposites(both)
      full == IF o.kind \in Hybrids THEN Alloc(set, {"pkey"}) ELSE set
  IN  {Done(o, "lost"), Done(pub, "lost")}
      \cup (IF o.kind \in Hybrids THEN {Done(both, "half")} ELSE {})
      \cup (IF HasComps(o) THEN {Done(FreeAndNull(full, {"pkey"}), "lost"), Done(full, "ready")}
                           ELSE {})

\* oqsx_key_recreate_classickey: the keys it may leave, with its verdict.
\* An EC public key is read into an EVP_PKEY made beforehand, which is lost
\* when setECParams fails.  i2d_PublicKey writes the public key of a private
\* one to where comp_pubkey[0] points, or to new memory if that is NULL.
Recreate(o, op) ==
  LET got == Alloc(o, {"pkey"})
      kept == IF op = "private" /\ ~NoPubInPriv /\ o.kind # "ECX" /\ o.comp.pubCl = "null"
              THEN Stray(got, "encoding") ELSE got
  IN  IF o.kind \notin Hybrids THEN {<<o, TRUE>>}
      ELSE {<<o, FALSE>>, <<kept, TRUE>>}
           \cup (IF op = "private" /\ ~NoPubInPriv THEN {<<kept, FALSE>>} ELSE {})
           \cup (IF op = "public" /\ o.kind \in {"ECP", "HYB_SIG"}
                 THEN {<<Stray(o, "npk"), FALSE>>} ELSE {})

\* The end of oqsx_key_op and of an import: comp pointers, classical key, and
\* the key is handed out or freed (the import's caller frees it).
Complete(o, op) ==
  IF ~HasComps(o) THEN {}
  ELSE {IF r[2] THEN Done(r[1], "ready") ELSE KeyFree(r[1]) : r \in Recreate(SetComposites(o), op)}

\* Mutant: buffers are allocated by the caller after the pointers are set.
KeyOpCompsFirst(o, op) ==
  LET first == Alloc(o, IF op = "public" THEN {"pub"} ELSE {"priv"})
      both == IF op = "public" \/ NoPubInPriv THEN first ELSE Alloc(first, {"pub"})
  IN  {KeyFree(o), KeyFree(first)}
      \cup {[r EXCEPT !.comp = SetComposites(o).comp] : r \in Complete(both, op)}

\* oqsx_key_op after oqsx_key_new: a wrong length or a failed allocation goes
\* to err:, which frees the key.
KeyOp(o, op) ==
  LET first == Alloc(o, IF op = "public" THEN {"pub"} ELSE {"priv"})
      both == IF op = "public" \/ NoPubInPriv THEN first ELSE Alloc(first, {"pub"})
  IN  {KeyFree(o), KeyFree(first)} \cup Complete(both, op)

\* oqsx_key_fromdata with the parameters in fs, of which it wants one: each
\* is checked, then allocated, private key first.
FromData(o, fs) ==
  {KeyFree(Alloc(o, part)) : part \in {{}, fs \cap {"priv"}}}
  \cup (IF fs = {} THEN {}
        ELSE Complete(Alloc(o, fs), IF "priv" \in fs THEN "private" ELSE "public"))

Becomes(k, results) == \E r \in results : obj' = [obj EXCEPT ![k] = r]

Generate(k) == obj[k].st = "gen" /\ Becomes(k, KeyGen(obj[k]))

Decode(k) == \/ obj[k].st = "opPub" /\ Becomes(k, KeyOp(obj[k], "public"))
             \/ obj[k].st = "opPriv" /\ Becomes(k, KeyOp(obj[k], "private"))

Import(k, fs) == obj[k].st = "import" /\ Becomes(k, FromData(obj[k], fs))

-----------------------------------------------------------------------------
(* A key in use.                                                           *)

\* The encoded public key of oqsx_set_params.  A hybrid KEM writes through
\* comp_pubkey[0], which gets new memory if it is NULL; of a pointer nobody
\* set that is the one outcome that is defined.  Others fill pubkey, or get
\* one.  Then the private key goes, and the comp pointers stay.
TakePoint(o) ==
  LET there == CASE o.kind \in HybridKems /\ o.comp.pubCl \in {"null", "uninit"} ->
                      Stray([o EXCEPT !.comp.pubCl = "point"], "point")
                 [] o.kind \notin HybridKems /\ o.ptr["pub"] = NULL -> Alloc(o, {"pub"})
                 [] OTHER -> o
  IN  [FreeAndNull(there, {"priv"}) EXCEPT !.point = IF o.comp.pubQs = "buf" THEN "over" ELSE "alone"]

\* Mutant: the old string is freed, the field keeps its address.
StrdupKeeps(o, f) == {FreeFields(o, {f}), Alloc(FreeFields(o, {f}), {f})}

\* set_property_query and the setters of the generation context: the old
\* string is freed, the copy of the new one may fail.
Strdup(o, f) == {FreeAndNull(o, {f}), Alloc(FreeAndNull(o, {f}), {f})}

\* oqsx_set_params with a point, a property query, or both.
SetParams(k, fs) ==
  LET o == IF "point" \in fs THEN TakePoint(obj[k]) ELSE obj[k]
  IN  /\ obj[k].st \in Usable
      /\ "point" \in fs /\ o.kind \in HybridKems => o.ptr["compPub"] # NULL
      /\ Becomes(k, IF "propq" \in fs THEN Strdup(o, "propq") ELSE {o})

\* The holder lets go: oqsx_key_free.
Free(k) == obj[k].st \in Usable /\ Becomes(k, {KeyFree(obj[k])})

-----------------------------------------------------------------------------
(* Key generation contexts.                                                *)

\* oqsx_gen_init: neither copy of a name is checked.
GenInit(g, kd) ==
  /\ obj[g].st = "none"
  /\ \E names \in SUBSET {"oqsName", "tlsName"} :
       obj' = [obj EXCEPT ![g] = [Alloc([@ EXCEPT !.kind = kd], {"self"} \cup names)
                                    EXCEPT !.st = "gctx"]]

\* oqsx_gen_set_params with a group name, a property query, or both.
GenSetParams(g, fs) ==
  /\ obj[g].st = "gctx"
  /\ \E r \in (IF "tlsName" \in fs THEN Strdup(obj[g], "tlsName") ELSE {obj[g]}) :
       Becomes(g, IF "propq" \in fs THEN Strdup(r, "propq") ELSE {r})

GenCleanup(g) ==
  /\ obj[g].st = "gctx"
  /\ obj' = [obj EXCEPT ![g] = [FreeFields(@, GenFields) EXCEPT !.st = "freed"]]

Next ==
  \/ \E k \in Keys :
       \/ \E kd \in Kinds, stage \in {"opPub", "opPriv", "import", "empty"} : New(k, kd, stage)
       \/ \E g \in Gens : GenkeyNew(g, k)
       \/ \E fs \in SUBSET {"priv", "pub"} : Import(k, fs)
       \/ \E fs \in SUBSET {"point", "propq"} : SetParams(k, fs)
       \/ Generate(k) \/ Decode(k) \/ Free(k)
  \/ \E g \in Gens :
       \/ \E kd \in Kinds : GenInit(g, kd)
       \/ \E fs \in SUBSET {"tlsName", "propq"} : GenSetParams(g, fs)
       \/ GenCleanup(g)

Spec == Init /\ [][Next]_obj

-----------------------------------------------------------------------------
Holds(o, f) == o.ptr[f] # NULL /\ <<f, o.ptr[f]>> \in o.live

\* Every field of an object in use is NULL or owns a live block, and nothing
\* is ever given back twice: not where a setter frees a string and cannot
\* copy the new one, not on any path to err:.  One exception: where the lock
\* of a key cannot be made, oqsx_key_new frees the object and goes to err:,
\* which frees it again (oqsprov_keys.c:767).
OwnedOnce ==
  \A x \in Keys \cup Gens :
    LET o == obj[x] IN
    /\ o.st \notin Gone => \A f \in Fields : o.ptr[f] = NULL \/ Holds(o, f)
    /\ o.twice # {} => NoAtomic /\ o.st = "aborted" /\ o.twice = {"self"}

\* No memory is lost, whichever allocation or library call fails, save what
\* these lines lose: err: of oqsx_key_new frees the object only (:923);
\* oqsx_genkey drops a key that oqsx_key_gen failed on (oqs_kmgmt.c:501);
\* the memory behind a comp_pubkey[0] that was NULL (oqs_kmgmt.c:425); the
\* encoding i2d_PublicKey allocates where there is no public buffer, in an
\* import of the private half of a hybrid (:566); the EVP_PKEY that
\* setECParams fails on (:517).
LeaksAreKnown ==
  \A x \in Keys \cup Gens : \A b \in obj[x].live :
    LET o == obj[x] IN
    \/ o.st \notin Gone /\ b[1] \in Fields /\ o.ptr[b[1]] = b[2]
    \/ o.st = "aborted" /\ b[1] \in KeyFields \ {"self", "propq"}
    \/ o.st = "lost" /\ b[1] \in KeyFields \ {"pkey"}
    \/ b[1] = "point" /\ o.point = "alone" /\ o.kind \in HybridKems
    \/ b[1] = "encoding" /\ o.kind \in Hybrids \ {"ECX"} /\ ~NoPubInPriv
    \/ b[1] = "npk" /\ o.kind \in {"ECP", "HYB_SIG"} /\ o.st = "freed"

\* A key that was generated, imported or decoded has what oqsx_has says it
\* has where the operations look for it: each half in a live buffer with the
\* comp pointers into that buffer, NULL where there is none, and a classical
\* key beside it.  A point set over a public half leaves a comp_privkey into
\* freed memory, which a decapsulation reads unchecked (oqs_kem.c:150); one
\* set where there is none leaves comp_pubkey as it was (oqs_kmgmt.c:430).
HalvesLead ==
  \A k \in Keys :
    LET o == obj[k]
        Leading(f, lead) == IF o.ptr[f] = NULL THEN lead = "null" ELSE Holds(o, f) /\ lead = "buf"
    IN  o.st = "ready" =>
          /\ Leading("priv", o.comp.priv) \/ (o.point # "none" /\ o.ptr["priv"] = NULL)
          /\ o.point # "alone" =>
               /\ Leading("pub", o.comp.pubCl) /\ Leading("pub", o.comp.pubQs)
               /\ o.ptr["priv"] # NULL \/ o.ptr["pub"] # NULL
          /\ o.kind \in Hybrids => Holds(o, "pkey")
=============================================================================
