----------------------------- MODULE OqsxKeyRef -----------------------------
(***************************************************************************)
(* Reference counting of OQSX_KEY objects (oqsprov_keys.c) by everything   *)
(* that keeps a pointer to one: key handles of the EVP layer, signature    *)
(* contexts (oqs_sig.c), KEM contexts (oqs_kem.c) and the local variable   *)
(* of the DER decoder (oqs_decode_der2key.c).                              *)
(*                                                                         *)
(* Threads run provider calls step by step.  The atomic read-modify-write  *)
(* of key->references is one step; what the call does with the value it    *)
(* got back is a later step, so calls of other threads fall between them.  *)
(***************************************************************************)
EXTENDS Integers, FiniteSets

CONSTANTS Threads,
          Keys,      \* one identity per allocation; an address is never reused
          Handles,   \* keydata pointers of the EVP layer (EVP_PKEY objects)
          SigCtxs,   \* PROV_OQSSIG_CTX objects
          KemCtxs,   \* PROV_OQSKEM_CTX objects
          Null,
          Lost       \* the holder of a reference nobody has a pointer to

Ctxs == SigCtxs \cup KemCtxs

\* The places a counted reference can live in.
Tokens == Handles \cup Ctxs \cup Threads

ASSUME TokensAssumption ==
  /\ Handles \cap Ctxs = {}
  /\ Handles \cap Threads = {}
  /\ Ctxs \cap Threads = {}
  /\ SigCtxs \cap KemCtxs = {}
  /\ Null \notin Tokens \cup Keys
  /\ Lost \notin Tokens \cup Keys
  /\ IsFiniteSet(Tokens)

VARIABLES
  mem,    \* mem[k]: "unused", "live" or "freed"
  refs,   \* refs[k]: key->references
  ptr,    \* ptr[c]: the field sig or kem of context c
  own,    \* own[x]: the key whose reference x must give back, or Null
  lost,   \* keys with a reference that no pointer leads to any more
  hold,   \* hold[h]: the threads with a reference to the EVP_PKEY of h
  user,   \* user[c]: the thread context c belongs to, Null if c is not allocated
  call    \* call[t]: the provider call thread t is in

vars == <<mem, refs, ptr, own, lost, hold, user, call>>

(***************************************************************************)
(* A call in progress: its kind, its program counter, the context it works *)
(* on, the token its key argument came from, that key, the argument of the *)
(* oqsx_key_free it makes, and the last counter value it read.             *)
(***************************************************************************)
Ops == {"none", "init", "dup", "freectx", "drop", "decode", "use"}
Pcs == {"idle", "upref", "upret", "decr", "free", "ret", "copy", "callback", "run"}

Frame == [op : Ops, pc : Pcs, ctx : Ctxs \cup {Null}, src : Tokens \cup {Null},
          key : Keys \cup {Null}, victim : Keys \cup {Null}, cnt : Int]

NoCall == [op |-> "none", pc |-> "idle", ctx |-> Null, src |-> Null,
           key |-> Null, victim |-> Null, cnt |-> 0]

\* Thread t enters a call.
Enter(t, op, pc, ctx, src, key, victim) ==
  call' = [call EXCEPT ![t] = [op |-> op, pc |-> pc, ctx |-> ctx, src |-> src,
                               key |-> key, victim |-> victim, cnt |-> 0]]

Idle(t) == call[t].pc = "idle"
At(t, op, pc) == call[t].op = op /\ call[t].pc = pc
Goto(t, pc) == call' = [call EXCEPT ![t].pc = pc]
Return(t) == call' = [call EXCEPT ![t] = NoCall]

TypeOK ==
  /\ mem \in [Keys -> {"unused", "live", "freed"}]
  /\ refs \in [Keys -> Int]
  /\ ptr \in [Ctxs -> Keys \cup {Null}]
  /\ own \in [Tokens -> Keys \cup {Null}]
  /\ lost \in SUBSET Keys
  /\ hold \in [Handles -> SUBSET Threads]
  /\ user \in [Ctxs -> Threads \cup {Null}]
  /\ call \in [Threads -> Frame]

Init ==
  /\ mem = [k \in Keys |-> "unused"]
  /\ refs = [k \in Keys |-> 0]
  /\ ptr = [c \in Ctxs |-> Null]
  /\ own = [x \in Tokens |-> Null]
  /\ lost = {}
  /\ hold = [h \in Handles |-> {}]
  /\ user = [c \in Ctxs |-> Null]
  /\ call = [t \in Threads |-> NoCall]

-----------------------------------------------------------------------------
(* Keys come into being: oqsx_key_new leaves references = 1.               *)

\* Mutant: oqsx_key_new forgets references = 1.
AllocUncounted(k) ==
  /\ mem[k] = "unused"
  /\ mem' = [mem EXCEPT ![k] = "live"]
  /\ UNCHANGED refs

Alloc(k) ==
  /\ mem[k] = "unused"
  /\ mem' = [mem EXCEPT ![k] = "live"]
  /\ refs' = [refs EXCEPT ![k] = 1]

UnusedHandle(h) == hold[h] = {} /\ own[h] = Null

\* A key constructor or a successful oqsx_genkey hands the key to the EVP layer.
NewKey(t, k, h) ==
  /\ Idle(t)
  /\ UnusedHandle(h)
  /\ Alloc(k)
  /\ own' = [own EXCEPT ![h] = k]
  /\ hold' = [hold EXCEPT ![h] = {t}]
  /\ UNCHANGED <<ptr, lost, user, call>>

\* oqsx_genkey returns NULL when oqsx_key_gen fails and does not free the key.
GenkeyFails(t, k) ==
  /\ Idle(t)
  /\ Alloc(k)
  /\ lost' = lost \cup {k}
  /\ UNCHANGED <<ptr, own, hold, user, call>>

\* EVP_PKEY_up_ref: t gives thread u its own reference to the EVP_PKEY.
ShareHandle(t, u, h) ==
  /\ Idle(t)
  /\ t \in hold[h]
  /\ u \notin hold[h]
  /\ hold' = [hold EXCEPT ![h] = @ \cup {u}]
  /\ UNCHANGED <<mem, refs, ptr, own, lost, user, call>>

-----------------------------------------------------------------------------
(* The decoder: key is the local variable of oqs_der2key_decode.           *)

DecodeBegin(t, k) ==
  /\ Idle(t)
  /\ Alloc(k)
  /\ own' = [own EXCEPT ![t] = k]
  /\ Enter(t, "decode", "callback", Null, Null, Null, Null)
  /\ UNCHANGED <<ptr, lost, hold, user>>

\* Mutant: oqsx_load leaves the reference it was given in place.
DecodeLoadKeeps(t, h) ==
  /\ At(t, "decode", "callback")
  /\ own[t] # Null
  /\ UnusedHandle(h)
  /\ own' = [own EXCEPT ![h] = own[t]]
  /\ hold' = [hold EXCEPT ![h] = {t}]
  /\ UNCHANGED <<mem, refs, ptr, lost, user, call>>

\* oqsx_load, called from data_cb, takes the key and clears the reference.
DecodeLoad(t, h) ==
  /\ At(t, "decode", "callback")
  /\ own[t] # Null
  /\ UnusedHandle(h)
  /\ own' = [own EXCEPT ![h] = own[t], ![t] = Null]
  /\ hold' = [hold EXCEPT ![h] = {t}]
  /\ UNCHANGED <<mem, refs, ptr, lost, user, call>>

\* oqs_der2key_decode frees what is left in its local variable.
DecodeEnd(t) ==
  /\ At(t, "decode", "callback")
  /\ IF own[t] = Null
     THEN Goto(t, "ret")
     ELSE call' = [call EXCEPT ![t].pc = "decr", ![t].victim = own[t]]
  /\ UNCHANGED <<mem, refs, ptr, own, lost, hold, user>>

-----------------------------------------------------------------------------
(* Provider calls on contexts and handles, up to their first shared step.  *)

NewCtx(t, c) ==
  /\ Idle(t)
  /\ user[c] = Null
  /\ user' = [user EXCEPT ![c] = t]
  /\ UNCHANGED <<mem, refs, ptr, own, lost, hold, call>>

\* Mutant: the two void pointers of an init call are swapped.
CtxInitSwapped(t, c, h) ==
  /\ Idle(t)
  /\ user[c] = t
  /\ t \in hold[h]
  /\ Enter(t, "init", "upref", c, h, h, Null)
  /\ UNCHANGED <<mem, refs, ptr, own, lost, hold, user>>

\* oqs_sig_signverify_init and oqs_qs_kem_decapsencaps_init on the key of h.
CtxInit(t, c, h) ==
  /\ Idle(t)
  /\ user[c] = t
  /\ t \in hold[h]
  /\ Enter(t, "init", "upref", c, h, own[h], Null)
  /\ UNCHANGED <<mem, refs, ptr, own, lost, hold, user>>

\* Mutant: the copy keeps the pointer of the structure assignment, uncounted.
CtxDupShallow(t, c, d) ==
  /\ Idle(t)
  /\ user[c] = t
  /\ user[d] = Null
  /\ user' = [user EXCEPT ![d] = t]
  /\ ptr' = [ptr EXCEPT ![d] = ptr[c]]
  /\ Enter(t, "dup", "copy", d, c, ptr[c], Null)
  /\ UNCHANGED <<mem, refs, own, lost, hold>>

\* oqs_sig_dupctx: the copy d starts with sig = NULL.
CtxDup(t, c, d) ==
  /\ Idle(t)
  /\ user[c] = t
  /\ user[d] = Null
  /\ user' = [user EXCEPT ![d] = t]
  /\ Enter(t, "dup", IF ptr[c] = Null THEN "copy" ELSE "upref", d, c, ptr[c], Null)
  /\ UNCHANGED <<mem, refs, ptr, own, lost, hold>>

\* oqsx_key_free(ptr[c]); a NULL argument returns at once.
FreeCtxKey(t, op, c) ==
  call' = [call EXCEPT ![t].op = op, ![t].ctx = c, ![t].victim = ptr[c],
                       ![t].pc = IF ptr[c] = Null THEN "ret" ELSE "decr"]

CtxFree(t, c) ==
  /\ Idle(t)
  /\ user[c] = t
  /\ FreeCtxKey(t, "freectx", c)
  /\ UNCHANGED <<mem, refs, ptr, own, lost, hold, user>>

\* A sign, verify, encapsulate or decapsulate call reads the key through c.
CtxUse(t, c) ==
  /\ Idle(t)
  /\ user[c] = t
  /\ ptr[c] # Null
  /\ Enter(t, "use", "run", c, c, ptr[c], Null)
  /\ UNCHANGED <<mem, refs, ptr, own, lost, hold, user>>

\* EVP_PKEY_free: only the last holder reaches the provider's key free.
HandleDrop(t, h) ==
  /\ Idle(t)
  /\ t \in hold[h]
  /\ hold' = [hold EXCEPT ![h] = @ \ {t}]
  /\ IF hold[h] = {t}
     THEN /\ own' = [own EXCEPT ![h] = Null, ![t] = own[h]]
          /\ Enter(t, "drop", "decr", Null, Null, Null, own[h])
     ELSE UNCHANGED <<own, call>>
  /\ UNCHANGED <<mem, refs, ptr, lost, user>>

-----------------------------------------------------------------------------
(* oqsx_key_up_ref and oqsx_key_free, and what their callers do next.      *)

\* Mutant: a load and a store instead of the atomic addition lose an update.
UpRefLost(t) ==
  /\ call[t].pc = "upref"
  /\ \/ refs' = [refs EXCEPT ![call[t].key] = @ + 1]
     \/ UNCHANGED refs
  /\ own' = [own EXCEPT ![t] = call[t].key]
  /\ call' = [call EXCEPT ![t].pc = "upret", ![t].cnt = refs[call[t].key] + 1]
  /\ UNCHANGED <<mem, ptr, lost, hold, user>>

\* atomic_fetch_add on the counter of the key argument.
UpRef(t) ==
  /\ call[t].pc = "upref"
  /\ refs' = [refs EXCEPT ![call[t].key] = @ + 1]
  /\ own' = [own EXCEPT ![t] = call[t].key]
  /\ call' = [call EXCEPT ![t].pc = "upret", ![t].cnt = refs[call[t].key] + 1]
  /\ UNCHANGED <<mem, ptr, lost, hold, user>>

\* The caller goes on when the new count is above 1 (the assertion of up_ref).
UpRefReturns(t) ==
  /\ call[t].pc = "upret"
  /\ call[t].cnt > 1
  /\ IF call[t].op = "dup" THEN Goto(t, "ret")
                           ELSE FreeCtxKey(t, "init", call[t].ctx)
  /\ UNCHANGED <<mem, refs, ptr, own, lost, hold, user>>

\* The token whose reference oqsx_key_free gives back.
Giver(t) == IF call[t].op \in {"init", "freectx"} THEN call[t].ctx ELSE t

\* Mutant: if (refcnt >= 0) return.
DecrKeepsLast(t) ==
  LET k == call[t].victim
      n == refs[k] - 1
  IN /\ call[t].pc = "decr"
     /\ refs' = [refs EXCEPT ![k] = n]
     /\ own' = [own EXCEPT ![Giver(t)] = Null]
     /\ call' = [call EXCEPT ![t].pc = IF n >= 0 THEN "ret" ELSE "free", ![t].cnt = n]
     /\ UNCHANGED <<mem, ptr, lost, hold, user>>

\* atomic_fetch_sub on the counter of the victim.
Decr(t) ==
  LET k == call[t].victim
      n == refs[k] - 1
  IN /\ call[t].pc = "decr"
     /\ refs' = [refs EXCEPT ![k] = n]
     /\ own' = [own EXCEPT ![Giver(t)] = Null]
     /\ call' = [call EXCEPT ![t].pc = IF n > 0 THEN "ret" ELSE "free", ![t].cnt = n]
     /\ UNCHANGED <<mem, ptr, lost, hold, user>>

\* The count reached 0 (the assertion of free): clear and free everything.
Release(t) ==
  /\ call[t].pc = "free"
  /\ call[t].cnt = 0
  /\ mem' = [mem EXCEPT ![call[t].victim] = "freed"]
  /\ Goto(t, "ret")
  /\ UNCHANGED <<refs, ptr, own, lost, hold, user>>

\* ctx->sig = key (or ctx->kem = key), the reference now being the context's.
StoreKey(t) ==
  /\ ptr' = [ptr EXCEPT ![call[t].ctx] = call[t].key]
  /\ own' = [own EXCEPT ![call[t].ctx] = call[t].key, ![t] = Null]
  /\ UNCHANGED <<mem, refs, lost, hold, user>>

InitReturns(t) == At(t, "init", "ret") /\ StoreKey(t) /\ Return(t)

DupStores(t) == At(t, "dup", "ret") /\ StoreKey(t) /\ Goto(t, "copy")

\* The remaining copies of oqs_sig_dupctx succeed.
DupReturns(t) ==
  /\ At(t, "dup", "copy")
  /\ Return(t)
  /\ UNCHANGED <<mem, refs, ptr, own, lost, hold, user>>

\* One of them fails: oqs_sig_freectx(dstctx).
DupFails(t) ==
  /\ At(t, "dup", "copy")
  /\ FreeCtxKey(t, "freectx", call[t].ctx)
  /\ UNCHANGED <<mem, refs, ptr, own, lost, hold, user>>

\* OPENSSL_free(ctx) ends freectx.
CtxGone(t) ==
  /\ At(t, "freectx", "ret")
  /\ ptr' = [ptr EXCEPT ![call[t].ctx] = Null]
  /\ user' = [user EXCEPT ![call[t].ctx] = Null]
  /\ Return(t)
  /\ UNCHANGED <<mem, refs, own, lost, hold>>

CallReturns(t) ==
  /\ At(t, "drop", "ret") \/ At(t, "decode", "ret") \/ At(t, "use", "run")
  /\ Return(t)
  /\ UNCHANGED <<mem, refs, ptr, own, lost, hold, user>>

-----------------------------------------------------------------------------
\* A new call of t, as the application and the EVP layer please.
Begin(t) ==
  \/ \E k \in Keys : GenkeyFails(t, k) \/ DecodeBegin(t, k)
  \/ \E k \in Keys, h \in Handles : NewKey(t, k, h)
  \/ \E u \in Threads, h \in Handles : ShareHandle(t, u, h)
  \/ \E h \in Handles : HandleDrop(t, h)
  \/ \E c \in Ctxs : NewCtx(t, c) \/ CtxFree(t, c) \/ CtxUse(t, c)
  \/ \E c \in Ctxs, h \in Handles : CtxInit(t, c, h)
  \/ \E c, d \in SigCtxs : CtxDup(t, c, d)

\* The call t is in goes on; no step of it waits for another thread.
Continue(t) ==
  \/ UpRef(t) \/ UpRefReturns(t) \/ Decr(t) \/ Release(t)
  \/ InitReturns(t) \/ DupStores(t) \/ DupReturns(t) \/ DupFails(t)
  \/ CtxGone(t) \/ CallReturns(t) \/ DecodeEnd(t)

Next == \E t \in Threads :
  \/ Begin(t)
  \/ Continue(t)
  \/ \E h \in Handles : DecodeLoad(t, h)

Spec == Init /\ [][Next]_vars

FairSpec == Spec /\ \A t \in Threads : WF_vars(Continue(t))

-----------------------------------------------------------------------------
Owners(k) == {x \in Tokens : own[x] = k}

\* All holders of k, the lost reference included.
HeldBy(k) == Owners(k) \cup (IF k \in lost THEN {Lost} ELSE {})

\* The counter says how many references there are: every pointer that will
\* be freed once, and nothing else, is counted (references, oqs_prov.h).
RefsCountOwners == \A k \in Keys : refs[k] = Cardinality(HeldBy(k))

\* What a call is about to read or write lies in live memory: the counter
\* in up_ref and free, the key data in sign, verify, encaps and decaps.
Touches(t) ==
  CASE call[t].pc \in {"upref", "run"} -> {call[t].key}
    [] call[t].pc \in {"decr", "free"} -> {call[t].victim}
    [] OTHER -> {}

NoUseAfterFree == \A t \in Threads : \A k \in Touches(t) : k \in Keys /\ mem[k] = "live"

\* assert(refcnt > 1) in oqsx_key_up_ref, assert(refcnt == 0) in oqsx_key_free.
AssertionsHold == \A t \in Threads :
  /\ call[t].pc = "upret" => call[t].cnt > 1
  /\ call[t].pc = "free" => call[t].cnt = 0

\* Between calls a context points to the live key it holds a reference to.
ContextsHoldLiveKeys == \A c \in Ctxs :
  (user[c] # Null /\ Idle(user[c]) /\ ptr[c] # Null) =>
    own[c] = ptr[c] /\ mem[ptr[c]] = "live"

\* A counter that reached 0 never rises again (no key is revived while the
\* thread that read 0 is on its way to free it).
NoRevival == [][\A k \in Keys : (mem[k] # "unused" /\ refs[k] <= 0) => refs'[k] <= 0]_vars

\* A key that nobody holds any more is freed, whatever the other threads do.
UnheldKeysAreFreed == \A k \in Keys :
  (mem[k] = "live" /\ HeldBy(k) = {}) ~> (mem[k] = "freed")

\* The counter implements the promise of KeyLifetime.
Life == INSTANCE KeyLifetime WITH Holders <- Tokens \cup {Lost},
                                  held <- [k \in Keys |-> HeldBy(k)]
LifeRefinement == Life!LifeSpec
-----------------------------------------------------------------------------
(* The inductive invariant, part by part.                                  *)

\* What holds of a thread inside each kind of call.
FrameInv(t) ==
  LET f == call[t] IN
  /\ f.op = "none" => f.pc = "idle" /\ own[t] = Null
  /\ f.op = "init" =>
       /\ f.pc \in {"upref", "upret", "decr", "free", "ret"}
       /\ f.ctx \in Ctxs /\ user[f.ctx] = t /\ f.key \in Keys
       /\ own[t] = IF f.pc = "upref" THEN Null ELSE f.key
       /\ f.pc = "upref" => f.src \in Handles /\ t \in hold[f.src] /\ own[f.src] = f.key
  /\ f.op = "dup" =>
       /\ f.pc \in {"upref", "upret", "ret", "copy"}
       /\ f.ctx \in Ctxs /\ user[f.ctx] = t
       /\ own[t] = IF f.pc \in {"upref", "copy"} THEN Null ELSE f.key
       /\ f.pc # "copy" => f.key \in Keys /\ ptr[f.ctx] = Null
       /\ f.pc = "upref" => f.src \in Ctxs /\ user[f.src] = t /\ own[f.src] = f.key
  /\ f.op = "freectx" =>
       /\ f.pc \in {"decr", "free", "ret"}
       /\ f.ctx \in Ctxs /\ user[f.ctx] = t /\ own[t] = Null
  /\ f.op = "drop" => f.pc \in {"decr", "free", "ret"} /\ (f.pc # "decr" => own[t] = Null)
  /\ f.op = "decode" =>
       f.pc \in {"callback", "decr", "free", "ret"} /\ (f.pc \in {"free", "ret"} => own[t] = Null)
  /\ f.op = "use" =>
       f.pc = "run" /\ f.ctx \in Ctxs /\ user[f.ctx] = t /\ f.key \in Keys
         /\ own[f.ctx] = f.key /\ own[t] = Null

\* What a thread knows at the two ends of the counter updates.
CountInv(t) ==
  LET f == call[t] IN
  /\ f.pc = "upret" => f.cnt > 1
  /\ f.pc = "decr" => f.victim \in Keys /\ own[Giver(t)] = f.victim
  /\ f.pc = "free" => f.cnt = 0 /\ f.victim \in Keys /\ mem[f.victim] = "live"
                        /\ HeldBy(f.victim) = {}

\* The pointer of c is stale: its reference is gone, the field not yet overwritten.
Stale(c) ==
  /\ user[c] # Null
  /\ call[user[c]].ctx = c
  /\ call[user[c]].op \in {"init", "freectx"}
  /\ call[user[c]].pc \in {"free", "ret"}

CtxInv(c) ==
  /\ user[c] = Null => ptr[c] = Null
  /\ own[c] = IF Stale(c) THEN Null ELSE ptr[c]

IInv ==
  /\ TypeOK
  /\ RefsCountOwners
  /\ \A k \in Keys : mem[k] # "live" => HeldBy(k) = {}
  /\ \A h \in Handles : hold[h] = {} <=> own[h] = Null
  /\ \A c \in Ctxs : CtxInv(c)
  /\ \A t \in Threads : FrameInv(t) /\ CountInv(t)
  /\ \A t, u \in Threads :
       (t # u /\ call[t].pc = "free" /\ call[u].pc = "free") => call[t].victim # call[u].victim
=============================================================================
