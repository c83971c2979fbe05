------------------------- MODULE OqsxKeyRef_proofs -------------------------
(***************************************************************************)
(* Proofs about OqsxKeyRef for any finite set of handles, contexts and     *)
(* threads and any set of keys: the counter is exact, nothing is used      *)
(* after it was freed, what contexts hold and what a counter that reached  *)
(* 0 does, and that the counter implements KeyLifetime, step by step.      *)
(***************************************************************************)
EXTENDS OqsxKeyRef, FiniteSetTheorems, TLAPS

-----------------------------------------------------------------------------
(* Adding, removing and replacing one holder.                              *)

\* A key has finitely many holders, since there are finitely many tokens.
LEMMA HeldByFinite ==
  ASSUME NEW k PROVE IsFiniteSet(HeldBy(k))
<1>1. IsFiniteSet(Owners(k))
  BY TokensAssumption, FS_Subset DEF Owners
<1>2. IsFiniteSet(IF k \in lost THEN {Lost} ELSE {})
  BY FS_EmptySet, FS_Singleton
<1> QED BY <1>1, <1>2, FS_Union DEF HeldBy

\* Replacing an element of a finite set by a new one keeps its size (a reference passed on).
LEMMA CardinalityReplace ==
  ASSUME NEW S, IsFiniteSet(S), NEW x \in S, NEW y, y \notin S
  PROVE  Cardinality((S \ {x}) \cup {y}) = Cardinality(S)
<1>1. IsFiniteSet(S \ {x}) /\ Cardinality(S \ {x}) = Cardinality(S) - 1
  BY FS_RemoveElement
<1>2. Cardinality((S \ {x}) \cup {y}) = Cardinality(S \ {x}) + 1
  BY <1>1, FS_AddElement
<1>3. Cardinality(S) \in Nat
  BY FS_CardinalityType
<1> QED BY <1>1, <1>2, <1>3

\* Before the first provider call the inductive invariant holds.
LEMMA InitEstablishesIInv == Init => IInv
<1> SUFFICES ASSUME Init PROVE IInv
  OBVIOUS
<1> USE TokensAssumption DEF Init
<1>1. TypeOK
  BY DEF TypeOK, Frame, NoCall, Ops, Pcs, Tokens
<1>2. \A k \in Keys : HeldBy(k) = {}
  BY DEF HeldBy, Owners, Tokens
<1>3. RefsCountOwners
  BY <1>2, FS_EmptySet DEF RefsCountOwners
<1>4. \A t \in Threads : FrameInv(t) /\ CountInv(t)
  BY DEF FrameInv, CountInv, NoCall, Tokens
<1>5. \A c \in Ctxs : CtxInv(c)
  BY DEF CtxInv, Stale, NoCall, Tokens
<1> QED BY <1>1, <1>2, <1>3, <1>4, <1>5 DEF IInv, NoCall, Tokens

-----------------------------------------------------------------------------
(* How the holders of the keys change.                                     *)

\* Token x takes a reference to k.
LEMMA HoldersGain ==
  ASSUME TypeOK, NEW k \in Keys, NEW x \in Tokens, own[x] = Null,
         own' = [own EXCEPT ![x] = k], lost' = lost
  PROVE  /\ HeldBy(k)' = HeldBy(k) \cup {x} /\ x \notin HeldBy(k)
         /\ \A j \in Keys \ {k} : HeldBy(j)' = HeldBy(j)
         /\ Cardinality(HeldBy(k)') = Cardinality(HeldBy(k)) + 1
         /\ Cardinality(HeldBy(k)) \in Nat
<1>1. /\ HeldBy(k)' = HeldBy(k) \cup {x} /\ x \notin HeldBy(k)
      /\ \A j \in Keys \ {k} : HeldBy(j)' = HeldBy(j)
  BY TokensAssumption DEF HeldBy, Owners, TypeOK, Tokens
<1> QED BY <1>1, HeldByFinite, FS_AddElement, FS_CardinalityType

\* Token x gives its reference to k back.
LEMMA HoldersLose ==
  ASSUME TypeOK, NEW k \in Keys, NEW x \in Tokens, own[x] = k,
         own' = [own EXCEPT ![x] = Null], lost' = lost
  PROVE  /\ HeldBy(k)' = HeldBy(k) \ {x} /\ x \in HeldBy(k)
         /\ \A j \in Keys \ {k} : HeldBy(j)' = HeldBy(j)
         /\ Cardinality(HeldBy(k)') = Cardinality(HeldBy(k)) - 1
         /\ Cardinality(HeldBy(k)') \in Nat
         /\ Cardinality(HeldBy(k)') = 0 => HeldBy(k)' = {}
<1>1. /\ HeldBy(k)' = HeldBy(k) \ {x} /\ x \in HeldBy(k)
      /\ \A j \in Keys \ {k} : HeldBy(j)' = HeldBy(j)
  BY TokensAssumption DEF HeldBy, Owners, TypeOK, Tokens
<1>2. IsFiniteSet(HeldBy(k) \ {x}) /\ Cardinality(HeldBy(k) \ {x}) = Cardinality(HeldBy(k)) - 1
  BY <1>1, HeldByFinite, FS_RemoveElement
<1> QED BY <1>1, <1>2, FS_EmptySet, FS_CardinalityType

\* Token x passes its reference to k on to token y.
LEMMA HoldersPass ==
  ASSUME TypeOK, NEW k \in Keys, NEW x \in Tokens, NEW y \in Tokens, x # y,
         own[x] = k, own[y] = Null,
         own' = [own EXCEPT ![y] = k, ![x] = Null], lost' = lost
  PROVE  /\ HeldBy(k)' = (HeldBy(k) \ {x}) \cup {y} /\ x \in HeldBy(k) /\ y \notin HeldBy(k)
         /\ \A j \in Keys \ {k} : HeldBy(j)' = HeldBy(j)
         /\ Cardinality(HeldBy(k)') = Cardinality(HeldBy(k))
<1>1. /\ HeldBy(k)' = (HeldBy(k) \ {x}) \cup {y} /\ x \in HeldBy(k) /\ y \notin HeldBy(k)
      /\ \A j \in Keys \ {k} : HeldBy(j)' = HeldBy(j)
  BY TokensAssumption DEF HeldBy, Owners, TypeOK, Tokens
<1> QED BY <1>1, HeldByFinite, CardinalityReplace

-----------------------------------------------------------------------------
(* A step of thread t leaves alone what the other threads rely on.         *)

OnlyThread(t) ==
  /\ \A u \in Threads \ {t} : call'[u] = call[u] /\ own'[u] = own[u]
  /\ \A u \in Threads \ {t}, h \in Handles : u \in hold[h] => u \in hold'[h] /\ own'[h] = own[h]
  /\ \A c \in Ctxs : user[c] # t => user'[c] \in {user[c], t} /\ ptr'[c] = ptr[c] /\ own'[c] = own[c]
  /\ \A c \in Ctxs : user[c] \notin {t, Null} => user'[c] = user[c]
  /\ \A u \in Threads \ {t}, k \in Keys :
       (call[u].pc = "free" /\ call[u].victim = k) => mem'[k] = "live" /\ HeldBy(k)' = {}

\* So the invariant needs to be shown of t, its contexts and the keys only.
LEMMA Locality ==
  ASSUME IInv, NEW t \in Threads, OnlyThread(t),
         TypeOK', RefsCountOwners',
         \A k \in Keys : mem'[k] # "live" => HeldBy(k)' = {},
         \A h \in Handles : hold'[h] = {} <=> own'[h] = Null,
         \A c \in Ctxs : (user[c] = t \/ user'[c] = t) => CtxInv(c)',
         FrameInv(t)', CountInv(t)',
         \A u \in Threads \ {t} : (call'[t].pc = "free" /\ call[u].pc = "free") =>
                                   call[u].victim # call'[t].victim
  PROVE  IInv'
<1> USE TokensAssumption DEF IInv, OnlyThread
<1>1. ASSUME NEW u \in Threads, u # t PROVE FrameInv(u)'
  BY <1>1 DEF FrameInv, TypeOK, Frame, Tokens
<1>2. ASSUME NEW u \in Threads, u # t PROVE CountInv(u)'
  <2>1. FrameInv(u) /\ CountInv(u) /\ call'[u] = call[u] /\ own'[u] = own[u]
    BY <1>2
  <2>2. Giver(u)' = Giver(u) /\ (call[u].pc = "decr" => own'[Giver(u)] = own[Giver(u)])
    BY <1>2, <2>1 DEF Giver, FrameInv, TypeOK, Frame, Tokens
  <2> QED BY <1>2, <2>1, <2>2 DEF CountInv
<1>3. ASSUME NEW c \in Ctxs, user[c] # t, user'[c] # t PROVE CtxInv(c)'
  <2>1. /\ user'[c] = user[c] /\ ptr'[c] = ptr[c] /\ own'[c] = own[c]
        /\ user[c] # Null => call'[user[c]] = call[user[c]]
    BY <1>3 DEF TypeOK
  <2> QED BY <2>1 DEF CtxInv, Stale
<1>4. \A u, v \in Threads :
        (u # v /\ call'[u].pc = "free" /\ call'[v].pc = "free") => call'[u].victim # call'[v].victim
  OBVIOUS
<1> QED BY <1>1, <1>2, <1>3, <1>4

\* A step that leaves counters, references and memory alone.
LEMMA QuietStep ==
  ASSUME IInv, NEW t \in Threads, UNCHANGED <<mem, refs, own, lost>>
  PROVE  /\ RefsCountOwners'
         /\ \A k \in Keys : mem'[k] # "live" => HeldBy(k)' = {}
         /\ \A u \in Threads, k \in Keys :
              (call[u].pc = "free" /\ call[u].victim = k) => mem'[k] = "live" /\ HeldBy(k)' = {}
<1>1. \A k : HeldBy(k)' = HeldBy(k)
  BY DEF HeldBy, Owners
<1>2. RefsCountOwners'
  BY <1>1 DEF IInv, RefsCountOwners
<1>3. \A k \in Keys : mem'[k] # "live" => HeldBy(k)' = {}
  BY <1>1 DEF IInv
<1>4. ASSUME NEW u \in Threads, NEW k \in Keys, call[u].pc = "free", call[u].victim = k
      PROVE  mem'[k] = "live" /\ HeldBy(k)' = {}
  <2>1. CountInv(u)
    BY DEF IInv
  <2> QED BY <1>1, <1>4, <2>1 DEF CountInv
<1> QED BY <1>2, <1>3, <1>4

\* Between calls a thread owns no reference, and its contexts own theirs.
LEMMA IdleThread ==
  ASSUME IInv, NEW t \in Threads, Idle(t)
  PROVE  /\ call[t].op = "none" /\ own[t] = Null
         /\ \A c \in Ctxs : user[c] = t => own[c] = ptr[c]
<1>1. call[t].op = "none"
  BY DEF IInv, TypeOK, Frame, Ops, Idle, FrameInv
<1> QED BY <1>1 DEF IInv, FrameInv, CtxInv, Stale

-----------------------------------------------------------------------------
(* Each action preserves the invariant.                                    *)

\* The inductive invariant survives EVP_PKEY_up_ref.
LEMMA ShareHandlePreserves ==
  ASSUME IInv, NEW t \in Threads, NEW u \in Threads, NEW h \in Handles,
         ShareHandle(t, u, h)
  PROVE  IInv'
<1> USE TokensAssumption DEF IInv
<1>1. FrameInv(t) /\ CountInv(t) /\ call[t] \in Frame
  BY DEF TypeOK
<1>2. UNCHANGED <<mem, refs, own, lost>>
  BY DEF ShareHandle
<1>3. call' = call
  BY DEF ShareHandle
<1>4. TypeOK'
  BY <1>2, <1>3 DEF ShareHandle, TypeOK, Ctxs
<1>5. OnlyThread(t)
  BY ZenonT(40), <1>1, <1>2, <1>3, QuietStep DEF ShareHandle, At, FrameInv, OnlyThread, TypeOK, Ctxs
<1>6. \A g \in Handles : hold'[g] = {} <=> own'[g] = Null
  BY <1>2 DEF ShareHandle, TypeOK
<1>7. \A c1 \in Ctxs : (user[c1] = t \/ user'[c1] = t) => CtxInv(c1)'
  BY <1>1, <1>2, <1>3 DEF ShareHandle, NoCall, Enter, Idle, At, Goto, Return, CtxInv, Stale, FrameInv, TypeOK, Frame, Ctxs
<1>8. FrameInv(t)' /\ CountInv(t)'
  BY <1>1, <1>2, <1>3, <1>7 DEF ShareHandle, At, Idle, FrameInv, CountInv, CtxInv, Stale, Giver, TypeOK, Frame, Tokens, Ctxs
<1>9. call'[t].pc # "free"
  BY <1>1, <1>3 DEF ShareHandle, NoCall, Enter, Idle, At, Goto, Return, FrameInv
<1> QED BY <1>4, <1>5, <1>6, <1>7, <1>8, <1>9, <1>2, QuietStep, Locality

\* The inductive invariant survives newctx.
LEMMA NewCtxPreserves ==
  ASSUME IInv, NEW t \in Threads, NEW c \in Ctxs, NewCtx(t, c)
  PROVE  IInv'
<1> USE TokensAssumption DEF IInv
<1>1. FrameInv(t) /\ CountInv(t) /\ call[t] \in Frame
  BY DEF TypeOK
<1>2. UNCHANGED <<mem, refs, own, lost>>
  BY DEF NewCtx
<1>3. call' = call
  BY DEF NewCtx
<1>4. TypeOK'
  BY <1>2, <1>3 DEF NewCtx, TypeOK, Ctxs
<1>5. OnlyThread(t)
  BY <1>1, <1>2, <1>3, QuietStep DEF NewCtx, At, FrameInv, OnlyThread, TypeOK, Ctxs
<1>6. \A h \in Handles : hold'[h] = {} <=> own'[h] = Null
  BY <1>2 DEF NewCtx, TypeOK
<1>7. \A c1 \in Ctxs : (user[c1] = t \/ user'[c1] = t) => CtxInv(c1)'
  BY <1>1, <1>2, <1>3 DEF NewCtx, NoCall, Enter, Idle, At, Goto, Return, CtxInv, Stale, FrameInv, TypeOK, Frame, Ctxs
<1>8. FrameInv(t)' /\ CountInv(t)'
  BY <1>1, <1>2, <1>3, <1>7 DEF NewCtx, At, Idle, FrameInv, CountInv, CtxInv, Stale, Giver, TypeOK, Frame, Tokens, Ctxs
<1>9. call'[t].pc # "free"
  BY <1>1, <1>3 DEF NewCtx, NoCall, Enter, Idle, At, Goto, Return, FrameInv
<1> QED BY <1>4, <1>5, <1>6, <1>7, <1>8, <1>9, <1>2, QuietStep, Locality

\* The inductive invariant survives the start of an init call.
LEMMA CtxInitPreserves ==
  ASSUME IInv, NEW t \in Threads, NEW c \in Ctxs, NEW h \in Handles,
         CtxInit(t, c, h)
  PROVE  IInv'
<1> USE TokensAssumption DEF IInv
<1>1. FrameInv(t) /\ CountInv(t) /\ call[t] \in Frame
  BY DEF TypeOK
<1>2. UNCHANGED <<mem, refs, own, lost>>
  BY DEF CtxInit
<1>a. own[h] \in Keys /\ own[t] = Null
  BY IdleThread DEF CtxInit, TypeOK, Tokens
<1>3. /\ call'[t] = [op |-> "init", pc |-> "upref", ctx |-> c, src |-> h,
                     key |-> own[h], victim |-> Null, cnt |-> 0]
      /\ \A u \in Threads \ {t} : call'[u] = call[u]
      /\ call' \in [Threads -> Frame]
  BY <1>1 DEF CtxInit, NoCall, Enter, Idle, At, Goto, Return, TypeOK, Frame, Ops, Pcs, Tokens, Ctxs
<1>4. TypeOK'
  BY <1>2, <1>3 DEF CtxInit, TypeOK, Ctxs
<1>5. OnlyThread(t)
  BY ZenonT(40), <1>1, <1>2, <1>3, QuietStep DEF CtxInit, At, FrameInv, OnlyThread, TypeOK, Ctxs
<1>6. \A g \in Handles : hold'[g] = {} <=> own'[g] = Null
  BY <1>2 DEF CtxInit, TypeOK
<1>7. \A c1 \in Ctxs : (user[c1] = t \/ user'[c1] = t) => CtxInv(c1)'
  BY <1>1, <1>2, <1>3 DEF CtxInit, NoCall, Enter, Idle, At, Goto, Return, CtxInv, Stale, FrameInv, TypeOK, Frame, Ctxs
<1>8. FrameInv(t)' /\ CountInv(t)'
  BY <1>1, <1>2, <1>3, <1>a DEF CtxInit, At, Idle, FrameInv, CountInv, CtxInv, Stale, Giver, TypeOK, Frame, Tokens, Ctxs
<1>9. call'[t].pc # "free"
  BY <1>1, <1>3 DEF CtxInit, NoCall, Enter, Idle, At, Goto, Return, FrameInv
<1> QED BY <1>4, <1>5, <1>6, <1>7, <1>8, <1>9, <1>2, QuietStep, Locality

\* The inductive invariant survives the start of oqs_sig_dupctx.
LEMMA CtxDupPreserves ==
  ASSUME IInv, NEW t \in Threads, NEW c \in SigCtxs, NEW d \in SigCtxs,
         CtxDup(t, c, d)
  PROVE  IInv'
<1> USE TokensAssumption DEF IInv
<1>1. FrameInv(t) /\ CountInv(t) /\ call[t] \in Frame
  BY DEF TypeOK
<1>2. UNCHANGED <<mem, refs, own, lost>>
  BY DEF CtxDup
<1>a. /\ own[c] = ptr[c] /\ ptr[c] \in Keys \cup {Null}
      /\ own[t] = Null /\ ptr[d] = Null /\ c \in Ctxs /\ d \in Ctxs
  BY IdleThread DEF CtxDup, CtxInv, TypeOK, Tokens, Ctxs
<1>3. /\ call'[t] = [op |-> "dup", pc |-> IF ptr[c] = Null THEN "copy" ELSE "upref", ctx |-> d, src |-> c,
                     key |-> ptr[c], victim |-> Null, cnt |-> 0]
      /\ \A u \in Threads \ {t} : call'[u] = call[u]
      /\ call' \in [Threads -> Frame]
  BY <1>1 DEF CtxDup, NoCall, Enter, Idle, At, Goto, Return, TypeOK, Frame, Ops, Pcs, Tokens, Ctxs
<1>4. TypeOK'
  BY <1>2, <1>3 DEF CtxDup, TypeOK, Ctxs
<1>5. OnlyThread(t)
  BY ZenonT(40), <1>1, <1>2, <1>3, QuietStep DEF CtxDup, At, FrameInv, OnlyThread, TypeOK, Ctxs
<1>6. \A h \in Handles : hold'[h] = {} <=> own'[h] = Null
  BY <1>2 DEF CtxDup, TypeOK
<1>7. \A c1 \in Ctxs : (user[c1] = t \/ user'[c1] = t) => CtxInv(c1)'
  BY <1>1, <1>2, <1>3 DEF CtxDup, NoCall, Enter, Idle, At, Goto, Return, CtxInv, Stale, FrameInv, TypeOK, Frame, Ctxs
<1>8. FrameInv(t)' /\ CountInv(t)'
  BY <1>1, <1>2, <1>3, <1>a DEF CtxDup, At, Idle, FrameInv, CountInv, CtxInv, Stale, Giver, TypeOK, Frame, Tokens, Ctxs
<1>9. call'[t].pc # "free"
  BY <1>1, <1>3 DEF CtxDup, NoCall, Enter, Idle, At, Goto, Return, FrameInv
<1> QED BY <1>4, <1>5, <1>6, <1>7, <1>8, <1>9, <1>2, QuietStep, Locality

\* The inductive invariant survives the start of freectx.
LEMMA CtxFreePreserves ==
  ASSUME IInv, NEW t \in Threads, NEW c \in Ctxs, CtxFree(t, c)
  PROVE  IInv'
<1> USE TokensAssumption DEF IInv
<1>1. FrameInv(t) /\ CountInv(t) /\ call[t] \in Frame
  BY DEF TypeOK
<1>2. UNCHANGED <<mem, refs, own, lost>>
  BY DEF CtxFree
<1>a. own[c] = ptr[c] /\ ptr[c] \in Keys \cup {Null} /\ own[t] = Null
  BY IdleThread DEF CtxFree, TypeOK, Tokens
<1>3. /\ call'[t] = [op |-> "freectx", pc |-> IF ptr[c] = Null THEN "ret" ELSE "decr", ctx |-> c, src |-> call[t].src,
                     key |-> call[t].key, victim |-> ptr[c], cnt |-> call[t].cnt]
      /\ \A u \in Threads \ {t} : call'[u] = call[u]
      /\ call' \in [Threads -> Frame]
  BY <1>1 DEF CtxFree, NoCall, Enter, Idle, At, Goto, Return, FreeCtxKey, TypeOK, Frame, Ops, Pcs, Tokens, Ctxs
<1>4. TypeOK'
  BY <1>2, <1>3 DEF CtxFree, TypeOK, Ctxs
<1>5. OnlyThread(t)
  BY <1>1, <1>2, <1>3, QuietStep DEF CtxFree, At, FrameInv, OnlyThread, TypeOK, Ctxs
<1>6. \A h \in Handles : hold'[h] = {} <=> own'[h] = Null
  BY <1>2 DEF CtxFree, TypeOK
<1>7. \A c1 \in Ctxs : (user[c1] = t \/ user'[c1] = t) => CtxInv(c1)'
  BY <1>1, <1>2, <1>3 DEF CtxFree, NoCall, Enter, Idle, At, Goto, Return, FreeCtxKey, CtxInv, Stale, FrameInv, TypeOK, Frame, Ctxs
<1>8. FrameInv(t)' /\ CountInv(t)'
  BY <1>1, <1>2, <1>3, <1>a DEF CtxFree, At, Idle, FrameInv, CountInv, CtxInv, Stale, Giver, TypeOK, Frame, Tokens, Ctxs
<1>9. call'[t].pc # "free"
  BY <1>1, <1>3 DEF CtxFree, NoCall, Enter, Idle, At, Goto, Return, FreeCtxKey, FrameInv
<1> QED BY <1>4, <1>5, <1>6, <1>7, <1>8, <1>9, <1>2, QuietStep, Locality

\* The inductive invariant survives the start of sign, verify, encaps or decaps.
LEMMA CtxUsePreserves ==
  ASSUME IInv, NEW t \in Threads, NEW c \in Ctxs, CtxUse(t, c)
  PROVE  IInv'
<1> USE TokensAssumption DEF IInv
<1>1. FrameInv(t) /\ CountInv(t) /\ call[t] \in Frame
  BY DEF TypeOK
<1>2. UNCHANGED <<mem, refs, own, lost>>
  BY DEF CtxUse
<1>a. own[c] = ptr[c] /\ ptr[c] \in Keys /\ own[t] = Null
  BY IdleThread DEF CtxUse, TypeOK, Tokens
<1>3. /\ call'[t] = [op |-> "use", pc |-> "run", ctx |-> c, src |-> c,
                     key |-> ptr[c], victim |-> Null, cnt |-> 0]
      /\ \A u \in Threads \ {t} : call'[u] = call[u]
      /\ call' \in [Threads -> Frame]
  BY <1>1 DEF CtxUse, NoCall, Enter, Idle, At, Goto, Return, TypeOK, Frame, Ops, Pcs, Tokens, Ctxs
<1>4. TypeOK'
  BY <1>2, <1>3 DEF CtxUse, TypeOK, Ctxs
<1>5. OnlyThread(t)
  BY ZenonT(40), <1>1, <1>2, <1>3, QuietStep DEF CtxUse, At, FrameInv, OnlyThread, TypeOK, Ctxs
<1>6. \A h \in Handles : hold'[h] = {} <=> own'[h] = Null
  BY <1>2 DEF CtxUse, TypeOK
<1>7. \A c1 \in Ctxs : (user[c1] = t \/ user'[c1] = t) => CtxInv(c1)'
  BY <1>1, <1>2, <1>3 DEF CtxUse, NoCall, Enter, Idle, At, Goto, Return, CtxInv, Stale, FrameInv, TypeOK, Frame, Ctxs
<1>8. FrameInv(t)' /\ CountInv(t)'
  BY <1>1, <1>2, <1>3, <1>a DEF CtxUse, At, Idle, FrameInv, CountInv, CtxInv, Stale, Giver, TypeOK, Frame, Tokens, Ctxs
<1>9. call'[t].pc # "free"
  BY <1>1, <1>3 DEF CtxUse, NoCall, Enter, Idle, At, Goto, Return, FrameInv
<1> QED BY <1>4, <1>5, <1>6, <1>7, <1>8, <1>9, <1>2, QuietStep, Locality

\* The inductive invariant survives the end of the decoder.
LEMMA DecodeEndPreserves ==
  ASSUME IInv, NEW t \in Threads, DecodeEnd(t)
  PROVE  IInv'
<1> USE TokensAssumption DEF IInv
<1>1. FrameInv(t) /\ CountInv(t) /\ call[t] \in Frame
  BY DEF TypeOK
<1>2. UNCHANGED <<mem, refs, own, lost>>
  BY DEF DecodeEnd
<1>3. /\ call'[t] = [op |-> call[t].op, pc |-> IF own[t] = Null THEN "ret" ELSE "decr", ctx |-> call[t].ctx, src |-> call[t].src,
                     key |-> call[t].key, victim |-> IF own[t] = Null THEN call[t].victim ELSE own[t], cnt |-> call[t].cnt]
      /\ \A u \in Threads \ {t} : call'[u] = call[u]
      /\ call' \in [Threads -> Frame]
  BY <1>1 DEF DecodeEnd, NoCall, Enter, Idle, At, Goto, Return, TypeOK, Frame, Ops, Pcs, Tokens, Ctxs
<1>4. TypeOK'
  BY <1>2, <1>3 DEF DecodeEnd, TypeOK, Ctxs
<1>5. OnlyThread(t)
  BY <1>1, <1>2, <1>3, QuietStep DEF DecodeEnd, At, FrameInv, OnlyThread, TypeOK, Ctxs
<1>6. \A h \in Handles : hold'[h] = {} <=> own'[h] = Null
  BY <1>2 DEF DecodeEnd, TypeOK
<1>7. \A c1 \in Ctxs : (user[c1] = t \/ user'[c1] = t) => CtxInv(c1)'
  BY <1>1, <1>2, <1>3 DEF DecodeEnd, NoCall, Enter, Idle, At, Goto, Return, CtxInv, Stale, FrameInv, TypeOK, Frame, Ctxs
<1>8. FrameInv(t)' /\ CountInv(t)'
  BY <1>1, <1>2, <1>3, <1>7 DEF DecodeEnd, At, Idle, FrameInv, CountInv, CtxInv, Stale, Giver, TypeOK, Frame, Tokens, Ctxs
<1>9. call'[t].pc # "free"
  BY <1>1, <1>3 DEF DecodeEnd, NoCall, Enter, Idle, At, Goto, Return, FrameInv
<1> QED BY <1>4, <1>5, <1>6, <1>7, <1>8, <1>9, <1>2, QuietStep, Locality

\* The inductive invariant survives the return from oqsx_key_up_ref.
LEMMA UpRefReturnsPreserves ==
  ASSUME IInv, NEW t \in Threads, UpRefReturns(t)
  PROVE  IInv'
<1> USE TokensAssumption DEF IInv
<1>1. FrameInv(t) /\ CountInv(t) /\ call[t] \in Frame
  BY DEF TypeOK
<1>2. UNCHANGED <<mem, refs, own, lost>>
  BY DEF UpRefReturns
<1>a. /\ call[t].op \in {"init", "dup"} /\ call[t].ctx \in Ctxs
      /\ call[t].op = "init" => own[call[t].ctx] = ptr[call[t].ctx]
      /\ ptr[call[t].ctx] \in Keys \cup {Null}
  BY <1>1 DEF UpRefReturns, FrameInv, CtxInv, Stale, TypeOK, Frame, Ops
<1>3. /\ call'[t] = [op |-> call[t].op, pc |-> IF call[t].op = "dup" \/ ptr[call[t].ctx] = Null THEN "ret" ELSE "decr", ctx |-> call[t].ctx, src |-> call[t].src,
                     key |-> call[t].key, victim |-> IF call[t].op = "dup" THEN call[t].victim ELSE ptr[call[t].ctx], cnt |-> call[t].cnt]
      /\ \A u \in Threads \ {t} : call'[u] = call[u]
      /\ call' \in [Threads -> Frame]
  BY <1>1 DEF UpRefReturns, NoCall, Enter, Idle, At, Goto, Return, FreeCtxKey, TypeOK, Frame, Ops, Pcs, Tokens, Ctxs
<1>4. TypeOK'
  BY <1>2, <1>3 DEF UpRefReturns, TypeOK, Ctxs
<1>5. OnlyThread(t)
  BY <1>1, <1>2, <1>3, QuietStep DEF UpRefReturns, At, FrameInv, OnlyThread, TypeOK, Ctxs
<1>6. \A h \in Handles : hold'[h] = {} <=> own'[h] = Null
  BY <1>2 DEF UpRefReturns, TypeOK
<1>7. \A c1 \in Ctxs : (user[c1] = t \/ user'[c1] = t) => CtxInv(c1)'
  BY <1>1, <1>2, <1>3 DEF UpRefReturns, NoCall, Enter, Idle, At, Goto, Return, FreeCtxKey, CtxInv, Stale, FrameInv, TypeOK, Frame, Ctxs
<1>8. FrameInv(t)' /\ CountInv(t)'
  BY <1>1, <1>2, <1>3, <1>a DEF UpRefReturns, At, Idle, FrameInv, CountInv, CtxInv, Stale, Giver, TypeOK, Frame, Tokens, Ctxs
<1>9. call'[t].pc # "free"
  BY <1>1, <1>3 DEF UpRefReturns, NoCall, Enter, Idle, At, Goto, Return, FreeCtxKey, FrameInv
<1> QED BY <1>4, <1>5, <1>6, <1>7, <1>8, <1>9, <1>2, QuietStep, Locality

\* The inductive invariant survives the successful end of oqs_sig_dupctx.
LEMMA DupReturnsPreserves ==
  ASSUME IInv, NEW t \in Threads, DupReturns(t)
  PROVE  IInv'
<1> USE TokensAssumption DEF IInv
<1>1. FrameInv(t) /\ CountInv(t) /\ call[t] \in Frame
  BY DEF TypeOK
<1>2. UNCHANGED <<mem, refs, own, lost>>
  BY DEF DupReturns
<1>3. /\ call'[t] = NoCall
      /\ \A u \in Threads \ {t} : call'[u] = call[u]
      /\ call' \in [Threads -> Frame]
  BY <1>1 DEF DupReturns, NoCall, Enter, Idle, At, Goto, Return, TypeOK, Frame, Ops, Pcs, Tokens, Ctxs
<1>4. TypeOK'
  BY <1>2, <1>3 DEF DupReturns, TypeOK, Ctxs
<1>5. OnlyThread(t)
  BY <1>1, <1>2, <1>3, QuietStep DEF DupReturns, At, FrameInv, OnlyThread, TypeOK, Ctxs
<1>6. \A h \in Handles : hold'[h] = {} <=> own'[h] = Null
  BY <1>2 DEF DupReturns, TypeOK
<1>7. \A c1 \in Ctxs : (user[c1] = t \/ user'[c1] = t) => CtxInv(c1)'
  BY <1>1, <1>2, <1>3 DEF DupReturns, NoCall, Enter, Idle, At, Goto, Return, CtxInv, Stale, FrameInv, TypeOK, Frame, Ctxs
<1>8. FrameInv(t)' /\ CountInv(t)'
  BY <1>1, <1>2, <1>3, <1>7 DEF DupReturns, At, Idle, NoCall, FrameInv, CountInv, CtxInv, Stale, Giver, TypeOK, Frame, Tokens, Ctxs
<1>9. call'[t].pc # "free"
  BY <1>1, <1>3 DEF DupReturns, NoCall, Enter, Idle, At, Goto, Return, FrameInv
<1> QED BY <1>4, <1>5, <1>6, <1>7, <1>8, <1>9, <1>2, QuietStep, Locality

\* The inductive invariant survives the error path of oqs_sig_dupctx.
LEMMA DupFailsPreserves ==
  ASSUME IInv, NEW t \in Threads, DupFails(t)
  PROVE  IInv'
<1> USE TokensAssumption DEF IInv
<1>1. FrameInv(t) /\ CountInv(t) /\ call[t] \in Frame
  BY DEF TypeOK
<1>2. UNCHANGED <<mem, refs, own, lost>>
  BY DEF DupFails
<1>a. /\ own[call[t].ctx] = ptr[call[t].ctx] /\ own[t] = Null
      /\ call[t].ctx \in Ctxs /\ ptr[call[t].ctx] \in Keys \cup {Null}
  BY <1>1 DEF DupFails, At, FrameInv, CtxInv, Stale, TypeOK
<1>3. /\ call'[t] = [op |-> "freectx", pc |-> IF ptr[call[t].ctx] = Null THEN "ret" ELSE "decr", ctx |-> call[t].ctx, src |-> call[t].src,
                     key |-> call[t].key, victim |-> ptr[call[t].ctx], cnt |-> call[t].cnt]
      /\ \A u \in Threads \ {t} : call'[u] = call[u]
      /\ call' \in [Threads -> Frame]
  BY <1>1 DEF DupFails, NoCall, Enter, Idle, At, Goto, Return, FreeCtxKey, TypeOK, Frame, Ops, Pcs, Tokens, Ctxs
<1>4. TypeOK'
  BY <1>2, <1>3 DEF DupFails, TypeOK, Ctxs
<1>5. OnlyThread(t)
  BY <1>1, <1>2, <1>3, QuietStep DEF DupFails, At, FrameInv, OnlyThread, TypeOK, Ctxs
<1>6. \A h \in Handles : hold'[h] = {} <=> own'[h] = Null
  BY <1>2 DEF DupFails, TypeOK
<1>7. ASSUME NEW c1 \in Ctxs, user[c1] = t \/ user'[c1] = t  PROVE CtxInv(c1)'
  <2>1. /\ user' = user /\ ptr' = ptr /\ own' = own
        /\ call[t].op = "dup" /\ user[c1] = t
    BY <1>7 DEF DupFails, At
  <2>2. ~Stale(c1)  BY <2>1 DEF Stale
  <2>3. own[c1] = ptr[c1] /\ t # Null  BY <2>1, <2>2 DEF CtxInv, Tokens
  <2>4. Stale(c1)' => ptr[c1] = Null
    <3>1. Stale(c1)' => call'[t].ctx = c1 /\ call'[t].pc \in {"free", "ret"}
      BY <2>1 DEF Stale
    <3>2. call'[t].ctx = call[t].ctx
          /\ call'[t].pc = IF ptr[call[t].ctx] = Null THEN "ret" ELSE "decr"
      BY <1>3
    <3>3. QED  BY <3>1, <3>2
  <2>5. QED  BY <2>1, <2>3, <2>4 DEF CtxInv
<1>8. FrameInv(t)' /\ CountInv(t)'
  BY <1>1, <1>2, <1>3, <1>a DEF DupFails, At, Idle, FrameInv, CountInv, CtxInv, Stale, Giver, TypeOK, Frame, Tokens, Ctxs
<1>9. call'[t].pc # "free"
  BY <1>1, <1>3 DEF DupFails, NoCall, Enter, Idle, At, Goto, Return, FreeCtxKey, FrameInv
<1> QED BY <1>4, <1>5, <1>6, <1>7, <1>8, <1>9, <1>2, QuietStep, Locality

\* The inductive invariant survives the end of freectx.
LEMMA CtxGonePreserves ==
  ASSUME IInv, NEW t \in Threads, CtxGone(t)
  PROVE  IInv'
<1> USE TokensAssumption DEF IInv
<1>1. FrameInv(t) /\ CountInv(t) /\ call[t] \in Frame
  BY DEF TypeOK
<1>2. UNCHANGED <<mem, refs, own, lost>>
  BY DEF CtxGone
<1>3. /\ call'[t] = NoCall
      /\ \A u \in Threads \ {t} : call'[u] = call[u]
      /\ call' \in [Threads -> Frame]
  BY <1>1 DEF CtxGone, NoCall, Enter, Idle, At, Goto, Return, TypeOK, Frame, Ops, Pcs, Tokens, Ctxs
<1>4. TypeOK'
  BY <1>2, <1>3 DEF CtxGone, TypeOK, Ctxs
<1>5. OnlyThread(t)
  BY ZenonT(40), <1>1, <1>2, <1>3, QuietStep DEF CtxGone, At, FrameInv, OnlyThread, TypeOK, Ctxs
<1>6. \A h \in Handles : hold'[h] = {} <=> own'[h] = Null
  BY <1>2 DEF CtxGone, TypeOK
<1>7. \A c1 \in Ctxs : (user[c1] = t \/ user'[c1] = t) => CtxInv(c1)'
  BY <1>1, <1>2, <1>3 DEF CtxGone, NoCall, Enter, Idle, At, Goto, Return, CtxInv, Stale, FrameInv, TypeOK, Frame, Ctxs
<1>8. FrameInv(t)' /\ CountInv(t)'
  BY <1>1, <1>2, <1>3, <1>7 DEF CtxGone, At, Idle, NoCall, FrameInv, CountInv, CtxInv, Stale, Giver, TypeOK, Frame, Tokens, Ctxs
<1>9. call'[t].pc # "free"
  BY <1>1, <1>3 DEF CtxGone, NoCall, Enter, Idle, At, Goto, Return, FrameInv
<1> QED BY <1>4, <1>5, <1>6, <1>7, <1>8, <1>9, <1>2, QuietStep, Locality

\* The inductive invariant survives the return from a call.
LEMMA CallReturnsPreserves ==
  ASSUME IInv, NEW t \in Threads, CallReturns(t)
  PROVE  IInv'
<1> USE TokensAssumption DEF IInv
<1>1. FrameInv(t) /\ CountInv(t) /\ call[t] \in Frame
  BY DEF TypeOK
<1>2. UNCHANGED <<mem, refs, own, lost>>
  BY DEF CallReturns
<1>3. /\ call'[t] = NoCall
      /\ \A u \in Threads \ {t} : call'[u] = call[u]
      /\ call' \in [Threads -> Frame]
  BY <1>1 DEF CallReturns, NoCall, Enter, Idle, At, Goto, Return, TypeOK, Frame, Ops, Pcs, Tokens, Ctxs
<1>4. TypeOK'
  BY <1>2, <1>3 DEF CallReturns, TypeOK, Ctxs
<1>5. OnlyThread(t)
  BY ZenonT(40), <1>1, <1>2, <1>3, QuietStep DEF CallReturns, At, FrameInv, OnlyThread, TypeOK, Ctxs
<1>6. \A h \in Handles : hold'[h] = {} <=> own'[h] = Null
  BY <1>2 DEF CallReturns, TypeOK
<1>7. \A c1 \in Ctxs : (user[c1] = t \/ user'[c1] = t) => CtxInv(c1)'
  BY <1>1, <1>2, <1>3 DEF CallReturns, NoCall, Enter, Idle, At, Goto, Return, CtxInv, Stale, FrameInv, TypeOK, Frame, Ctxs
<1>8. FrameInv(t)' /\ CountInv(t)'
  BY <1>1, <1>2, <1>3, <1>7 DEF CallReturns, At, Idle, NoCall, FrameInv, CountInv, CtxInv, Stale, Giver, TypeOK, Frame, Tokens, Ctxs
<1>9. call'[t].pc # "free"
  BY <1>1, <1>3 DEF CallReturns, NoCall, Enter, Idle, At, Goto, Return, FrameInv
<1> QED BY <1>4, <1>5, <1>6, <1>7, <1>8, <1>9, <1>2, QuietStep, Locality

\* The inductive invariant survives the creation of a key.
LEMMA NewKeyPreserves ==
  ASSUME IInv, NEW t \in Threads, NEW k \in Keys, NEW h \in Handles,
         NewKey(t, k, h)
  PROVE  IInv'
<1> USE TokensAssumption
<1>0. /\ TypeOK /\ RefsCountOwners /\ FrameInv(t) /\ CountInv(t) /\ call[t] \in Frame
      /\ \A j \in Keys : mem[j] # "live" => HeldBy(j) = {}
      /\ \A g \in Handles : hold[g] = {} <=> own[g] = Null
      /\ \A c \in Ctxs : CtxInv(c)
  BY DEF IInv, TypeOK
<1>1. call[t].op = "none" /\ own[h] = Null /\ hold[h] = {} /\ mem[k] = "unused" /\ h \in Tokens
  BY <1>0, IdleThread DEF NewKey, UnusedHandle, Alloc, FrameInv, CountInv, TypeOK, Frame, Ops, Tokens
<1>2. /\ mem' = [mem EXCEPT ![k] = "live"] /\ refs' = [refs EXCEPT ![k] = 1]
      /\ own' = [own EXCEPT ![h] = k] /\ hold' = [hold EXCEPT ![h] = {t}]
      /\ UNCHANGED <<ptr, lost, user>>
  BY <1>0, <1>1 DEF NewKey, UnusedHandle, Alloc, TypeOK
<1>3. /\ HeldBy(k)' = {h} /\ Cardinality({h}) = 1 /\ HeldBy(k) = {}
      /\ \A j \in Keys \ {k} : HeldBy(j)' = HeldBy(j)
  <2>1. HeldBy(k) = {}
    BY <1>0, <1>1
  <2>2. HeldBy(k)' = HeldBy(k) \cup {h} /\ \A j \in Keys \ {k} : HeldBy(j)' = HeldBy(j)
    BY <1>0, <1>1, <1>2, HoldersGain
  <2> QED BY <2>1, <2>2, FS_Singleton
<1>4. call' = call
  BY DEF NewKey
<1>5. TypeOK'
  BY <1>0, <1>1, <1>2, <1>4 DEF TypeOK, Tokens
<1>6. RefsCountOwners'
  BY <1>0, <1>2, <1>3 DEF RefsCountOwners, TypeOK
<1>7. \A j \in Keys : mem'[j] # "live" => HeldBy(j)' = {}
  BY <1>0, <1>1, <1>2, <1>3 DEF TypeOK
<1>8. \A g \in Handles : hold'[g] = {} <=> own'[g] = Null
  BY <1>0, <1>1, <1>2 DEF TypeOK, Tokens
<1>9. \A c \in Ctxs : (user[c] = t \/ user'[c] = t) => CtxInv(c)'
  BY <1>0, <1>1, <1>2, <1>4 DEF CtxInv, Stale, FrameInv, TypeOK, Frame, Tokens
<1>10. OnlyThread(t)
  <2>1. ASSUME NEW u \in Threads, NEW j \in Keys, u # t, call[u].pc = "free", call[u].victim = j
        PROVE  mem'[j] = "live" /\ HeldBy(j)' = {}
    <3>1. mem[j] = "live" /\ HeldBy(j) = {} /\ call[u].victim \in Keys
      BY <2>1 DEF IInv, CountInv
    <3> QED BY <3>1, <2>1, <1>0, <1>1, <1>2, <1>3 DEF TypeOK
  <2>2. \A u \in Threads \ {t} : call'[u] = call[u] /\ own'[u] = own[u]
    BY <1>0, <1>1, <1>2, <1>4 DEF TypeOK, Tokens
  <2>3. \A u \in Threads \ {t}, g \in Handles : u \in hold[g] => u \in hold'[g] /\ own'[g] = own[g]
    BY <1>0, <1>1, <1>2 DEF TypeOK, Tokens
  <2>4. \A c \in Ctxs : user[c] # t => user'[c] = user[c] /\ ptr'[c] = ptr[c] /\ own'[c] = own[c]
    BY <1>0, <1>1, <1>2 DEF TypeOK, Tokens
  <2> QED BY <2>1, <2>2, <2>3, <2>4 DEF OnlyThread
<1>11. FrameInv(t)' /\ CountInv(t)'
  BY <1>0, <1>1, <1>2, <1>3, <1>4 DEF FrameInv, CountInv, Giver, TypeOK, Frame, Tokens
<1>12. \A u \in Threads \ {t} : (call'[t].pc = "free" /\ call[u].pc = "free") =>
                                 call[u].victim # call'[t].victim
  <2>1. ASSUME NEW u \in Threads, call[u].pc = "free"
        PROVE  call[u].victim \in Keys /\ HeldBy(call[u].victim) = {}
    BY <2>1 DEF IInv, CountInv
  <2> QED BY <2>1, <1>0, <1>1, <1>2, <1>3, <1>4 DEF FrameInv
<1> QED BY <1>5, <1>6, <1>7, <1>8, <1>9, <1>10, <1>11, <1>12, Locality

\* The inductive invariant survives a failed oqsx_genkey.
LEMMA GenkeyFailsPreserves ==
  ASSUME IInv, NEW t \in Threads, NEW k \in Keys, GenkeyFails(t, k)
  PROVE  IInv'
<1> USE TokensAssumption
<1>0. /\ TypeOK /\ RefsCountOwners /\ FrameInv(t) /\ CountInv(t) /\ call[t] \in Frame
      /\ \A j \in Keys : mem[j] # "live" => HeldBy(j) = {}
      /\ \A g \in Handles : hold[g] = {} <=> own[g] = Null
      /\ \A c \in Ctxs : CtxInv(c)
  BY DEF IInv, TypeOK
<1>1. call[t].op = "none" /\ mem[k] = "unused"
  BY <1>0, IdleThread DEF GenkeyFails, Alloc, FrameInv, CountInv, TypeOK, Frame, Ops, Tokens
<1>2. /\ mem' = [mem EXCEPT ![k] = "live"] /\ refs' = [refs EXCEPT ![k] = 1]
      /\ lost' = lost \cup {k} /\ UNCHANGED <<ptr, own, hold, user>>
  BY <1>0, <1>1 DEF GenkeyFails, Alloc, TypeOK
<1>3. /\ HeldBy(k)' = {Lost} /\ Cardinality({Lost}) = 1 /\ HeldBy(k) = {}
      /\ \A j \in Keys \ {k} : HeldBy(j)' = HeldBy(j)
  <2>1. HeldBy(k) = {}
    BY <1>0, <1>1
  <2>2. HeldBy(k)' = HeldBy(k) \cup {Lost} /\ \A j \in Keys \ {k} : HeldBy(j)' = HeldBy(j)
    BY <1>0, <1>1, <1>2 DEF HeldBy, Owners, TypeOK
  <2> QED BY <2>1, <2>2, FS_Singleton
<1>4. call' = call
  BY DEF GenkeyFails
<1>5. TypeOK'
  BY <1>0, <1>1, <1>2, <1>4 DEF TypeOK, Tokens
<1>6. RefsCountOwners'
  BY <1>0, <1>2, <1>3 DEF RefsCountOwners, TypeOK
<1>7. \A j \in Keys : mem'[j] # "live" => HeldBy(j)' = {}
  BY <1>0, <1>1, <1>2, <1>3 DEF TypeOK
<1>8. \A g \in Handles : hold'[g] = {} <=> own'[g] = Null
  BY <1>0, <1>1, <1>2 DEF TypeOK, Tokens
<1>9. \A c \in Ctxs : (user[c] = t \/ user'[c] = t) => CtxInv(c)'
  BY <1>0, <1>1, <1>2, <1>4 DEF CtxInv, Stale, FrameInv, TypeOK, Frame, Tokens
<1>10. OnlyThread(t)
  <2>1. ASSUME NEW u \in Threads, NEW j \in Keys, u # t, call[u].pc = "free", call[u].victim = j
        PROVE  mem'[j] = "live" /\ HeldBy(j)' = {}
    <3>1. mem[j] = "live" /\ HeldBy(j) = {} /\ call[u].victim \in Keys
      BY <2>1 DEF IInv, CountInv
    <3> QED BY <3>1, <2>1, <1>0, <1>1, <1>2, <1>3 DEF TypeOK
  <2>2. \A u \in Threads \ {t} : call'[u] = call[u] /\ own'[u] = own[u]
    BY <1>0, <1>1, <1>2, <1>4 DEF TypeOK, Tokens
  <2>3. \A u \in Threads \ {t}, g \in Handles : u \in hold[g] => u \in hold'[g] /\ own'[g] = own[g]
    BY <1>0, <1>1, <1>2 DEF TypeOK, Tokens
  <2>4. \A c \in Ctxs : user[c] # t => user'[c] = user[c] /\ ptr'[c] = ptr[c] /\ own'[c] = own[c]
    BY <1>0, <1>1, <1>2 DEF TypeOK, Tokens
  <2> QED BY <2>1, <2>2, <2>3, <2>4 DEF OnlyThread
<1>11. FrameInv(t)' /\ CountInv(t)'
  BY <1>0, <1>1, <1>2, <1>3, <1>4 DEF FrameInv, CountInv, Giver, TypeOK, Frame, Tokens
<1>12. \A u \in Threads \ {t} : (call'[t].pc = "free" /\ call[u].pc = "free") =>
                                 call[u].victim # call'[t].victim
  <2>1. ASSUME NEW u \in Threads, call[u].pc = "free"
        PROVE  call[u].victim \in Keys /\ HeldBy(call[u].victim) = {}
    BY <2>1 DEF IInv, CountInv
  <2> QED BY <2>1, <1>0, <1>1, <1>2, <1>3, <1>4 DEF FrameInv
<1> QED BY <1>5, <1>6, <1>7, <1>8, <1>9, <1>10, <1>11, <1>12, Locality

\* The inductive invariant survives the start of the decoder.
LEMMA DecodeBeginPreserves ==
  ASSUME IInv, NEW t \in Threads, NEW k \in Keys, DecodeBegin(t, k)
  PROVE  IInv'
<1> USE TokensAssumption
<1>0. /\ TypeOK /\ RefsCountOwners /\ FrameInv(t) /\ CountInv(t) /\ call[t] \in Frame
      /\ \A j \in Keys : mem[j] # "live" => HeldBy(j) = {}
      /\ \A g \in Handles : hold[g] = {} <=> own[g] = Null
      /\ \A c \in Ctxs : CtxInv(c)
  BY DEF IInv, TypeOK
<1>1. call[t].op = "none" /\ own[t] = Null /\ mem[k] = "unused" /\ t \in Tokens
  BY <1>0, IdleThread DEF DecodeBegin, Alloc, FrameInv, CountInv, TypeOK, Frame, Ops, Tokens
<1>2. /\ mem' = [mem EXCEPT ![k] = "live"] /\ refs' = [refs EXCEPT ![k] = 1]
      /\ own' = [own EXCEPT ![t] = k] /\ UNCHANGED <<ptr, lost, hold, user>>
  BY <1>0, <1>1 DEF DecodeBegin, Alloc, TypeOK
<1>3. /\ HeldBy(k)' = {t} /\ Cardinality({t}) = 1 /\ HeldBy(k) = {}
      /\ \A j \in Keys \ {k} : HeldBy(j)' = HeldBy(j)
  <2>1. HeldBy(k) = {}
    BY <1>0, <1>1
  <2>2. HeldBy(k)' = HeldBy(k) \cup {t} /\ \A j \in Keys \ {k} : HeldBy(j)' = HeldBy(j)
    BY <1>0, <1>1, <1>2, HoldersGain
  <2> QED BY <2>1, <2>2, FS_Singleton
<1>4. /\ call'[t] = [op |-> "decode", pc |-> "callback", ctx |-> Null, src |-> Null,
                     key |-> Null, victim |-> Null, cnt |-> 0]
      /\ \A u \in Threads \ {t} : call'[u] = call[u]
      /\ call' \in [Threads -> Frame]
  <2>1. /\ call'[t] = [op |-> "decode", pc |-> "callback", ctx |-> Null, src |-> Null,
                     key |-> Null, victim |-> Null, cnt |-> 0]
        /\ \A u \in Threads \ {t} : call'[u] = call[u]
    BY <1>0, <1>1 DEF DecodeBegin, Alloc, Idle, At, Goto, Return, Enter, TypeOK, Frame
  <2>2. call' = [u \in Threads |-> call'[u]]
    BY <1>0 DEF DecodeBegin, Alloc, Goto, Return, Enter, TypeOK
  <2>3. call'[t] \in Frame
    BY <2>1, <1>0, <1>1 DEF Frame, Ops, Pcs, TypeOK, Tokens
  <2> QED BY <2>1, <2>2, <2>3, <1>0 DEF TypeOK
<1>5. TypeOK'
  BY <1>0, <1>1, <1>2, <1>4 DEF TypeOK, Tokens
<1>6. RefsCountOwners'
  BY <1>0, <1>2, <1>3 DEF RefsCountOwners, TypeOK
<1>7. \A j \in Keys : mem'[j] # "live" => HeldBy(j)' = {}
  BY <1>0, <1>1, <1>2, <1>3 DEF TypeOK
<1>8. \A g \in Handles : hold'[g] = {} <=> own'[g] = Null
  BY <1>0, <1>1, <1>2 DEF TypeOK, Tokens
<1>9. \A c \in Ctxs : (user[c] = t \/ user'[c] = t) => CtxInv(c)'
  BY <1>0, <1>1, <1>2, <1>4 DEF CtxInv, Stale, FrameInv, TypeOK, Frame, Tokens
<1>10. OnlyThread(t)
  <2>1. ASSUME NEW u \in Threads, NEW j \in Keys, u # t, call[u].pc = "free", call[u].victim = j
        PROVE  mem'[j] = "live" /\ HeldBy(j)' = {}
    <3>1. mem[j] = "live" /\ HeldBy(j) = {} /\ call[u].victim \in Keys
      BY <2>1 DEF IInv, CountInv
    <3> QED BY <3>1, <2>1, <1>0, <1>1, <1>2, <1>3 DEF TypeOK
  <2>2. \A u \in Threads \ {t} : call'[u] = call[u] /\ own'[u] = own[u]
    BY <1>0, <1>1, <1>2, <1>4 DEF TypeOK, Tokens
  <2>3. \A u \in Threads \ {t}, g \in Handles : u \in hold[g] => u \in hold'[g] /\ own'[g] = own[g]
    BY <1>0, <1>1, <1>2 DEF TypeOK, Tokens
  <2>4. \A c \in Ctxs : user[c] # t => user'[c] = user[c] /\ ptr'[c] = ptr[c] /\ own'[c] = own[c]
    BY <1>0, <1>1, <1>2 DEF TypeOK, Tokens
  <2> QED BY <2>1, <2>2, <2>3, <2>4 DEF OnlyThread
<1>11. FrameInv(t)' /\ CountInv(t)'
  BY <1>0, <1>1, <1>2, <1>3, <1>4 DEF FrameInv, CountInv, Giver, TypeOK, Frame, Tokens
<1>12. \A u \in Threads \ {t} : (call'[t].pc = "free" /\ call[u].pc = "free") =>
                                 call[u].victim # call'[t].victim
  <2>1. ASSUME NEW u \in Threads, call[u].pc = "free"
        PROVE  call[u].victim \in Keys /\ HeldBy(call[u].victim) = {}
    BY <2>1 DEF IInv, CountInv
  <2> QED BY <2>1, <1>0, <1>1, <1>2, <1>3, <1>4 DEF FrameInv
<1> QED BY <1>5, <1>6, <1>7, <1>8, <1>9, <1>10, <1>11, <1>12, Locality

\* The inductive invariant survives oqsx_load.
LEMMA DecodeLoadPreserves ==
  ASSUME IInv, NEW t \in Threads, NEW h \in Handles, DecodeLoad(t, h)
  PROVE  IInv'
<1> USE TokensAssumption
<1>0. /\ TypeOK /\ RefsCountOwners /\ FrameInv(t) /\ CountInv(t) /\ call[t] \in Frame
      /\ \A j \in Keys : mem[j] # "live" => HeldBy(j) = {}
      /\ \A g \in Handles : hold[g] = {} <=> own[g] = Null
      /\ \A c \in Ctxs : CtxInv(c)
  BY DEF IInv, TypeOK
<1>k. PICK k \in Keys : k = own[t]
  BY <1>0 DEF DecodeLoad, TypeOK, Tokens
<1>1. /\ call[t].op = "decode" /\ call[t].pc = "callback" /\ own[t] = k
      /\ own[h] = Null /\ hold[h] = {} /\ t \in Tokens /\ h \in Tokens /\ t # h
  BY <1>0, <1>k, IdleThread DEF DecodeLoad, UnusedHandle, At, FrameInv, CountInv, TypeOK, Frame, Ops, Tokens
<1>2. /\ own' = [own EXCEPT ![h] = k, ![t] = Null] /\ hold' = [hold EXCEPT ![h] = {t}]
      /\ UNCHANGED <<mem, refs, ptr, lost, user>>
  BY <1>0, <1>1, <1>k DEF DecodeLoad, UnusedHandle, At, TypeOK
<1>3. /\ HeldBy(k)' = (HeldBy(k) \ {t}) \cup {h} /\ HeldBy(k) # {} /\ HeldBy(k)' # {}
      /\ Cardinality(HeldBy(k)') = Cardinality(HeldBy(k))
      /\ \A j \in Keys \ {k} : HeldBy(j)' = HeldBy(j)
  <2>1. t \in HeldBy(k)
    BY <1>1 DEF HeldBy, Owners
  <2>2. /\ HeldBy(k)' = (HeldBy(k) \ {t}) \cup {h}
        /\ \A j \in Keys \ {k} : HeldBy(j)' = HeldBy(j)
        /\ Cardinality(HeldBy(k)') = Cardinality(HeldBy(k))
    BY <1>0, <1>1, <1>2, HoldersPass
  <2> QED BY <2>1, <2>2
<1>4. call' = call
  BY DEF DecodeLoad
<1>5. TypeOK'
  BY <1>0, <1>1, <1>2, <1>4 DEF TypeOK, Tokens
<1>6. RefsCountOwners'
  BY <1>0, <1>2, <1>3 DEF RefsCountOwners, TypeOK
<1>7. \A j \in Keys : mem'[j] # "live" => HeldBy(j)' = {}
  BY <1>0, <1>1, <1>2, <1>3 DEF TypeOK
<1>8. \A g \in Handles : hold'[g] = {} <=> own'[g] = Null
  BY ZenonT(40), <1>0, <1>1, <1>2 DEF TypeOK, Tokens
<1>9. \A c \in Ctxs : (user[c] = t \/ user'[c] = t) => CtxInv(c)'
  BY <1>0, <1>1, <1>2, <1>4 DEF CtxInv, Stale, FrameInv, TypeOK, Frame, Tokens
<1>10. OnlyThread(t)
  <2>1. ASSUME NEW u \in Threads, NEW j \in Keys, u # t, call[u].pc = "free", call[u].victim = j
        PROVE  mem'[j] = "live" /\ HeldBy(j)' = {}
    <3>1. mem[j] = "live" /\ HeldBy(j) = {} /\ call[u].victim \in Keys
      BY <2>1 DEF IInv, CountInv
    <3> QED BY <3>1, <2>1, <1>0, <1>1, <1>2, <1>3 DEF TypeOK
  <2>2. \A u \in Threads \ {t} : call'[u] = call[u] /\ own'[u] = own[u]
    BY <1>0, <1>1, <1>2, <1>4 DEF TypeOK, Tokens
  <2>3. \A u \in Threads \ {t}, g \in Handles : u \in hold[g] => u \in hold'[g] /\ own'[g] = own[g]
    BY <1>0, <1>1, <1>2 DEF TypeOK, Tokens
  <2>4. \A c \in Ctxs : user[c] # t => user'[c] = user[c] /\ ptr'[c] = ptr[c] /\ own'[c] = own[c]
    BY <1>0, <1>1, <1>2 DEF TypeOK, Tokens
  <2> QED BY <2>1, <2>2, <2>3, <2>4 DEF OnlyThread
<1>11. FrameInv(t)' /\ CountInv(t)'
  BY <1>0, <1>1, <1>2, <1>3, <1>4 DEF FrameInv, CountInv, Giver, TypeOK, Frame, Tokens
<1>12. \A u \in Threads \ {t} : (call'[t].pc = "free" /\ call[u].pc = "free") =>
                                 call[u].victim # call'[t].victim
  <2>1. ASSUME NEW u \in Threads, call[u].pc = "free"
        PROVE  call[u].victim \in Keys /\ HeldBy(call[u].victim) = {}
    BY <2>1 DEF IInv, CountInv
  <2> QED BY <2>1, <1>0, <1>1, <1>2, <1>3, <1>4 DEF FrameInv
<1> QED BY <1>5, <1>6, <1>7, <1>8, <1>9, <1>10, <1>11, <1>12, Locality

\* The inductive invariant survives EVP_PKEY_free.
LEMMA HandleDropPreserves ==
  ASSUME IInv, NEW t \in Threads, NEW h \in Handles, HandleDrop(t, h)
  PROVE  IInv'
<1> USE TokensAssumption
<1>0. /\ TypeOK /\ RefsCountOwners /\ FrameInv(t) /\ CountInv(t) /\ call[t] \in Frame
      /\ \A j \in Keys : mem[j] # "live" => HeldBy(j) = {}
      /\ \A g \in Handles : hold[g] = {} <=> own[g] = Null
      /\ \A c \in Ctxs : CtxInv(c)
  BY DEF IInv, TypeOK
<1>k. PICK k \in Keys : k = own[h]
  BY <1>0 DEF HandleDrop, TypeOK, Tokens
<1>1. /\ call[t].op = "none" /\ call[t].pc = "idle" /\ own[t] = Null /\ own[h] = k
      /\ t \in hold[h] /\ t \in Tokens /\ h \in Tokens /\ t # h
  BY <1>0, <1>k, IdleThread DEF HandleDrop, FrameInv, CountInv, TypeOK, Frame, Ops, Tokens
<1>2. /\ hold' = [hold EXCEPT ![h] = @ \ {t}]
      /\ hold[h] = {t} => own' = [own EXCEPT ![t] = k, ![h] = Null]
      /\ hold[h] # {t} => own' = own
      /\ UNCHANGED <<mem, refs, ptr, lost, user>>
  BY <1>0, <1>1, <1>k DEF HandleDrop, TypeOK
<1>3. /\ \A j \in Keys : HeldBy(j) = {} <=> HeldBy(j)' = {}
      /\ \A j \in Keys : Cardinality(HeldBy(j)') = Cardinality(HeldBy(j))
  <2>1. CASE hold[h] = {t}
    <3>1. h \in HeldBy(k)
      BY <1>1 DEF HeldBy, Owners
    <3> QED BY <3>1, <2>1, <1>0, <1>1, <1>2, HoldersPass
  <2>2. CASE hold[h] # {t}
    BY <2>2, <1>2 DEF HeldBy, Owners
  <2> QED BY <2>1, <2>2
<1>4. /\ call'[t] = (IF hold[h] = {t}
                     THEN [op |-> "drop", pc |-> "decr", ctx |-> Null, src |-> Null,
                     key |-> Null, victim |-> k, cnt |-> 0]
                     ELSE call[t])
      /\ \A u \in Threads \ {t} : call'[u] = call[u]
      /\ call' \in [Threads -> Frame]
  <2>1. /\ call'[t] = (IF hold[h] = {t}
                     THEN [op |-> "drop", pc |-> "decr", ctx |-> Null, src |-> Null,
                     key |-> Null, victim |-> k, cnt |-> 0]
                     ELSE call[t])
        /\ \A u \in Threads \ {t} : call'[u] = call[u]
    BY <1>0, <1>1, <1>k DEF HandleDrop, Idle, At, Goto, Return, Enter, TypeOK, Frame
  <2>2. call' = [u \in Threads |-> call'[u]]
    BY <1>0 DEF HandleDrop, Goto, Return, Enter, TypeOK
  <2>3. call'[t] \in Frame
    BY <2>1, <1>0, <1>1, <1>k DEF Frame, Ops, Pcs, TypeOK, Tokens
  <2> QED BY <2>1, <2>2, <2>3, <1>0 DEF TypeOK
<1>5. TypeOK'
  BY <1>0, <1>1, <1>2, <1>4 DEF TypeOK, Tokens
<1>6. RefsCountOwners'
  BY <1>0, <1>2, <1>3 DEF RefsCountOwners, TypeOK
<1>7. \A j \in Keys : mem'[j] # "live" => HeldBy(j)' = {}
  BY <1>0, <1>1, <1>2, <1>3 DEF TypeOK
<1>8. \A g \in Handles : hold'[g] = {} <=> own'[g] = Null
  BY <1>0, <1>1, <1>2 DEF TypeOK, Tokens
<1>9. \A c \in Ctxs : (user[c] = t \/ user'[c] = t) => CtxInv(c)'
  BY <1>0, <1>1, <1>2, <1>4 DEF CtxInv, Stale, FrameInv, TypeOK, Frame, Tokens
<1>10. OnlyThread(t)
  <2>1. ASSUME NEW u \in Threads, NEW j \in Keys, u # t, call[u].pc = "free", call[u].victim = j
        PROVE  mem'[j] = "live" /\ HeldBy(j)' = {}
    <3>1. mem[j] = "live" /\ HeldBy(j) = {} /\ call[u].victim \in Keys
      BY <2>1 DEF IInv, CountInv
    <3> QED BY <3>1, <2>1, <1>0, <1>1, <1>2, <1>3 DEF TypeOK
  <2>2. \A u \in Threads \ {t} : call'[u] = call[u] /\ own'[u] = own[u]
    BY <1>0, <1>1, <1>2, <1>4 DEF TypeOK, Tokens
  <2>3. \A u \in Threads \ {t}, g \in Handles : u \in hold[g] => u \in hold'[g] /\ own'[g] = own[g]
    BY <1>0, <1>1, <1>2 DEF TypeOK, Tokens
  <2>4. \A c \in Ctxs : user[c] # t => user'[c] = user[c] /\ ptr'[c] = ptr[c] /\ own'[c] = own[c]
    BY <1>0, <1>1, <1>2 DEF TypeOK, Tokens
  <2> QED BY <2>1, <2>2, <2>3, <2>4 DEF OnlyThread
<1>11. FrameInv(t)' /\ CountInv(t)'
  BY <1>0, <1>1, <1>2, <1>3, <1>4 DEF FrameInv, CountInv, Giver, TypeOK, Frame, Tokens
<1>12. \A u \in Threads \ {t} : (call'[t].pc = "free" /\ call[u].pc = "free") =>
                                 call[u].victim # call'[t].victim
  <2>1. ASSUME NEW u \in Threads, call[u].pc = "free"
        PROVE  call[u].victim \in Keys /\ HeldBy(call[u].victim) = {}
    BY <2>1 DEF IInv, CountInv
  <2> QED BY <2>1, <1>0, <1>1, <1>2, <1>3, <1>4 DEF FrameInv
<1> QED BY <1>5, <1>6, <1>7, <1>8, <1>9, <1>10, <1>11, <1>12, Locality

\* The inductive invariant survives the increment in oqsx_key_up_ref.
LEMMA UpRefPreserves ==
  ASSUME IInv, NEW t \in Threads, UpRef(t)
  PROVE  IInv'
<1> USE TokensAssumption
<1>0. /\ TypeOK /\ RefsCountOwners /\ FrameInv(t) /\ CountInv(t) /\ call[t] \in Frame
      /\ \A j \in Keys : mem[j] # "live" => HeldBy(j) = {}
      /\ \A g \in Handles : hold[g] = {} <=> own[g] = Null
      /\ \A c \in Ctxs : CtxInv(c)
  BY DEF IInv, TypeOK
<1>k. PICK k \in Keys : k = call[t].key
  BY <1>0 DEF UpRef, FrameInv, TypeOK, Frame, Ops
<1>1. /\ call[t].op \in {"init", "dup"} /\ call[t].pc = "upref"
      /\ call[t].key = k /\ own[t] = Null /\ t \in Tokens
      /\ call[t].src \in Tokens /\ own[call[t].src] = k
  BY <1>0, <1>k, IdleThread DEF UpRef, FrameInv, CountInv, TypeOK, Frame, Ops, Tokens
<1>2. /\ refs' = [refs EXCEPT ![k] = @ + 1] /\ own' = [own EXCEPT ![t] = k]
      /\ UNCHANGED <<mem, ptr, lost, hold, user>>
  BY <1>0, <1>1, <1>k DEF UpRef, TypeOK
<1>3. /\ HeldBy(k)' = HeldBy(k) \cup {t} /\ HeldBy(k) # {}
      /\ Cardinality(HeldBy(k)') = Cardinality(HeldBy(k)) + 1
      /\ \A j \in Keys \ {k} : HeldBy(j)' = HeldBy(j)
      /\ refs[k] > 0
  <2>1. call[t].src \in HeldBy(k)
    BY <1>1 DEF HeldBy, Owners
  <2>2. Cardinality(HeldBy(k)) > 0
    BY <2>1, HeldByFinite, FS_EmptySet, FS_CardinalityType
  <2>3. refs[k] > 0
    BY <2>2, <1>0 DEF RefsCountOwners
  <2> QED BY <2>1, <2>3, <1>0, <1>1, <1>2, HoldersGain
<1>4. /\ call'[t] = [op |-> call[t].op, pc |-> "upret", ctx |-> call[t].ctx, src |-> call[t].src,
                     key |-> k, victim |-> call[t].victim, cnt |-> refs[k] + 1]
      /\ \A u \in Threads \ {t} : call'[u] = call[u]
      /\ call' \in [Threads -> Frame]
  <2>1. /\ call'[t] = [op |-> call[t].op, pc |-> "upret", ctx |-> call[t].ctx, src |-> call[t].src,
                     key |-> k, victim |-> call[t].victim, cnt |-> refs[k] + 1]
        /\ \A u \in Threads \ {t} : call'[u] = call[u]
    BY <1>0, <1>1, <1>k DEF UpRef, Idle, At, Goto, Return, Enter, TypeOK, Frame
  <2>2. call' = [u \in Threads |-> call'[u]]
    BY <1>0 DEF UpRef, Goto, Return, Enter, TypeOK
  <2>3. call'[t] \in Frame
    BY <2>1, <1>0, <1>1, <1>k DEF Frame, Ops, Pcs, TypeOK, Tokens
  <2> QED BY <2>1, <2>2, <2>3, <1>0 DEF TypeOK
<1>5. TypeOK'
  BY <1>0, <1>1, <1>2, <1>4 DEF TypeOK, Tokens
<1>6. RefsCountOwners'
  BY <1>0, <1>2, <1>3 DEF RefsCountOwners, TypeOK
<1>7. \A j \in Keys : mem'[j] # "live" => HeldBy(j)' = {}
  BY <1>0, <1>1, <1>2, <1>3 DEF TypeOK
<1>8. \A g \in Handles : hold'[g] = {} <=> own'[g] = Null
  BY <1>0, <1>1, <1>2 DEF TypeOK, Tokens
<1>9. \A c \in Ctxs : (user[c] = t \/ user'[c] = t) => CtxInv(c)'
  BY <1>0, <1>1, <1>2, <1>4 DEF CtxInv, Stale, FrameInv, TypeOK, Frame, Tokens
<1>10. OnlyThread(t)
  <2>1. ASSUME NEW u \in Threads, NEW j \in Keys, u # t, call[u].pc = "free", call[u].victim = j
        PROVE  mem'[j] = "live" /\ HeldBy(j)' = {}
    <3>1. mem[j] = "live" /\ HeldBy(j) = {} /\ call[u].victim \in Keys
      BY <2>1 DEF IInv, CountInv
    <3> QED BY <3>1, <2>1, <1>0, <1>1, <1>2, <1>3 DEF TypeOK
  <2>2. \A u \in Threads \ {t} : call'[u] = call[u] /\ own'[u] = own[u]
    BY <1>0, <1>1, <1>2, <1>4 DEF TypeOK, Tokens
  <2>3. \A u \in Threads \ {t}, g \in Handles : u \in hold[g] => u \in hold'[g] /\ own'[g] = own[g]
    BY <1>0, <1>1, <1>2 DEF TypeOK, Tokens
  <2>4. \A c \in Ctxs : user[c] # t => user'[c] = user[c] /\ ptr'[c] = ptr[c] /\ own'[c] = own[c]
    BY <1>0, <1>1, <1>2 DEF TypeOK, Tokens
  <2> QED BY <2>1, <2>2, <2>3, <2>4 DEF OnlyThread
<1>11. FrameInv(t)' /\ CountInv(t)'
  BY <1>0, <1>1, <1>2, <1>3, <1>4 DEF FrameInv, CountInv, Giver, TypeOK, Frame, Tokens
<1>12. \A u \in Threads \ {t} : (call'[t].pc = "free" /\ call[u].pc = "free") =>
                                 call[u].victim # call'[t].victim
  <2>1. ASSUME NEW u \in Threads, call[u].pc = "free"
        PROVE  call[u].victim \in Keys /\ HeldBy(call[u].victim) = {}
    BY <2>1 DEF IInv, CountInv
  <2> QED BY <2>1, <1>0, <1>1, <1>2, <1>3, <1>4 DEF FrameInv
<1> QED BY <1>5, <1>6, <1>7, <1>8, <1>9, <1>10, <1>11, <1>12, Locality

\* The inductive invariant survives the decrement in oqsx_key_free.
LEMMA DecrPreserves ==
  ASSUME IInv, NEW t \in Threads, Decr(t)
  PROVE  IInv'
<1> USE TokensAssumption
<1>0. /\ TypeOK /\ RefsCountOwners /\ FrameInv(t) /\ CountInv(t) /\ call[t] \in Frame
      /\ \A j \in Keys : mem[j] # "live" => HeldBy(j) = {}
      /\ \A g \in Handles : hold[g] = {} <=> own[g] = Null
      /\ \A c \in Ctxs : CtxInv(c)
  BY DEF IInv, TypeOK
<1>k. PICK k \in Keys, x \in Tokens : k = call[t].victim /\ x = Giver(t)
  BY <1>0 DEF Decr, FrameInv, CountInv, Giver, TypeOK, Frame, Ops, Tokens
<1>1. /\ call[t].op \in {"init", "freectx", "drop", "decode"} /\ call[t].pc = "decr"
      /\ call[t].victim = k /\ own[x] = k /\ t \in Tokens
      /\ x = IF call[t].op \in {"init", "freectx"} THEN call[t].ctx ELSE t
      /\ call[t].op \in {"init", "freectx"} => call[t].ctx \in Ctxs /\ user[call[t].ctx] = t
  BY <1>0, <1>k, IdleThread DEF Decr, Giver, FrameInv, CountInv, TypeOK, Frame, Ops, Tokens
<1>2. /\ refs' = [refs EXCEPT ![k] = @ - 1] /\ own' = [own EXCEPT ![x] = Null]
      /\ UNCHANGED <<mem, ptr, lost, hold, user>>
  BY <1>0, <1>1, <1>k DEF Decr, Giver, TypeOK
<1>3. /\ HeldBy(k)' = HeldBy(k) \ {x} /\ HeldBy(k) # {} /\ mem[k] = "live"
      /\ refs[k] - 1 = Cardinality(HeldBy(k)') /\ refs[k] - 1 \in Nat
      /\ refs[k] - 1 = 0 => HeldBy(k)' = {}
      /\ \A u \in Threads \ {t} : call[u].pc = "free" => call[u].victim # k
      /\ \A j \in Keys \ {k} : HeldBy(j)' = HeldBy(j)
  <2>1. x \in HeldBy(k) /\ refs[k] = Cardinality(HeldBy(k))
    BY <1>0, <1>1 DEF HeldBy, Owners, RefsCountOwners
  <2>2. mem[k] = "live"
    BY <2>1, <1>0
  <2>3. Cardinality(HeldBy(k)) \in Nat
    BY HeldByFinite, FS_CardinalityType
  <2>4. /\ HeldBy(k)' = HeldBy(k) \ {x}
        /\ \A j \in Keys \ {k} : HeldBy(j)' = HeldBy(j)
        /\ Cardinality(HeldBy(k)') = Cardinality(HeldBy(k)) - 1
        /\ Cardinality(HeldBy(k)') \in Nat
        /\ Cardinality(HeldBy(k)') = 0 => HeldBy(k)' = {}
    BY <1>0, <1>1, <1>2, HoldersLose
  <2>5. ASSUME NEW u \in Threads, call[u].pc = "free", call[u].victim = k PROVE FALSE
    BY <2>1, <2>5 DEF IInv, CountInv
  <2> QED BY <2>1, <2>2, <2>3, <2>4, <2>5
<1>4. /\ call'[t] = [op |-> call[t].op, pc |-> IF refs[k] - 1 > 0 THEN "ret" ELSE "free", ctx |-> call[t].ctx, src |-> call[t].src,
                     key |-> call[t].key, victim |-> k, cnt |-> refs[k] - 1]
      /\ \A u \in Threads \ {t} : call'[u] = call[u]
      /\ call' \in [Threads -> Frame]
  <2>1. /\ call'[t] = [op |-> call[t].op, pc |-> IF refs[k] - 1 > 0 THEN "ret" ELSE "free", ctx |-> call[t].ctx, src |-> call[t].src,
                     key |-> call[t].key, victim |-> k, cnt |-> refs[k] - 1]
        /\ \A u \in Threads \ {t} : call'[u] = call[u]
    BY <1>0, <1>1, <1>k DEF Decr, Giver, Idle, At, Goto, Return, Enter, TypeOK, Frame
  <2>2. call' = [u \in Threads |-> call'[u]]
    BY <1>0 DEF Decr, Giver, Goto, Return, Enter, TypeOK
  <2>3. call'[t] \in Frame
    BY <2>1, <1>0, <1>1, <1>k DEF Frame, Ops, Pcs, TypeOK, Tokens
  <2> QED BY <2>1, <2>2, <2>3, <1>0 DEF TypeOK
<1>5. TypeOK'
  BY <1>0, <1>1, <1>2, <1>4 DEF TypeOK, Tokens
<1>6. RefsCountOwners'
  BY <1>0, <1>2, <1>3 DEF RefsCountOwners, TypeOK
<1>7. \A j \in Keys : mem'[j] # "live" => HeldBy(j)' = {}
  BY <1>0, <1>1, <1>2, <1>3 DEF TypeOK
<1>8. \A g \in Handles : hold'[g] = {} <=> own'[g] = Null
  BY <1>0, <1>1, <1>2 DEF TypeOK, Tokens
<1>9. \A c \in Ctxs : (user[c] = t \/ user'[c] = t) => CtxInv(c)'
  BY <1>0, <1>1, <1>2, <1>4 DEF CtxInv, Stale, FrameInv, TypeOK, Frame, Tokens
<1>10. OnlyThread(t)
  <2>1. ASSUME NEW u \in Threads, NEW j \in Keys, u # t, call[u].pc = "free", call[u].victim = j
        PROVE  mem'[j] = "live" /\ HeldBy(j)' = {}
    <3>1. mem[j] = "live" /\ HeldBy(j) = {} /\ call[u].victim \in Keys
      BY <2>1 DEF IInv, CountInv
    <3> QED BY <3>1, <2>1, <1>0, <1>1, <1>2, <1>3 DEF TypeOK
  <2>2. \A u \in Threads \ {t} : call'[u] = call[u] /\ own'[u] = own[u]
    BY <1>0, <1>1, <1>2, <1>4 DEF TypeOK, Tokens
  <2>3. \A u \in Threads \ {t}, g \in Handles : u \in hold[g] => u \in hold'[g] /\ own'[g] = own[g]
    BY <1>0, <1>1, <1>2 DEF TypeOK, Tokens
  <2>4. \A c \in Ctxs : user[c] # t => user'[c] = user[c] /\ ptr'[c] = ptr[c] /\ own'[c] = own[c]
    BY <1>0, <1>1, <1>2 DEF TypeOK, Tokens
  <2> QED BY <2>1, <2>2, <2>3, <2>4 DEF OnlyThread
<1>11. FrameInv(t)' /\ CountInv(t)'
  BY <1>0, <1>1, <1>2, <1>3, <1>4 DEF FrameInv, CountInv, Giver, TypeOK, Frame, Tokens
<1>12. \A u \in Threads \ {t} : (call'[t].pc = "free" /\ call[u].pc = "free") =>
                                 call[u].victim # call'[t].victim
  <2>1. ASSUME NEW u \in Threads, call[u].pc = "free"
        PROVE  call[u].victim \in Keys /\ HeldBy(call[u].victim) = {}
    BY <2>1 DEF IInv, CountInv
  <2> QED BY <2>1, <1>0, <1>1, <1>2, <1>3, <1>4 DEF FrameInv
<1> QED BY <1>5, <1>6, <1>7, <1>8, <1>9, <1>10, <1>11, <1>12, Locality

\* The inductive invariant survives the release of the memory.
LEMMA ReleasePreserves ==
  ASSUME IInv, NEW t \in Threads, Release(t)
  PROVE  IInv'
<1> USE TokensAssumption
<1>0. /\ TypeOK /\ RefsCountOwners /\ FrameInv(t) /\ CountInv(t) /\ call[t] \in Frame
      /\ \A j \in Keys : mem[j] # "live" => HeldBy(j) = {}
      /\ \A g \in Handles : hold[g] = {} <=> own[g] = Null
      /\ \A c \in Ctxs : CtxInv(c)
  BY DEF IInv, TypeOK
<1>k. PICK k \in Keys : k = call[t].victim
  BY <1>0 DEF Release, CountInv
<1>1. /\ call[t].pc = "free" /\ call[t].victim = k /\ HeldBy(k) = {}
      /\ call[t].op \in {"init", "freectx", "drop", "decode"}
  BY <1>0, <1>k, IdleThread DEF Release, FrameInv, CountInv, TypeOK, Frame, Ops, Tokens
<1>2. /\ mem' = [mem EXCEPT ![k] = "freed"] /\ UNCHANGED <<refs, ptr, own, lost, hold, user>>
  BY <1>0, <1>1, <1>k DEF Release, TypeOK
<1>3. /\ \A j \in Keys : HeldBy(j)' = HeldBy(j)
      /\ \A u \in Threads \ {t} : call[u].pc = "free" => call[u].victim # k
  <2>1. \A j \in Keys : HeldBy(j)' = HeldBy(j)
    BY <1>2 DEF HeldBy, Owners
  <2> QED BY <2>1, <1>1, <1>k DEF IInv
<1>4. /\ call'[t] = [op |-> call[t].op, pc |-> "ret", ctx |-> call[t].ctx, src |-> call[t].src,
                     key |-> call[t].key, victim |-> k, cnt |-> call[t].cnt]
      /\ \A u \in Threads \ {t} : call'[u] = call[u]
      /\ call' \in [Threads -> Frame]
  <2>1. /\ call'[t] = [op |-> call[t].op, pc |-> "ret", ctx |-> call[t].ctx, src |-> call[t].src,
                     key |-> call[t].key, victim |-> k, cnt |-> call[t].cnt]
        /\ \A u \in Threads \ {t} : call'[u] = call[u]
    BY <1>0, <1>1, <1>k DEF Release, Idle, At, Goto, Return, Enter, TypeOK, Frame
  <2>2. call' = [u \in Threads |-> call'[u]]
    BY <1>0 DEF Release, Goto, Return, Enter, TypeOK
  <2>3. call'[t] \in Frame
    BY <2>1, <1>0, <1>1, <1>k DEF Frame, Ops, Pcs, TypeOK, Tokens
  <2> QED BY <2>1, <2>2, <2>3, <1>0 DEF TypeOK
<1>5. TypeOK'
  BY <1>0, <1>1, <1>2, <1>4 DEF TypeOK, Tokens
<1>6. RefsCountOwners'
  BY <1>0, <1>2, <1>3 DEF RefsCountOwners, TypeOK
<1>7. \A j \in Keys : mem'[j] # "live" => HeldBy(j)' = {}
  BY <1>0, <1>1, <1>2, <1>3 DEF TypeOK
<1>8. \A g \in Handles : hold'[g] = {} <=> own'[g] = Null
  BY <1>0, <1>1, <1>2 DEF TypeOK, Tokens
<1>9. \A c \in Ctxs : (user[c] = t \/ user'[c] = t) => CtxInv(c)'
  BY <1>0, <1>1, <1>2, <1>4 DEF CtxInv, Stale, FrameInv, TypeOK, Frame, Tokens
<1>10. OnlyThread(t)
  <2>1. ASSUME NEW u \in Threads, NEW j \in Keys, u # t, call[u].pc = "free", call[u].victim = j
        PROVE  mem'[j] = "live" /\ HeldBy(j)' = {}
    <3>1. mem[j] = "live" /\ HeldBy(j) = {} /\ call[u].victim \in Keys
      BY <2>1 DEF IInv, CountInv
    <3> QED BY <3>1, <2>1, <1>0, <1>1, <1>2, <1>3 DEF TypeOK
  <2>2. \A u \in Threads \ {t} : call'[u] = call[u] /\ own'[u] = own[u]
    BY <1>0, <1>1, <1>2, <1>4 DEF TypeOK, Tokens
  <2>3. \A u \in Threads \ {t}, g \in Handles : u \in hold[g] => u \in hold'[g] /\ own'[g] = own[g]
    BY <1>0, <1>1, <1>2 DEF TypeOK, Tokens
  <2>4. \A c \in Ctxs : user[c] # t => user'[c] = user[c] /\ ptr'[c] = ptr[c] /\ own'[c] = own[c]
    BY <1>0, <1>1, <1>2 DEF TypeOK, Tokens
  <2> QED BY <2>1, <2>2, <2>3, <2>4 DEF OnlyThread
<1>11. FrameInv(t)' /\ CountInv(t)'
  BY <1>0, <1>1, <1>2, <1>3, <1>4 DEF FrameInv, CountInv, Giver, TypeOK, Frame, Tokens
<1>12. \A u \in Threads \ {t} : (call'[t].pc = "free" /\ call[u].pc = "free") =>
                                 call[u].victim # call'[t].victim
  <2>1. ASSUME NEW u \in Threads, call[u].pc = "free"
        PROVE  call[u].victim \in Keys /\ HeldBy(call[u].victim) = {}
    BY <2>1 DEF IInv, CountInv
  <2> QED BY <2>1, <1>0, <1>1, <1>2, <1>3, <1>4 DEF FrameInv
<1> QED BY <1>5, <1>6, <1>7, <1>8, <1>9, <1>10, <1>11, <1>12, Locality

\* The inductive invariant survives the store of the new key at the end of init.
LEMMA InitReturnsPreserves ==
  ASSUME IInv, NEW t \in Threads, InitReturns(t)
  PROVE  IInv'
<1> USE TokensAssumption
<1>0. /\ TypeOK /\ RefsCountOwners /\ FrameInv(t) /\ CountInv(t) /\ call[t] \in Frame
      /\ \A j \in Keys : mem[j] # "live" => HeldBy(j) = {}
      /\ \A g \in Handles : hold[g] = {} <=> own[g] = Null
      /\ \A c \in Ctxs : CtxInv(c)
  BY DEF IInv, TypeOK
<1>k. PICK k \in Keys, d \in Ctxs : k = call[t].key /\ d = call[t].ctx
  BY <1>0 DEF InitReturns, At, FrameInv
<1>1. /\ call[t].op = "init" /\ call[t].pc = "ret" /\ call[t].key = k
      /\ call[t].ctx = d /\ user[d] = t /\ own[t] = k
      /\ own[d] = Null /\ t \in Tokens /\ d \in Tokens /\ t # d
  BY <1>0, <1>k, IdleThread DEF InitReturns, StoreKey, At, FrameInv, CountInv, CtxInv, Stale, TypeOK, Frame, Ops, Tokens
<1>2. /\ ptr' = [ptr EXCEPT ![d] = k] /\ own' = [own EXCEPT ![d] = k, ![t] = Null]
      /\ UNCHANGED <<mem, refs, lost, hold, user>>
  BY <1>0, <1>1, <1>k DEF InitReturns, StoreKey, At, TypeOK
<1>3. /\ HeldBy(k)' = (HeldBy(k) \ {t}) \cup {d} /\ HeldBy(k) # {} /\ HeldBy(k)' # {}
      /\ Cardinality(HeldBy(k)') = Cardinality(HeldBy(k))
      /\ \A j \in Keys \ {k} : HeldBy(j)' = HeldBy(j)
  <2>1. t \in HeldBy(k)
    BY <1>1 DEF HeldBy, Owners
  <2>2. /\ HeldBy(k)' = (HeldBy(k) \ {t}) \cup {d}
        /\ \A j \in Keys \ {k} : HeldBy(j)' = HeldBy(j)
        /\ Cardinality(HeldBy(k)') = Cardinality(HeldBy(k))
    BY <1>0, <1>1, <1>2, HoldersPass
  <2> QED BY <2>1, <2>2
<1>4. /\ call'[t] = NoCall
      /\ \A u \in Threads \ {t} : call'[u] = call[u]
      /\ call' \in [Threads -> Frame]
  <2>1. /\ call'[t] = NoCall
        /\ \A u \in Threads \ {t} : call'[u] = call[u]
    BY <1>0, <1>1, <1>k DEF InitReturns, StoreKey, At, NoCall, Tokens, Ctxs, Idle, Goto, Return, Enter, TypeOK, Frame
  <2>2. call' = [u \in Threads |-> call'[u]]
    BY <1>0 DEF InitReturns, StoreKey, At, Goto, Return, Enter, TypeOK
  <2>3. call'[t] \in Frame
    BY <2>1, <1>0, <1>1, <1>k DEF NoCall, Frame, Ops, Pcs, TypeOK, Tokens
  <2> QED BY <2>1, <2>2, <2>3, <1>0 DEF TypeOK
<1>5. TypeOK'
  BY <1>0, <1>1, <1>2, <1>4 DEF TypeOK, Tokens
<1>6. RefsCountOwners'
  BY <1>0, <1>2, <1>3 DEF RefsCountOwners, TypeOK
<1>7. \A j \in Keys : mem'[j] # "live" => HeldBy(j)' = {}
  BY <1>0, <1>1, <1>2, <1>3 DEF TypeOK
<1>8. \A g \in Handles : hold'[g] = {} <=> own'[g] = Null
  BY <1>0, <1>1, <1>2 DEF TypeOK, Tokens
<1>9. \A c \in Ctxs : (user[c] = t \/ user'[c] = t) => CtxInv(c)'
  BY <1>0, <1>1, <1>2, <1>4 DEF CtxInv, Stale, NoCall, FrameInv, TypeOK, Frame, Tokens
<1>10. OnlyThread(t)
  <2>1. ASSUME NEW u \in Threads, NEW j \in Keys, u # t, call[u].pc = "free", call[u].victim = j
        PROVE  mem'[j] = "live" /\ HeldBy(j)' = {}
    <3>1. mem[j] = "live" /\ HeldBy(j) = {} /\ call[u].victim \in Keys
      BY <2>1 DEF IInv, CountInv
    <3> QED BY <3>1, <2>1, <1>0, <1>1, <1>2, <1>3 DEF TypeOK
  <2>2. \A u \in Threads \ {t} : call'[u] = call[u] /\ own'[u] = own[u]
    BY <1>0, <1>1, <1>2, <1>4 DEF TypeOK, Tokens
  <2>3. \A u \in Threads \ {t}, g \in Handles : u \in hold[g] => u \in hold'[g] /\ own'[g] = own[g]
    BY <1>0, <1>1, <1>2 DEF TypeOK, Tokens
  <2>4. \A c \in Ctxs : user[c] # t => user'[c] = user[c] /\ ptr'[c] = ptr[c] /\ own'[c] = own[c]
    BY <1>0, <1>1, <1>2 DEF TypeOK, Tokens
  <2> QED BY <2>1, <2>2, <2>3, <2>4 DEF OnlyThread
<1>11. FrameInv(t)' /\ CountInv(t)'
  BY <1>0, <1>1, <1>2, <1>3, <1>4 DEF NoCall, FrameInv, CountInv, Giver, TypeOK, Frame, Tokens
<1>12. \A u \in Threads \ {t} : (call'[t].pc = "free" /\ call[u].pc = "free") =>
                                 call[u].victim # call'[t].victim
  <2>1. ASSUME NEW u \in Threads, call[u].pc = "free"
        PROVE  call[u].victim \in Keys /\ HeldBy(call[u].victim) = {}
    BY <2>1 DEF IInv, CountInv
  <2> QED BY <2>1, <1>0, <1>1, <1>2, <1>3, <1>4 DEF FrameInv, NoCall
<1> QED BY <1>5, <1>6, <1>7, <1>8, <1>9, <1>10, <1>11, <1>12, Locality

\* The inductive invariant survives the store of the key in the duplicated context.
LEMMA DupStoresPreserves ==
  ASSUME IInv, NEW t \in Threads, DupStores(t)
  PROVE  IInv'
<1> USE TokensAssumption
<1>0. /\ TypeOK /\ RefsCountOwners /\ FrameInv(t) /\ CountInv(t) /\ call[t] \in Frame
      /\ \A j \in Keys : mem[j] # "live" => HeldBy(j) = {}
      /\ \A g \in Handles : hold[g] = {} <=> own[g] = Null
      /\ \A c \in Ctxs : CtxInv(c)
  BY DEF IInv, TypeOK
<1>k. PICK k \in Keys, d \in Ctxs : k = call[t].key /\ d = call[t].ctx
  BY <1>0 DEF DupStores, At, FrameInv
<1>1. /\ call[t].op = "dup" /\ call[t].pc = "ret" /\ call[t].key = k
      /\ call[t].ctx = d /\ user[d] = t /\ own[t] = k
      /\ own[d] = Null /\ t \in Tokens /\ d \in Tokens /\ t # d
  BY <1>0, <1>k, IdleThread DEF DupStores, StoreKey, At, FrameInv, CountInv, CtxInv, Stale, TypeOK, Frame, Ops, Tokens
<1>2. /\ ptr' = [ptr EXCEPT ![d] = k] /\ own' = [own EXCEPT ![d] = k, ![t] = Null]
      /\ UNCHANGED <<mem, refs, lost, hold, user>>
  BY <1>0, <1>1, <1>k DEF DupStores, StoreKey, At, TypeOK
<1>3. /\ HeldBy(k)' = (HeldBy(k) \ {t}) \cup {d} /\ HeldBy(k) # {} /\ HeldBy(k)' # {}
      /\ Cardinality(HeldBy(k)') = Cardinality(HeldBy(k))
      /\ \A j \in Keys \ {k} : HeldBy(j)' = HeldBy(j)
  <2>1. t \in HeldBy(k)
    BY <1>1 DEF HeldBy, Owners
  <2>2. /\ HeldBy(k)' = (HeldBy(k) \ {t}) \cup {d}
        /\ \A j \in Keys \ {k} : HeldBy(j)' = HeldBy(j)
        /\ Cardinality(HeldBy(k)') = Cardinality(HeldBy(k))
    BY <1>0, <1>1, <1>2, HoldersPass
  <2> QED BY <2>1, <2>2
<1>4. /\ call'[t] = [op |-> call[t].op, pc |-> "copy", ctx |-> d, src |-> call[t].src,
                     key |-> k, victim |-> call[t].victim, cnt |-> call[t].cnt]
      /\ \A u \in Threads \ {t} : call'[u] = call[u]
      /\ call' \in [Threads -> Frame]
  <2>1. /\ call'[t] = [op |-> call[t].op, pc |-> "copy", ctx |-> d, src |-> call[t].src,
                     key |-> k, victim |-> call[t].victim, cnt |-> call[t].cnt]
        /\ \A u \in Threads \ {t} : call'[u] = call[u]
    BY <1>0, <1>1, <1>k DEF DupStores, StoreKey, At, Idle, Goto, Return, Enter, TypeOK, Frame
  <2>2. call' = [u \in Threads |-> call'[u]]
    BY <1>0 DEF DupStores, StoreKey, At, Goto, Return, Enter, TypeOK
  <2>3. call'[t] \in Frame
    BY <2>1, <1>0, <1>1, <1>k DEF Frame, Ops, Pcs, TypeOK, Tokens
  <2> QED BY <2>1, <2>2, <2>3, <1>0 DEF TypeOK
<1>5. TypeOK'
  BY <1>0, <1>1, <1>2, <1>4 DEF TypeOK, Tokens
<1>6. RefsCountOwners'
  BY <1>0, <1>2, <1>3 DEF RefsCountOwners, TypeOK
<1>7. \A j \in Keys : mem'[j] # "live" => HeldBy(j)' = {}
  BY <1>0, <1>1, <1>2, <1>3 DEF TypeOK
<1>8. \A g \in Handles : hold'[g] = {} <=> own'[g] = Null
  BY <1>0, <1>1, <1>2 DEF TypeOK, Tokens
<1>9. \A c \in Ctxs : (user[c] = t \/ user'[c] = t) => CtxInv(c)'
  BY <1>0, <1>1, <1>2, <1>4 DEF CtxInv, Stale, FrameInv, TypeOK, Frame, Tokens
<1>10. OnlyThread(t)
  <2>1. ASSUME NEW u \in Threads, NEW j \in Keys, u # t, call[u].pc = "free", call[u].victim = j
        PROVE  mem'[j] = "live" /\ HeldBy(j)' = {}
    <3>1. mem[j] = "live" /\ HeldBy(j) = {} /\ call[u].victim \in Keys
      BY <2>1 DEF IInv, CountInv
    <3> QED BY <3>1, <2>1, <1>0, <1>1, <1>2, <1>3 DEF TypeOK
  <2>2. \A u \in Threads \ {t} : call'[u] = call[u] /\ own'[u] = own[u]
    BY <1>0, <1>1, <1>2, <1>4 DEF TypeOK, Tokens
  <2>3. \A u \in Threads \ {t}, g \in Handles : u \in hold[g] => u \in hold'[g] /\ own'[g] = own[g]
    BY <1>0, <1>1, <1>2 DEF TypeOK, Tokens
  <2>4. \A c \in Ctxs : user[c] # t => user'[c] = user[c] /\ ptr'[c] = ptr[c] /\ own'[c] = own[c]
    BY <1>0, <1>1, <1>2 DEF TypeOK, Tokens
  <2> QED BY <2>1, <2>2, <2>3, <2>4 DEF OnlyThread
<1>11. FrameInv(t)' /\ CountInv(t)'
  BY <1>0, <1>1, <1>2, <1>3, <1>4 DEF FrameInv, CountInv, Giver, TypeOK, Frame, Tokens
<1>12. \A u \in Threads \ {t} : (call'[t].pc = "free" /\ call[u].pc = "free") =>
                                 call[u].victim # call'[t].victim
  <2>1. ASSUME NEW u \in Threads, call[u].pc = "free"
        PROVE  call[u].victim \in Keys /\ HeldBy(call[u].victim) = {}
    BY <2>1 DEF IInv, CountInv
  <2> QED BY <2>1, <1>0, <1>1, <1>2, <1>3, <1>4 DEF FrameInv
<1> QED BY <1>5, <1>6, <1>7, <1>8, <1>9, <1>10, <1>11, <1>12, Locality

-----------------------------------------------------------------------------
(* The theorems.                                                           *)

\* Every step of every thread, and every stutter, preserves the inductive invariant.
LEMMA StepPreservesIInv == IInv /\ [Next]_vars => IInv'
<1> SUFFICES ASSUME IInv, [Next]_vars PROVE IInv'
  OBVIOUS
<1>1. CASE Next
  <2>1. PICK t \in Threads : Begin(t) \/ Continue(t) \/ \E h \in Handles : DecodeLoad(t, h)
    BY <1>1 DEF Next
  <2>2. CASE Begin(t)
    BY <2>2, NewKeyPreserves, GenkeyFailsPreserves, DecodeBeginPreserves, ShareHandlePreserves,
       HandleDropPreserves, NewCtxPreserves, CtxFreePreserves, CtxUsePreserves, CtxInitPreserves,
       CtxDupPreserves DEF Begin
  <2>3. CASE Continue(t)
    BY <2>3, UpRefPreserves, UpRefReturnsPreserves, DecrPreserves, ReleasePreserves,
       InitReturnsPreserves, DupStoresPreserves, DupReturnsPreserves, DupFailsPreserves,
       CtxGonePreserves, CallReturnsPreserves, DecodeEndPreserves DEF Continue
  <2>4. CASE \E h \in Handles : DecodeLoad(t, h)
    BY <2>4, DecodeLoadPreserves
  <2> QED BY <2>1, <2>2, <2>3, <2>4
<1>2. CASE UNCHANGED vars
  <2>1. \A k : HeldBy(k)' = HeldBy(k)
    BY <1>2 DEF vars, HeldBy, Owners
  <2>2. TypeOK' /\ RefsCountOwners'
    BY <1>2, <2>1 DEF vars, IInv, TypeOK, RefsCountOwners
  <2>3. \A k \in Keys : mem'[k] # "live" => HeldBy(k)' = {}
    BY <1>2, <2>1 DEF vars, IInv
  <2>4. \A h \in Handles : hold'[h] = {} <=> own'[h] = Null
    BY <1>2 DEF vars, IInv
  <2>5. \A c \in Ctxs : CtxInv(c)'
    BY <1>2 DEF vars, IInv, CtxInv, Stale
  <2>6. ASSUME NEW t \in Threads PROVE FrameInv(t)' /\ CountInv(t)'
    <3>1. FrameInv(t) /\ CountInv(t) /\ call' = call /\ own' = own /\ user' = user
            /\ hold' = hold /\ ptr' = ptr /\ mem' = mem
      BY <1>2 DEF vars, IInv
    <3>2. FrameInv(t)'
      BY <3>1 DEF FrameInv
    <3>3. CountInv(t)'
      <4>1. PICK k : k = call[t].victim
        OBVIOUS
      <4>2. HeldBy(k)' = HeldBy(k)
        BY <2>1
      <4> QED BY <3>1, <4>1, <4>2 DEF CountInv, Giver
    <3> QED BY <3>2, <3>3
  <2>7. \A t, u \in Threads : (t # u /\ call'[t].pc = "free" /\ call'[u].pc = "free") =>
                                call'[t].victim # call'[u].victim
    BY <1>2 DEF vars, IInv
  <2> QED BY <2>2, <2>3, <2>4, <2>5, <2>6, <2>7 DEF IInv
<1> QED BY <1>1, <1>2

\* The inductive invariant holds of every behaviour.
THEOREM InvariantHolds == Spec => []IInv
BY InitEstablishesIInv, StepPreservesIInv, PTL DEF Spec

\* Every variable of the model keeps its type.
THEOREM TypeCorrect == Spec => []TypeOK
<1>1. IInv => TypeOK
  BY DEF IInv
<1> QED BY <1>1, InvariantHolds, PTL

\* key->references is the number of pointers that will be freed once.
THEOREM CounterIsExact == Spec => []RefsCountOwners
<1>1. IInv => RefsCountOwners
  BY DEF IInv
<1> QED BY <1>1, InvariantHolds, PTL

\* No call touches a key after it was freed.
THEOREM Safe == Spec => []NoUseAfterFree
<1>1. ASSUME IInv, NEW t \in Threads, NEW k \in Touches(t)
      PROVE  k \in Keys /\ mem[k] = "live"
  <2>1. FrameInv(t) /\ CountInv(t) /\ call[t].op \in Ops
    BY <1>1 DEF IInv, TypeOK, Frame
  <2>2. CASE call[t].pc \in {"upref", "run"}
    <3>1. k = call[t].key /\ k \in Keys /\ \E x \in Tokens : own[x] = k
      BY <1>1, <2>1, <2>2 DEF Touches, FrameInv, Ops, Tokens
    <3>2. HeldBy(k) # {}
      BY <3>1 DEF HeldBy, Owners
    <3> QED BY <1>1, <3>1, <3>2 DEF IInv
  <2>3. CASE call[t].pc = "decr"
    <3>1. k = call[t].victim /\ k \in Keys /\ own[Giver(t)] = k
      BY <1>1, <2>1, <2>3 DEF Touches, CountInv
    <3>2. Giver(t) \in Tokens
      BY <2>1, <2>3 DEF Giver, FrameInv, Ops, Tokens
    <3>3. HeldBy(k) # {}
      BY <3>1, <3>2 DEF HeldBy, Owners
    <3> QED BY <1>1, <3>1, <3>3 DEF IInv
  <2>4. CASE call[t].pc = "free"
    BY <1>1, <2>1, <2>4 DEF Touches, CountInv
  <2>5. CASE call[t].pc \notin {"upref", "run", "decr", "free"}
    BY <1>1, <2>5 DEF Touches
  <2> QED BY <2>2, <2>3, <2>4, <2>5
<1>2. IInv => NoUseAfterFree
  BY <1>1 DEF NoUseAfterFree
<1> QED BY <1>2, InvariantHolds, PTL

\* The assertions of oqsx_key_up_ref and oqsx_key_free never fire.
THEOREM AssertionsNeverFire == Spec => []AssertionsHold
<1>1. IInv => AssertionsHold
  BY DEF IInv, CountInv, AssertionsHold
<1> QED BY <1>1, InvariantHolds, PTL

-----------------------------------------------------------------------------
(* The four ways in which the holders of one key change.                   *)

\* A key comes into being with one holder.
LEMMA CreateMaps ==
  ASSUME TypeOK, NEW k \in Keys, NEW x \in Tokens \cup {Lost},
         mem[k] = "unused", mem' = [mem EXCEPT ![k] = "live"],
         HeldBy(k)' = {x}, \A j \in Keys \ {k} : HeldBy(j)' = HeldBy(j)
  PROVE  Life!LifeNext
<1>1. [j \in Keys |-> HeldBy(j)'] = [[j \in Keys |-> HeldBy(j)] EXCEPT ![k] = {x}]
  OBVIOUS
<1>2. Life!Create(k, x)
  BY <1>1 DEF Life!Create
<1> QED BY <1>2 DEF Life!LifeNext

\* A held key gets one more holder.
LEMMA AcquireMaps ==
  ASSUME TypeOK, NEW k \in Keys, NEW x \in Tokens, mem[k] = "live", UNCHANGED mem,
         HeldBy(k) # {}, x \notin HeldBy(k), HeldBy(k)' = HeldBy(k) \cup {x},
         \A j \in Keys \ {k} : HeldBy(j)' = HeldBy(j)
  PROVE  Life!LifeNext
<1>1. [j \in Keys |-> HeldBy(j)']
        = [[j \in Keys |-> HeldBy(j)] EXCEPT ![k] = HeldBy(k) \cup {x}]
  OBVIOUS
<1>2. Life!Acquire(k, x)
  BY <1>1 DEF Life!Acquire
<1> QED BY <1>2 DEF Life!LifeNext

\* A holder passes its reference on.
LEMMA PassMaps ==
  ASSUME TypeOK, NEW k \in Keys, NEW x \in Tokens, NEW y \in Tokens,
         mem[k] = "live", UNCHANGED mem, x \in HeldBy(k), y \notin HeldBy(k),
         HeldBy(k)' = (HeldBy(k) \ {x}) \cup {y},
         \A j \in Keys \ {k} : HeldBy(j)' = HeldBy(j)
  PROVE  Life!LifeNext
<1>1. [j \in Keys |-> HeldBy(j)']
        = [[j \in Keys |-> HeldBy(j)] EXCEPT ![k] = (HeldBy(k) \ {x}) \cup {y}]
  OBVIOUS
<1>2. Life!Pass(k, x, y)
  BY <1>1 DEF Life!Pass
<1> QED BY <1>2 DEF Life!LifeNext

\* A holder lets go.
LEMMA DropMaps ==
  ASSUME TypeOK, NEW k \in Keys, NEW x \in Tokens, mem[k] = "live", UNCHANGED mem,
         x \in HeldBy(k), HeldBy(k)' = HeldBy(k) \ {x},
         \A j \in Keys \ {k} : HeldBy(j)' = HeldBy(j)
  PROVE  Life!LifeNext
<1>1. [j \in Keys |-> HeldBy(j)']
        = [[j \in Keys |-> HeldBy(j)] EXCEPT ![k] = HeldBy(k) \ {x}]
  OBVIOUS
<1>2. Life!Drop(k, x)
  BY <1>1 DEF Life!Drop
<1> QED BY <1>2 DEF Life!LifeNext

-----------------------------------------------------------------------------
(* The steps of OqsxKeyRef.                                                *)

\* What leaves memory and references alone is a stutter.
LEMMA QuietMaps ==
  ASSUME UNCHANGED <<mem, own, lost>>
  PROVE  UNCHANGED Life!lifeVars
<1>1. \A k : HeldBy(k)' = HeldBy(k) BY DEF HeldBy, Owners
<1> QED BY <1>1 DEF Life!lifeVars

\* Facts of the invariant every step below uses.
LEMMA HeldKeysLive ==
  ASSUME IInv
  PROVE  /\ TypeOK /\ RefsCountOwners
         /\ \A k \in Keys, x \in Tokens : own[x] = k => x \in HeldBy(k) /\ mem[k] = "live"
         /\ \A k \in Keys : mem[k] # "live" => HeldBy(k) = {}
BY DEF IInv, HeldBy, Owners

LEMMA NewKeyMaps ==
  ASSUME IInv, NEW t \in Threads, NEW k \in Keys, NEW h \in Handles, NewKey(t, k, h)
  PROVE  Life!LifeNext
<1>1. /\ mem[k] = "unused" /\ mem' = [mem EXCEPT ![k] = "live"]
      /\ own[h] = Null /\ own' = [own EXCEPT ![h] = k] /\ lost' = lost /\ h \in Tokens
  BY DEF NewKey, Alloc, UnusedHandle, Tokens
<1>2. HeldBy(k) = {} /\ TypeOK BY <1>1, HeldKeysLive
<1>3. HeldBy(k)' = {h} /\ \A j \in Keys \ {k} : HeldBy(j)' = HeldBy(j)
  BY <1>1, <1>2, HoldersGain
<1> QED BY <1>1, <1>2, <1>3, CreateMaps

LEMMA DecodeBeginMaps ==
  ASSUME IInv, NEW t \in Threads, NEW k \in Keys, DecodeBegin(t, k)
  PROVE  Life!LifeNext
<1>1. /\ mem[k] = "unused" /\ mem' = [mem EXCEPT ![k] = "live"]
      /\ own[t] = Null /\ own' = [own EXCEPT ![t] = k] /\ lost' = lost /\ t \in Tokens
  BY IdleThread DEF DecodeBegin, Alloc, Tokens
<1>2. HeldBy(k) = {} /\ TypeOK BY <1>1, HeldKeysLive
<1>3. HeldBy(k)' = {t} /\ \A j \in Keys \ {k} : HeldBy(j)' = HeldBy(j)
  BY <1>1, <1>2, HoldersGain
<1> QED BY <1>1, <1>2, <1>3, CreateMaps

LEMMA GenkeyFailsMaps ==
  ASSUME IInv, NEW t \in Threads, NEW k \in Keys, GenkeyFails(t, k)
  PROVE  Life!LifeNext
<1>1. /\ mem[k] = "unused" /\ mem' = [mem EXCEPT ![k] = "live"]
      /\ own' = own /\ lost' = lost \cup {k}
  BY DEF GenkeyFails, Alloc
<1>2. HeldBy(k) = {} /\ TypeOK BY <1>1, HeldKeysLive
<1>3. HeldBy(k)' = {Lost} /\ \A j \in Keys \ {k} : HeldBy(j)' = HeldBy(j)
  BY <1>1, <1>2 DEF HeldBy, Owners
<1> QED BY <1>1, <1>2, <1>3, CreateMaps

LEMMA DecodeLoadMaps ==
  ASSUME IInv, NEW t \in Threads, NEW h \in Handles, DecodeLoad(t, h)
  PROVE  Life!LifeNext
<1>0. TypeOK BY DEF IInv
<1>k. PICK k \in Keys : k = own[t]
  BY <1>0 DEF DecodeLoad, TypeOK, Tokens
<1>1. /\ own[t] = k /\ own[h] = Null /\ t \in Tokens /\ h \in Tokens /\ t # h
      /\ own' = [own EXCEPT ![h] = k, ![t] = Null] /\ lost' = lost /\ UNCHANGED mem
  BY <1>k, TokensAssumption DEF DecodeLoad, UnusedHandle, Tokens
<1>2. /\ HeldBy(k)' = (HeldBy(k) \ {t}) \cup {h} /\ t \in HeldBy(k) /\ h \notin HeldBy(k)
      /\ \A j \in Keys \ {k} : HeldBy(j)' = HeldBy(j)
  BY <1>0, <1>1, HoldersPass
<1> QED BY <1>0, <1>1, <1>2, HeldKeysLive, PassMaps

LEMMA HandleDropMaps ==
  ASSUME IInv, NEW t \in Threads, NEW h \in Handles, HandleDrop(t, h)
  PROVE  Life!LifeNext \/ UNCHANGED Life!lifeVars
<1>1. CASE hold[h] # {t}
  BY <1>1, QuietMaps DEF HandleDrop
<1>2. CASE hold[h] = {t}
  <2>0. TypeOK BY DEF IInv
  <2>1. own[h] # Null /\ own[t] = Null /\ t \in Tokens /\ h \in Tokens /\ t # h
    BY <1>2, IdleThread, TokensAssumption DEF HandleDrop, IInv, Tokens
  <2>k. PICK k \in Keys : k = own[h]
    BY <2>0, <2>1 DEF TypeOK
  <2>2. own' = [own EXCEPT ![t] = k, ![h] = Null] /\ lost' = lost /\ UNCHANGED mem
    BY <1>2, <2>0, <2>1, <2>k DEF HandleDrop, TypeOK
  <2>3. /\ HeldBy(k)' = (HeldBy(k) \ {h}) \cup {t} /\ h \in HeldBy(k) /\ t \notin HeldBy(k)
        /\ \A j \in Keys \ {k} : HeldBy(j)' = HeldBy(j)
    BY <2>0, <2>1, <2>k, <2>2, HoldersPass
  <2> QED BY <2>0, <2>1, <2>k, <2>2, <2>3, HeldKeysLive, PassMaps
<1> QED BY <1>1, <1>2

\* The source of the copied pointer holds the key while its counter goes up.
LEMMA UpRefMaps ==
  ASSUME IInv, NEW t \in Threads, UpRef(t)
  PROVE  /\ Life!LifeNext
         /\ \A k \in Keys : refs[k] <= 0 => refs'[k] <= 0
<1>0. /\ TypeOK /\ RefsCountOwners /\ FrameInv(t) /\ call[t] \in Frame
  BY DEF IInv, TypeOK
<1>k. PICK k \in Keys : k = call[t].key
  BY <1>0 DEF UpRef, FrameInv, TypeOK, Frame, Ops
<1>1. /\ own[t] = Null /\ t \in Tokens
      /\ call[t].src \in Tokens /\ own[call[t].src] = k
      /\ refs' = [refs EXCEPT ![k] = @ + 1] /\ own' = [own EXCEPT ![t] = k]
      /\ UNCHANGED <<mem, lost>>
  BY <1>0, <1>k DEF UpRef, FrameInv, TypeOK, Frame, Ops, Tokens
<1>2. call[t].src \in HeldBy(k) /\ mem[k] = "live"
  BY <1>1, HeldKeysLive
<1>3. /\ HeldBy(k)' = HeldBy(k) \cup {t} /\ t \notin HeldBy(k)
      /\ \A j \in Keys \ {k} : HeldBy(j)' = HeldBy(j)
  BY <1>0, <1>1, HoldersGain
<1>4. Life!LifeNext
  BY <1>0, <1>1, <1>2, <1>3, AcquireMaps
<1>5. refs[k] > 0
  <2>1. Cardinality(HeldBy(k)) > 0
    BY <1>2, HeldByFinite, FS_EmptySet, FS_CardinalityType
  <2> QED BY <2>1, <1>0 DEF RefsCountOwners
<1> QED BY <1>0, <1>1, <1>4, <1>5 DEF TypeOK

LEMMA DecrMaps ==
  ASSUME IInv, NEW t \in Threads, Decr(t)
  PROVE  /\ Life!LifeNext
         /\ \A k \in Keys : refs[k] <= 0 => refs'[k] <= 0
<1>0. /\ TypeOK /\ FrameInv(t) /\ CountInv(t) /\ call[t] \in Frame
  BY DEF IInv, TypeOK
<1>k. PICK k \in Keys, x \in Tokens : k = call[t].victim /\ x = Giver(t)
  BY <1>0 DEF Decr, FrameInv, CountInv, Giver, TypeOK, Frame, Ops, Tokens
<1>1. /\ own[x] = k /\ refs' = [refs EXCEPT ![k] = refs[k] - 1]
      /\ own' = [own EXCEPT ![x] = Null] /\ UNCHANGED <<mem, lost>>
  BY <1>0, <1>k DEF Decr, CountInv
<1>2. /\ HeldBy(k)' = HeldBy(k) \ {x} /\ x \in HeldBy(k)
      /\ \A j \in Keys \ {k} : HeldBy(j)' = HeldBy(j)
  BY <1>0, <1>1, HoldersLose
<1>3. Life!LifeNext
  BY <1>0, <1>1, <1>2, HeldKeysLive, DropMaps
<1> QED BY <1>0, <1>1, <1>3 DEF TypeOK

LEMMA ReleaseMaps ==
  ASSUME IInv, NEW t \in Threads, Release(t)
  PROVE  Life!LifeNext
<1>1. TypeOK /\ CountInv(t) BY DEF IInv
<1>k. PICK k \in Keys : k = call[t].victim
  BY <1>1 DEF Release, CountInv
<1>2. mem[k] = "live" /\ HeldBy(k) = {} /\ mem' = [mem EXCEPT ![k] = "freed"]
  BY <1>1, <1>k DEF Release, CountInv
<1>3. \A j : HeldBy(j)' = HeldBy(j)
  BY DEF Release, HeldBy, Owners
<1>4. Life!Reclaim(k)
  BY <1>2, <1>3 DEF Life!Reclaim
<1> QED BY <1>4 DEF Life!LifeNext

\* The reference of the running call becomes the context's.
LEMMA StoreKeyMaps ==
  ASSUME IInv, NEW t \in Threads, InitReturns(t) \/ DupStores(t)
  PROVE  Life!LifeNext
<1>0. /\ TypeOK /\ FrameInv(t) /\ call[t] \in Frame /\ \A c \in Ctxs : CtxInv(c)
  BY DEF IInv, TypeOK
<1>k. PICK k \in Keys, c \in Ctxs : k = call[t].key /\ c = call[t].ctx
  BY <1>0 DEF InitReturns, DupStores, At, FrameInv
<1>1. /\ own[t] = k /\ t \in Tokens /\ c \in Tokens /\ t # c
      /\ own' = [own EXCEPT ![c] = k, ![t] = Null] /\ lost' = lost /\ UNCHANGED mem
  BY <1>0, <1>k, TokensAssumption DEF InitReturns, DupStores, StoreKey, At, FrameInv, Tokens
<1>2. own[c] = Null
  <2>1. CASE InitReturns(t)
    BY <1>0, <1>k, <2>1, TokensAssumption DEF InitReturns, At, FrameInv, CtxInv, Stale
  <2>2. CASE DupStores(t)
    BY <1>0, <1>k, <2>2 DEF DupStores, At, FrameInv, CtxInv
  <2> QED BY <2>1, <2>2
<1>3. /\ HeldBy(k)' = (HeldBy(k) \ {t}) \cup {c} /\ t \in HeldBy(k) /\ c \notin HeldBy(k)
      /\ \A j \in Keys \ {k} : HeldBy(j)' = HeldBy(j)
  BY <1>0, <1>1, <1>2, HoldersPass
<1> QED BY <1>0, <1>1, <1>3, HeldKeysLive, PassMaps

\* Every step is a step of KeyLifetime or a stutter.
LEMMA StepMaps ==
  ASSUME IInv, [Next]_vars
  PROVE  [Life!LifeNext]_(Life!lifeVars)
<1>1. ASSUME NEW t \in Threads, Begin(t)
      PROVE  Life!LifeNext \/ UNCHANGED Life!lifeVars
  <2>1. CASE \E k \in Keys : GenkeyFails(t, k) \/ DecodeBegin(t, k)
    BY <2>1, GenkeyFailsMaps, DecodeBeginMaps
  <2>2. CASE \E k \in Keys, h \in Handles : NewKey(t, k, h)
    BY <2>2, NewKeyMaps
  <2>3. CASE \E h \in Handles : HandleDrop(t, h)
    BY <2>3, HandleDropMaps
  <2>4. CASE \/ \E u \in Threads, h \in Handles : ShareHandle(t, u, h)
             \/ \E c \in Ctxs : NewCtx(t, c) \/ CtxFree(t, c) \/ CtxUse(t, c)
             \/ \E c \in Ctxs, h \in Handles : CtxInit(t, c, h)
             \/ \E c, d \in SigCtxs : CtxDup(t, c, d)
    <3>1. UNCHANGED <<mem, own, lost>>
      BY <2>4 DEF ShareHandle, NewCtx, CtxFree, CtxUse, CtxInit, CtxDup
    <3> QED BY <3>1, QuietMaps
  <2> QED BY <1>1, <2>1, <2>2, <2>3, <2>4 DEF Begin
<1>2. ASSUME NEW t \in Threads, Continue(t)
      PROVE  Life!LifeNext \/ UNCHANGED Life!lifeVars
  <2>1. CASE UpRef(t) \/ Decr(t) BY <2>1, UpRefMaps, DecrMaps
  <2>2. CASE Release(t) BY <2>2, ReleaseMaps
  <2>3. CASE InitReturns(t) \/ DupStores(t) BY <2>3, StoreKeyMaps
  <2>4. CASE \/ UpRefReturns(t) \/ DupReturns(t) \/ DupFails(t)
             \/ CtxGone(t) \/ CallReturns(t) \/ DecodeEnd(t)
    <3>1. UNCHANGED <<mem, own, lost>>
      BY <2>4 DEF UpRefReturns, DupReturns, DupFails, CtxGone, CallReturns, DecodeEnd
    <3> QED BY <3>1, QuietMaps
  <2> QED BY <1>2, <2>1, <2>2, <2>3, <2>4 DEF Continue
<1>3. CASE UNCHANGED vars
  <2>1. UNCHANGED <<mem, own, lost>> BY <1>3 DEF vars
  <2> QED BY <2>1, QuietMaps
<1> QED BY <1>1, <1>2, <1>3, DecodeLoadMaps DEF Next

LEMMA InitMaps == Init => Life!LifeInit
<1> SUFFICES ASSUME Init PROVE Life!LifeInit
  OBVIOUS
<1>1. \A k \in Keys : HeldBy(k) = {}
  BY TokensAssumption DEF Init, HeldBy, Owners
<1> QED BY <1>1 DEF Init, Life!LifeInit

\* The counter implements the lifetime KeyLifetime promises: a reference is
\* only taken from a held key, and the memory goes once, after the last holder.
THEOREM CounterImplementsLifetime == Spec => LifeRefinement
<1>1. IInv /\ [Next]_vars => [Life!LifeNext]_(Life!lifeVars)
  BY StepMaps
<1> QED BY <1>1, InitMaps, InvariantHolds, PTL DEF Spec, LifeRefinement, Life!LifeSpec

-----------------------------------------------------------------------------
(* No revival, and what contexts hold.                                     *)

\* Only up_ref and oqsx_key_new raise a counter: the one of a held key, and
\* that of a key that was unused.
LEMMA StepRevivesNothing ==
  ASSUME IInv, [Next]_vars, NEW k \in Keys, mem[k] # "unused", refs[k] <= 0
  PROVE  refs'[k] <= 0
<1>0. refs \in [Keys -> Int] BY DEF IInv, TypeOK
<1>1. ASSUME NEW t \in Threads, Begin(t) PROVE refs'[k] <= 0
  <2>1. ASSUME NEW j \in Keys, Alloc(j) PROVE refs'[k] = refs[k]
    BY <1>0, <2>1 DEF Alloc
  <2>2. CASE \/ \E j \in Keys : GenkeyFails(t, j) \/ DecodeBegin(t, j)
             \/ \E j \in Keys, h \in Handles : NewKey(t, j, h)
    BY <2>1, <2>2 DEF GenkeyFails, DecodeBegin, NewKey
  <2>3. CASE \/ \E u \in Threads, h \in Handles : ShareHandle(t, u, h)
             \/ \E h \in Handles : HandleDrop(t, h)
             \/ \E c \in Ctxs : NewCtx(t, c) \/ CtxFree(t, c) \/ CtxUse(t, c)
             \/ \E c \in Ctxs, h \in Handles : CtxInit(t, c, h)
             \/ \E c, d \in SigCtxs : CtxDup(t, c, d)
    <3>1. refs' = refs
      BY <2>3 DEF ShareHandle, HandleDrop, NewCtx, CtxFree, CtxUse, CtxInit, CtxDup
    <3> QED BY <3>1
  <2> QED BY <1>1, <2>2, <2>3 DEF Begin
<1>2. ASSUME NEW t \in Threads, Continue(t) PROVE refs'[k] <= 0
  <2>1. CASE UpRef(t) \/ Decr(t) BY <2>1, UpRefMaps, DecrMaps
  <2>2. CASE \/ Release(t) \/ InitReturns(t) \/ DupStores(t)
             \/ UpRefReturns(t) \/ DupReturns(t) \/ DupFails(t)
             \/ CtxGone(t) \/ CallReturns(t) \/ DecodeEnd(t)
    <3>1. refs' = refs
      BY <2>2 DEF Release, InitReturns, DupStores, StoreKey, UpRefReturns, DupReturns,
         DupFails, CtxGone, CallReturns, DecodeEnd
    <3> QED BY <3>1
  <2> QED BY <1>2, <2>1, <2>2 DEF Continue
<1>3. CASE \E t \in Threads, h \in Handles : DecodeLoad(t, h)
  BY <1>3 DEF DecodeLoad
<1>4. CASE UNCHANGED vars BY <1>4 DEF vars
<1> QED BY <1>1, <1>2, <1>3, <1>4 DEF Next

\* A counter that reached 0 stays there: the thread that read 0 may free.
THEOREM NothingIsRevived == Spec => NoRevival
<1>1. IInv /\ [Next]_vars =>
        [\A k \in Keys : (mem[k] # "unused" /\ refs[k] <= 0) => refs'[k] <= 0]_vars
  BY StepRevivesNothing
<1> QED BY <1>1, InvariantHolds, PTL DEF Spec, NoRevival

\* Between calls a context points to a live key whose reference it holds.
THEOREM ContextsAreSafe == Spec => []ContextsHoldLiveKeys
<1>1. ASSUME IInv, NEW c \in Ctxs, user[c] # Null, Idle(user[c]), ptr[c] # Null
      PROVE  own[c] = ptr[c] /\ mem[ptr[c]] = "live"
  <2>1. own[c] = ptr[c]
    BY <1>1 DEF IInv, CtxInv, Stale, Idle
  <2>2. ptr[c] \in Keys /\ c \in Tokens
    BY <1>1 DEF IInv, TypeOK, Tokens
  <2> QED BY <1>1, <2>1, <2>2, HeldKeysLive
<1>2. IInv => ContextsHoldLiveKeys
  BY <1>1 DEF ContextsHoldLiveKeys
<1> QED BY <1>2, InvariantHolds, PTL

-----------------------------------------------------------------------------
(* What is not held is being freed.                                        *)

\* A live key without holders has a thread inside oqsx_key_free that read 0
\* and is about to free it.  With the fairness of that thread's next step this
\* is UnheldKeysAreFreed: no order of calls strands a key.
UnheldAreBeingFreed == \A k \in Keys :
  mem[k] = "live" /\ HeldBy(k) = {} =>
    \E t \in Threads : call[t].pc = "free" /\ call[t].victim = k /\ call[t].cnt = 0

\* The same, said of the counter.
Freeing(k) == \E t \in Threads : call[t].pc = "free" /\ call[t].victim = k
ZeroesAreFreed == \A k \in Keys : mem[k] = "live" /\ refs[k] = 0 => Freeing(k)

LEMMA CounterZero ==
  ASSUME IInv, NEW k \in Keys
  PROVE  refs[k] \in Nat /\ (refs[k] = 0 <=> HeldBy(k) = {})
<1>1. refs[k] = Cardinality(HeldBy(k))  BY DEF IInv, RefsCountOwners
<1> QED BY <1>1, HeldByFinite, FS_CardinalityType, FS_EmptySet

\* A thread that is about to free does nothing but that, and no other thread
\* keeps it from it.
Undisturbed == \A u \in Threads : call[u].pc = "free" => call'[u] = call[u]

LEMMA FreeingKept ==
  ASSUME NEW k, Freeing(k), Undisturbed
  PROVE  Freeing(k)'
<1>1. PICK t \in Threads : call[t].pc = "free" /\ call[t].victim = k  BY DEF Freeing
<1>2. call'[t].pc = "free" /\ call'[t].victim = k  BY <1>1 DEF Undisturbed
<1> QED BY <1>2 DEF Freeing

LEMMA BeginFrees ==
  ASSUME IInv, ZeroesAreFreed, NEW t \in Threads, Begin(t),
         NEW k \in Keys, mem'[k] = "live", refs'[k] = 0
  PROVE  Freeing(k)'
<1>0. TypeOK  BY DEF IInv
<1>1. Undisturbed
  BY <1>0 DEF Undisturbed, TypeOK, Begin, GenkeyFails, DecodeBegin, NewKey, ShareHandle,
     HandleDrop, NewCtx, CtxFree, CtxUse, CtxInit, CtxDup, Idle, Enter, FreeCtxKey
<1>2. mem[k] = "live" /\ refs[k] = 0
  <2>1. ASSUME NEW j \in Keys, Alloc(j)  PROVE mem[k] = "live" /\ refs[k] = 0
    BY <1>0, <2>1 DEF Alloc, TypeOK
  <2>2. CASE \/ \E j \in Keys : GenkeyFails(t, j) \/ DecodeBegin(t, j)
             \/ \E j \in Keys, h \in Handles : NewKey(t, j, h)
    BY <2>1, <2>2 DEF GenkeyFails, DecodeBegin, NewKey
  <2>3. CASE \/ \E u \in Threads, h \in Handles : ShareHandle(t, u, h)
             \/ \E h \in Handles : HandleDrop(t, h)
             \/ \E c \in Ctxs : NewCtx(t, c) \/ CtxFree(t, c) \/ CtxUse(t, c)
             \/ \E c \in Ctxs, h \in Handles : CtxInit(t, c, h)
             \/ \E c, d \in SigCtxs : CtxDup(t, c, d)
    <3>1. refs' = refs /\ mem' = mem
      BY <2>3 DEF ShareHandle, HandleDrop, NewCtx, CtxFree, CtxUse, CtxInit, CtxDup
    <3> QED BY <3>1
  <2> QED BY <2>2, <2>3 DEF Begin
<1> QED BY <1>1, <1>2, FreeingKept DEF ZeroesAreFreed

LEMMA ContinueFrees ==
  ASSUME IInv, ZeroesAreFreed, NEW t \in Threads, Continue(t),
         NEW k \in Keys, mem'[k] = "live", refs'[k] = 0
  PROVE  Freeing(k)'
<1>0. TypeOK  BY DEF IInv
<1>1. CASE UpRef(t)
  <2>1. Undisturbed  BY <1>0, <1>1 DEF Undisturbed, UpRef, TypeOK
  <2>2. mem[k] = "live" /\ refs[k] = 0
    BY <1>0, <1>1, CounterZero DEF UpRef, TypeOK
  <2> QED BY <2>1, <2>2, FreeingKept DEF ZeroesAreFreed
<1>2. CASE Decr(t)
  <2>1. CASE call[t].victim = k
    <3>1. refs'[k] = refs[k] - 1 /\ refs[k] \in Nat
      BY <1>0, <1>2, <2>1, CounterZero DEF Decr, TypeOK
    <3>2. ~(refs[k] - 1 > 0)  BY <3>1
    <3>3. call'[t].pc = "free" /\ call'[t].victim = k
      BY <1>0, <1>2, <2>1, <3>2 DEF Decr, TypeOK, Frame
    <3> QED BY <3>3 DEF Freeing
  <2>2. CASE call[t].victim # k
    <3>1. Undisturbed  BY <1>0, <1>2 DEF Undisturbed, Decr, TypeOK
    <3>2. mem[k] = "live" /\ refs[k] = 0
      BY <1>0, <1>2, <2>2 DEF Decr, TypeOK
    <3> QED BY <3>1, <3>2, FreeingKept DEF ZeroesAreFreed
  <2> QED BY <2>1, <2>2
<1>3. CASE Release(t)
  <2>1. call[t].victim # k /\ mem[k] = "live" /\ refs[k] = 0
    BY <1>0, <1>3 DEF Release, TypeOK
  <2>2. PICK u \in Threads : call[u].pc = "free" /\ call[u].victim = k
    BY <2>1 DEF ZeroesAreFreed, Freeing
  <2>3. call'[u] = call[u]  BY <1>0, <1>3, <2>1, <2>2 DEF Release, Goto, TypeOK
  <2> QED BY <2>2, <2>3 DEF Freeing
<1>4. CASE \/ InitReturns(t) \/ DupStores(t)
           \/ UpRefReturns(t) \/ DupReturns(t) \/ DupFails(t)
           \/ CtxGone(t) \/ CallReturns(t) \/ DecodeEnd(t)
  <2>1. Undisturbed
    BY <1>0, <1>4 DEF Undisturbed, InitReturns, DupStores, UpRefReturns, DupReturns, DupFails,
       CtxGone, CallReturns, DecodeEnd, At, Goto, Return, FreeCtxKey, TypeOK
  <2>2. refs' = refs /\ mem' = mem
    BY <1>4 DEF InitReturns, DupStores, StoreKey, UpRefReturns, DupReturns, DupFails,
       CtxGone, CallReturns, DecodeEnd
  <2> QED BY <2>1, <2>2, FreeingKept DEF ZeroesAreFreed
<1> QED BY <1>1, <1>2, <1>3, <1>4 DEF Continue

LEMMA StepFrees == IInv /\ ZeroesAreFreed /\ [Next]_vars => ZeroesAreFreed'
<1> SUFFICES ASSUME IInv, ZeroesAreFreed, [Next]_vars, NEW k \in Keys,
                    mem'[k] = "live", refs'[k] = 0
             PROVE  Freeing(k)'
  BY DEF ZeroesAreFreed
<1>1. CASE \E t \in Threads, h \in Handles : DecodeLoad(t, h)
  <2>1. Undisturbed /\ refs' = refs /\ mem' = mem
    BY <1>1 DEF Undisturbed, DecodeLoad
  <2> QED BY <2>1, FreeingKept DEF ZeroesAreFreed
<1>2. CASE UNCHANGED vars
  <2>1. Undisturbed /\ refs' = refs /\ mem' = mem
    BY <1>2 DEF Undisturbed, vars
  <2> QED BY <2>1, FreeingKept DEF ZeroesAreFreed
<1> QED BY <1>1, <1>2, BeginFrees, ContinueFrees DEF Next

\* Whatever the threads do, a key is freed by the time the call of its last
\* holder returns: there is always a thread on its way to do it.  (A key lost in
\* a failed generation has the holder Lost for good.)
THEOREM NothingIsStranded == Spec => []UnheldAreBeingFreed
<1>1. Init => ZeroesAreFreed
  BY DEF Init, ZeroesAreFreed
<1>2. IInv /\ ZeroesAreFreed => UnheldAreBeingFreed
  <2> SUFFICES ASSUME IInv, ZeroesAreFreed, NEW k \in Keys, mem[k] = "live", HeldBy(k) = {}
               PROVE  \E t \in Threads : call[t].pc = "free" /\ call[t].victim = k /\ call[t].cnt = 0
    BY DEF UnheldAreBeingFreed
  <2>1. PICK t \in Threads : call[t].pc = "free" /\ call[t].victim = k
    BY CounterZero DEF ZeroesAreFreed, Freeing
  <2>2. CountInv(t)  BY DEF IInv
  <2> QED BY <2>1, <2>2 DEF CountInv
<1> QED BY <1>1, <1>2, StepFrees, InvariantHolds, PTL DEF Spec

=============================================================================
