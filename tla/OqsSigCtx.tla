------------------------------ MODULE OqsSigCtx ------------------------------
(***************************************************************************)
(* Signature contexts (oqs_sig.c): PROV_OQSSIG_CTX objects with the heap   *)
(* blocks they point to, under the calls the EVP layer makes.  EVP makes a *)
(* new provider context for every initialisation, finalises a duplicate    *)
(* and goes on with the original, and asks for the signature size with a   *)
(* final call that has no buffer.                                          *)
(*                                                                         *)
(* A call that would read or free a block that is gone has no defined      *)
(* behaviour in C; the guard Sound leaves it out, and OwnBuffers says when *)
(* a context can get there at all.                                         *)
(***************************************************************************)
EXTENDS Naturals, Sequences

CONSTANTS Ctxs,       \* PROV_OQSSIG_CTX objects
          Chunks,     \* pieces of a message
          Digests,    \* digests EVP_MD_fetch finds
          Raw,        \* no digest: the message goes to the algorithm as it is
          Null,
          MaxUpdates  \* bound: updates of one context

VARIABLES
  ctx,      \* ctx[c]: the fields of context c that decide what a call does
  heap,     \* heap[b]: the contents of block b, Null when it is not allocated
  hist,     \* hist[c]: what the user did with c since its initialisation
  wounded,  \* contexts whose blocks a failed dupctx freed
  out       \* what the last sign or verify of a message worked on, or Null

vars == <<ctx, heap, hist, wounded, out>>

\* The four pointers of a context that lead to blocks of its own.
Fields == {"propq", "mdctx", "mddata", "aid"}

\* The blocks a context allocates for a field: the one in use, and one in case
\* the pointer of another context still leads to an earlier one.
Blocks == Ctxs \X Fields \X {0, 1}

Empty == [alg |-> Raw, data |-> <<>>]

Algs == Digests \cup {Raw}

\* What a block holds: a hash state or a buffer of a message so far.
Contents == [alg : Algs, data : Seq(Chunks)]

ASSUME SigCtxAssumption ==
  /\ Raw \notin Digests
  /\ Null \notin Algs /\ Null \notin Blocks /\ Null \notin Contents
  /\ MaxUpdates \in Nat

\* A context is unused ("none"), made ("new"), in one of four operations, "done"
\* with one, or "failed".
Ops == {"sign", "verify", "dsign", "dverify"}

NoCtx == [phase |-> "none", flag_allow_md |-> 0, md |-> Null,
          propq |-> Null, mdctx |-> Null, mddata |-> Null, aid |-> Null]
NoHist == [fed |-> <<>>, init |-> Raw, set |-> FALSE, dropped |-> FALSE, queried |-> FALSE]

Init ==
  /\ ctx = [c \in Ctxs |-> NoCtx]
  /\ heap = [b \in Blocks |-> Null]
  /\ hist = [c \in Ctxs |-> NoHist]
  /\ wounded = {}
  /\ out = Null

-----------------------------------------------------------------------------
(* Blocks.                                                                 *)

Referenced(b) == \E c \in Ctxs, f \in Fields : ctx[c][f] = b

\* OPENSSL_malloc for field f of context c: a block that is free, or that the
\* same call frees, and that no other pointer still leads to.
Fresh(c, f) == CHOOSE b \in {c} \X {f} \X {0, 1} :
  /\ heap[b] = Null \/ ctx[c][f] = b
  /\ \A d \in Ctxs, g \in Fields : ctx[d][g] = b => d = c /\ g = f

\* The calls made on c so far left its fields F with blocks that are there.
Sound(c, F) == \A f \in F : ctx[c][f] # Null => heap[ctx[c][f]] # Null

\* The heap after the blocks of the fields F of c are freed and, for every
\* field in the domain of new, a block of c with these contents is allocated.
Rewrite(c, F, new) ==
  LET made == {Fresh(c, f) : f \in DOMAIN new}
      freed == {ctx[c][f] : f \in F}
  IN [b \in Blocks |-> IF b \in made THEN new[b[2]]
                       ELSE IF b \in freed THEN Null ELSE heap[b]]

\* The context r with the fields in the domain of new pointing to these blocks.
Pointing(r, c, new) == [f \in DOMAIN r |-> IF f \in DOMAIN new THEN Fresh(c, f) ELSE r[f]]

Nothing == [f \in {} |-> Empty]

-----------------------------------------------------------------------------
(* newctx, freectx, dupctx.                                                *)

NewCtx(c) ==
  /\ ctx[c].phase = "none"
  /\ \E new \in {Nothing, [propq |-> Empty]} :
       /\ ctx' = [ctx EXCEPT ![c] = Pointing([NoCtx EXCEPT !.phase = "new"], c, new)]
       /\ heap' = Rewrite(c, {}, new)
  /\ out' = Null
  /\ UNCHANGED <<hist, wounded>>

FreeCtx(c) ==
  /\ ctx[c].phase # "none"
  /\ Sound(c, Fields)
  /\ ctx' = [ctx EXCEPT ![c] = NoCtx]
  /\ heap' = Rewrite(c, Fields, Nothing)
  /\ hist' = [hist EXCEPT ![c] = NoHist]
  /\ out' = Null
  /\ UNCHANGED wounded

\* EVP duplicates contexts an initialisation succeeded on.
Dupable(c) == ctx[c].phase \in Ops \cup {"done"} /\ Sound(c, Fields)

\* Mutants: the copy keeps the source's pointer to the block of field f.
DupSharing(c, d, f) ==
  LET new == [g \in {h \in Fields \ {f} : ctx[c][h] # Null} |-> heap[ctx[c][g]]]
  IN /\ Dupable(c)
     /\ ctx[d].phase = "none"
     /\ ctx' = [ctx EXCEPT ![d] = Pointing(ctx[c], d, new)]
     /\ heap' = Rewrite(d, {}, new)
     /\ hist' = [hist EXCEPT ![d] = hist[c]]
     /\ out' = Null
     /\ UNCHANGED wounded
DupSharesData(c, d) == DupSharing(c, d, "mddata")
DupSharesHash(c, d) == DupSharing(c, d, "mdctx")

DupCtx(c, d) ==
  LET new == [f \in {g \in Fields : ctx[c][g] # Null} |-> heap[ctx[c][f]]]
  IN /\ Dupable(c)
     /\ ctx[d].phase = "none"
     /\ ctx' = [ctx EXCEPT ![d] = Pointing(ctx[c], d, new)]
     /\ heap' = Rewrite(d, {}, new)
     /\ hist' = [hist EXCEPT ![d] = hist[c]]
     /\ out' = Null
     /\ UNCHANGED wounded

\* The fields dupctx duplicates after f, still pointing to the blocks of the
\* source when f fails, except mdctx, which starts as NULL.
After(f) == CASE f = "mdctx" -> {"mddata", "aid", "propq"}
              [] f = "mddata" -> {"aid", "propq"}
              [] f = "aid" -> {"propq"}
              [] f = "propq" -> {}

\* Duplicating field f of c fails: freectx of the copy frees what it points to.
DupFails(c, f) ==
  /\ Dupable(c)
  /\ ctx[c][f] # Null
  /\ heap' = Rewrite(c, After(f), Nothing)
  /\ wounded' = IF heap' = heap THEN wounded ELSE wounded \cup {c}
  /\ out' = Null
  /\ UNCHANGED <<ctx, hist>>

-----------------------------------------------------------------------------
(* Initialisation.                                                         *)

Needs(op) == IF op \in {"sign", "dsign"} THEN "priv" ELSE "pub"

\* oqs_sig_signverify_init with a key that has the parts in key.
SignVerifyInit(r, op, key) ==
  [r EXCEPT !.flag_allow_md = 1, !.phase = IF Needs(op) \in key THEN op ELSE "failed"]

SigInit(c, op, key) ==
  /\ ctx[c].phase = "new"
  /\ ctx' = [ctx EXCEPT ![c] = SignVerifyInit(@, op, key)]
  /\ out' = Null
  /\ UNCHANGED <<heap, hist, wounded>>

\* oqs_sig_setup_md: the fetched digest m replaces the one of r, whose hash
\* state goes; with it comes a new algorithm identifier.
SetupMd(r, m) == [r EXCEPT !.md = m, !.mdctx = Null]
MdBlocks == [aid |-> Empty]

\* digest_sign_init and digest_verify_init with mdname NULL (m = Raw) or m.
DigestInit(c, op, key, m) ==
  LET r == SignVerifyInit(ctx[c], op, key)
      new == IF r.phase = "failed" \/ m = Raw THEN Nothing
             ELSE [aid |-> Empty, mdctx |-> [alg |-> m, data |-> <<>>]]
  IN /\ ctx[c].phase = "new"
     /\ ctx' = [ctx EXCEPT ![c] =
                  Pointing(IF new = Nothing THEN r ELSE SetupMd(r, m), c, new)]
     /\ heap' = Rewrite(c, {"mdctx", "aid"}, new)
     /\ hist' = [hist EXCEPT ![c].init = m]
     /\ out' = Null
     /\ UNCHANGED wounded

\* The digest cannot be fetched (new = Nothing) or set up: its error path.
DigestInitFails(c) ==
  /\ ctx[c].phase = "new"
  /\ \E new \in {Nothing, [aid |-> Empty]} :
       /\ ctx' = [ctx EXCEPT ![c] =
                    Pointing([@ EXCEPT !.flag_allow_md = 1, !.phase = "failed"], c, new)]
       /\ heap' = Rewrite(c, DOMAIN new, new)
  /\ out' = Null
  /\ UNCHANGED <<hist, wounded>>

-----------------------------------------------------------------------------
(* Update and final.                                                       *)

Streaming(c) == ctx[c].phase \in {"dsign", "dverify"}

\* Every update starts by forbidding digest changes.
Updates(c) ==
  /\ Streaming(c)
  /\ Sound(c, {"mdctx", "mddata"})
  /\ Len(hist[c].fed) < MaxUpdates

Fed(c, x) == hist' = [hist EXCEPT ![c].fed = Append(@, x), ![c].queried = FALSE]

HashUpdate(c, x) ==
  /\ Updates(c)
  /\ ctx[c].mdctx # Null
  /\ heap' = [heap EXCEPT ![ctx[c].mdctx].data = Append(@, x)]
  /\ ctx' = [ctx EXCEPT ![c].flag_allow_md = 0]
  /\ Fed(c, x)
  /\ out' = Null
  /\ UNCHANGED wounded

\* Mutant: the reallocated buffer holds the new piece only.
CollectUpdateOverwrites(c, x) ==
  LET new == [mddata |-> [alg |-> Raw, data |-> <<x>>]]
  IN /\ Updates(c)
     /\ ctx[c].mdctx = Null
     /\ heap' = Rewrite(c, {"mddata"}, new)
     /\ ctx' = [ctx EXCEPT ![c] = Pointing([@ EXCEPT !.flag_allow_md = 0], c, new)]
     /\ Fed(c, x)
     /\ out' = Null
     /\ UNCHANGED wounded

\* No digest: allocate mddata, or reallocate it to append.
CollectUpdate(c, x) ==
  LET old == IF ctx[c].mddata = Null THEN <<>> ELSE heap[ctx[c].mddata].data
      new == [mddata |-> [alg |-> Raw, data |-> Append(old, x)]]
  IN /\ Updates(c)
     /\ ctx[c].mdctx = Null
     /\ heap' = Rewrite(c, {"mddata"}, new)
     /\ ctx' = [ctx EXCEPT ![c] = Pointing([@ EXCEPT !.flag_allow_md = 0], c, new)]
     /\ Fed(c, x)
     /\ out' = Null
     /\ UNCHANGED wounded

\* The allocation fails, as it does for an empty first piece of a message.
CollectUpdateFails(c) ==
  /\ Updates(c)
  /\ ctx[c].mdctx = Null
  /\ ctx' = [ctx EXCEPT ![c].flag_allow_md = 0]
  /\ out' = Null
  /\ UNCHANGED <<heap, hist, wounded>>

\* What oqs_sig_sign and oqs_sig_verify are called on.
Tbs(c) == IF ctx[c].mdctx # Null THEN heap[ctx[c].mdctx]
          ELSE IF ctx[c].mddata # Null THEN heap[ctx[c].mddata] ELSE Empty

Finish(c) ==
  /\ Sound(c, {"mdctx", "mddata"})
  /\ out' = [alg |-> Tbs(c).alg, data |-> Tbs(c).data, hist |-> hist[c]]
  /\ hist' = [hist EXCEPT ![c] = NoHist]
  /\ UNCHANGED <<heap, wounded>>

\* digest_sign_final without a buffer: the size of the signature is asked for.
SizeQuery(c) ==
  /\ ctx[c].phase = "dsign"
  /\ ctx' = [ctx EXCEPT ![c].flag_allow_md = 1]
  /\ hist' = [hist EXCEPT ![c].queried = TRUE]
  /\ out' = Null
  /\ UNCHANGED <<heap, wounded>>

DigestSignFinal(c) ==
  /\ ctx[c].phase = "dsign"
  /\ ctx' = [ctx EXCEPT ![c].flag_allow_md = 1, ![c].phase = "done"]
  /\ Finish(c)

DigestVerifyFinal(c) ==
  /\ ctx[c].phase = "dverify"
  /\ ctx' = [ctx EXCEPT ![c].phase = "done",
                        ![c].flag_allow_md = IF ctx[c].mdctx # Null THEN 1 ELSE @]
  /\ Finish(c)

-----------------------------------------------------------------------------
(* Parameters.                                                             *)

\* Mutants: the flag is not looked at; the old hash state is not freed, and
\* forgotten or kept.
SetMdUnlocked(c, m) ==
  LET new == [aid |-> Empty]
  IN /\ ctx[c].phase \in Ops
     /\ Sound(c, {"mdctx", "aid"})
     /\ ctx' = [ctx EXCEPT ![c] = Pointing([@ EXCEPT !.md = m, !.mdctx = Null], c, new)]
     /\ heap' = Rewrite(c, {"mdctx", "aid"}, new)
     /\ hist' = [hist EXCEPT ![c].set = TRUE,
                             ![c].dropped = @ \/ (ctx[c].mdctx # Null /\ hist[c].fed # <<>>)]
     /\ out' = Null
     /\ UNCHANGED wounded
SetMdWithHash(c, m, mdctx) ==
  LET new == [aid |-> Empty]
  IN /\ ctx[c].phase \in Ops
     /\ ctx[c].flag_allow_md = 1
     /\ Sound(c, {"mdctx", "aid"})
     /\ ctx' = [ctx EXCEPT ![c] = Pointing([@ EXCEPT !.md = m, !.mdctx = mdctx], c, new)]
     /\ heap' = Rewrite(c, {"aid"}, new)
     /\ hist' = [hist EXCEPT ![c].set = TRUE]
     /\ out' = Null
     /\ UNCHANGED wounded
SetMdForgetsHash(c, m) == SetMdWithHash(c, m, Null)
SetMdKeepsHash(c, m) == SetMdWithHash(c, m, ctx[c].mdctx)

\* set_ctx_params with a digest m that can be fetched.
SetMd(c, m) ==
  /\ ctx[c].phase \in Ops
  /\ ctx[c].flag_allow_md = 1
  /\ Sound(c, {"mdctx", "aid"})
  /\ ctx' = [ctx EXCEPT ![c] = Pointing(SetupMd(@, m), c, MdBlocks)]
  /\ heap' = Rewrite(c, {"mdctx", "aid"}, MdBlocks)
  /\ hist' = [hist EXCEPT ![c].set = TRUE,
                          ![c].dropped = @ \/ (ctx[c].mdctx # Null /\ hist[c].fed # <<>>)]
  /\ out' = Null
  /\ UNCHANGED wounded

\* get_ctx_params makes the algorithm identifier when there is none.
GetAid(c) ==
  LET new == [aid |-> Empty]
  IN /\ ctx[c].phase \in Ops \cup {"done"}
     /\ ctx[c].aid = Null
     /\ ctx' = [ctx EXCEPT ![c] = Pointing(@, c, new)]
     /\ heap' = Rewrite(c, {}, new)
     /\ out' = Null
     /\ UNCHANGED <<hist, wounded>>

-----------------------------------------------------------------------------
Next == \E c \in Ctxs :
  \/ NewCtx(c) \/ FreeCtx(c) \/ DigestInitFails(c) \/ CollectUpdateFails(c)
  \/ \E d \in Ctxs : DupCtx(c, d)
  \/ \E f \in Fields : DupFails(c, f)
  \/ \E key \in SUBSET {"priv", "pub"} :
       \/ \E op \in {"sign", "verify"} : SigInit(c, op, key)
       \/ \E op \in {"dsign", "dverify"}, m \in Algs : DigestInit(c, op, key, m)
  \/ \E x \in Chunks : HashUpdate(c, x) \/ CollectUpdate(c, x)
  \/ SizeQuery(c) \/ DigestSignFinal(c) \/ DigestVerifyFinal(c)
  \/ \E m \in Digests : SetMd(c, m)
  \/ GetAid(c)

Spec == Init /\ [][Next]_vars

-----------------------------------------------------------------------------
\* Every pointer of a context leads to a block that is there and that no other
\* pointer leads to.  The exception: a dupctx that fails half way frees the
\* algorithm identifier and the property query of its source.
OwnBuffers == \A c \in Ctxs, f \in Fields :
  ctx[c][f] # Null =>
    /\ \A d \in Ctxs, g \in Fields : ctx[d][g] = ctx[c][f] => d = c /\ g = f
    /\ heap[ctx[c][f]] # Null \/ (c \in wounded /\ f \in {"aid", "propq"})

\* No block is left that nothing points to.
NoLeak == \A b \in Blocks : heap[b] # Null => Referenced(b)

\* A signature covers all that was passed to update since the initialisation,
\* in order, unless a change of digest threw an already fed hash away.
CoversUpdates == out # Null => out.data = out.hist.fed \/ out.hist.dropped

\* It covers it as the initialisation said, hashed or not; after a digest was
\* set it is never hashed.
HashedAsInitialised == out # Null => out.alg = IF out.hist.set THEN Raw ELSE out.hist.init

\* Between an update and the next size query the digest stays as it is.
MdFrozenAfterUpdate == [][\A c \in Ctxs :
  (Streaming(c) /\ hist[c].fed # <<>> /\ ~hist[c].queried /\ ctx'[c].phase # "none") =>
    ctx'[c].md = ctx[c].md]_vars

\* What line 513 of oqs_sig.c says: "disallow MD changes after update has been
\* called at least once".
NoMdChangeAfterUpdate == [][\A c \in Ctxs :
  (Streaming(c) /\ hist[c].fed # <<>> /\ ctx'[c].phase # "none") => ctx'[c].md = ctx[c].md]_vars

\* The contexts are independent streams (SigStream).
Message(c) == IF Streaming(c) /\ Sound(c, {"mdctx", "mddata"}) THEN Tbs(c) ELSE Null
Stream == INSTANCE SigStream WITH Idle <- Null, stream <- [c \in Ctxs |-> Message(c)]
StreamRefinement == Stream!StreamSpec
=============================================================================
