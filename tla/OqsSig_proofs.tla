---------------------------- MODULE OqsSig_proofs ----------------------------
(***************************************************************************)
(* Proofs about oqs_sig.c: signature contexts (OqsSigCtx), then the        *)
(* signatures made and verified with them (OqsSign).                       *)
(*                                                                         *)
(* Every block has the context and the field it was allocated for in its   *)
(* name, so the ownership of blocks is an invariant on single fields       *)
(* (FieldInv): a block of a field that is allocated is the one the field   *)
(* points to.  An action keeps, frees or makes the block of each field.    *)
(* The message is an invariant on single contexts (StreamInv): which block *)
(* holds what was fed.                                                     *)
(*                                                                         *)
(* What a key pair signed verifies, and what verifies was made by both     *)
(* halves of the pair, because a signature says how long its classical     *)
(* part is (SigOk) and a verification looks at both parts (OutOk): for any *)
(* number of keys, key pairs, messages and runs, every size of keys and    *)
(* signatures and every length the two parts of a signature turn out to    *)
(* have.                                                                   *)
(***************************************************************************)
EXTENDS OqsSigCtx, OqsSign, OqsxKeyLayout_proofs

Phases == {"none", "new", "failed", "done"} \cup Ops

CtxRecords == [phase : Phases, flag_allow_md : {0, 1}, md : Digests \cup {Null},
               propq : Blocks \cup {Null}, mdctx : Blocks \cup {Null},
               mddata : Blocks \cup {Null}, aid : Blocks \cup {Null}]

Hists == [fed : Seq(Chunks), init : Algs, set : BOOLEAN, dropped : BOOLEAN, queried : BOOLEAN]

TypeInv ==
  /\ ctx \in [Ctxs -> CtxRecords]
  /\ heap \in [Blocks -> Contents \cup {Null}]
  /\ hist \in [Ctxs -> Hists]

Own(c, f) == {<<c, f, 0>>, <<c, f, 1>>}

\* Field f of c points to one of its own blocks, and no other of them is
\* allocated.  Only the fields that dupctx duplicates last can point to a block
\* that is gone.
FieldInv(c, f) ==
  /\ ctx[c][f] \in Own(c, f) \cup {Null}
  /\ \A b \in Own(c, f) : heap[b] # Null => ctx[c][f] = b
  /\ ctx[c][f] # Null => heap[ctx[c][f]] # Null \/ (c \in wounded /\ f \in {"aid", "propq"})

BlocksInv == \A c \in Ctxs, f \in Fields : FieldInv(c, f)

\* What a context has before its operation begins.
PhaseInv(c) ==
  /\ ctx[c].phase = "none" => \A f \in Fields : ctx[c][f] = Null
  /\ ctx[c].phase = "new" => ctx[c].mdctx = Null /\ ctx[c].mddata = Null /\ ctx[c].aid = Null
  /\ ctx[c].phase \in {"none", "new"} => hist[c] = NoHist
  /\ ctx[c].mdctx # Null => ctx[c].mddata = Null

\* Where the message of a streaming context is: in the hash state, or, when
\* there is none, in the buffer, unless a digest set meanwhile dropped it.
StreamInv(c) == Streaming(c) =>
  /\ ctx[c].mdctx # Null => /\ heap[ctx[c].mdctx] = [alg |-> hist[c].init, data |-> hist[c].fed]
                            /\ ~hist[c].set
  /\ ctx[c].mdctx = Null => hist[c].set \/ hist[c].init = Raw
  /\ ctx[c].mddata # Null => /\ heap[ctx[c].mddata].alg = Raw
                             /\ heap[ctx[c].mddata].data = hist[c].fed \/ hist[c].dropped
  /\ (ctx[c].mdctx = Null /\ ctx[c].mddata = Null) => hist[c].fed = <<>> \/ hist[c].dropped

\* After an update, until the size is asked for, the digest is locked.
LockInv(c) ==
  (Streaming(c) /\ hist[c].fed # <<>> /\ ~hist[c].queried) => ctx[c].flag_allow_md = 0

IInv ==
  /\ TypeInv
  /\ BlocksInv
  /\ \A c \in Ctxs : PhaseInv(c) /\ StreamInv(c) /\ LockInv(c)
  /\ CoversUpdates /\ HashedAsInitialised

-----------------------------------------------------------------------------
(* Blocks.                                                                 *)

LEMMA BlockNames ==
  /\ \A c \in Ctxs, f \in Fields : Own(c, f) \subseteq Blocks /\ Null \notin Own(c, f)
  /\ \A b \in Blocks : b[1] \in Ctxs /\ b[2] \in Fields /\ b \in Own(b[1], b[2])
  /\ \A c, d \in Ctxs, f, g \in Fields :
       \A b \in Own(c, f) : b \in Own(d, g) => d = c /\ g = f
  /\ \A c \in Ctxs, f \in Fields : \A b \in Own(c, f) : b[1] = c /\ b[2] = f
BY SigCtxAssumption DEF Blocks, Own

LEMMA FieldTypes ==
  ASSUME NEW r \in CtxRecords
  PROVE  /\ DOMAIN r = {"phase", "flag_allow_md", "md"} \cup Fields
         /\ \A f \in Fields : r[f] \in Blocks \cup {Null}
         /\ r.propq = r["propq"] /\ r.mdctx = r["mdctx"]
         /\ r.mddata = r["mddata"] /\ r.aid = r["aid"]
BY DEF CtxRecords, Fields

\* A block can be allocated for every field, freed before or not.
LEMMA FreshOwn ==
  ASSUME BlocksInv, NEW c \in Ctxs, NEW f \in Fields
  PROVE  Fresh(c, f) \in Own(c, f)
<1> DEFINE b == <<c, f, 0>>
<1>1. b \in Own(c, f) /\ b \in Blocks  BY BlockNames DEF Own
<1>2. heap[b] = Null \/ ctx[c][f] = b
  BY <1>1 DEF BlocksInv, FieldInv
<1>3. \A d \in Ctxs, g \in Fields : ctx[d][g] = b => d = c /\ g = f
  BY <1>1, BlockNames DEF BlocksInv, FieldInv
<1>4. \E x \in {c} \X {f} \X {0, 1} :
        /\ heap[x] = Null \/ ctx[c][f] = x
        /\ \A d \in Ctxs, g \in Fields : ctx[d][g] = x => d = c /\ g = f
  BY <1>2, <1>3
<1>5. Fresh(c, f) \in {c} \X {f} \X {0, 1}  BY <1>4 DEF Fresh
<1>6. QED  BY <1>5 DEF Own

\* A call frees the blocks of the fields F of c and makes those of new: a field
\* that gets a block has none or loses it.
Rewritable(c, F, new) ==
  /\ F \subseteq Fields /\ DOMAIN new \subseteq Fields
  /\ \A f \in DOMAIN new : new[f] \in Contents /\ (f \in F \/ ctx[c][f] = Null)

\* What this does to each block.
BlocksReplaced(c, F, new, h) ==
  /\ h \in [Blocks -> Contents \cup {Null}]
  /\ \A d \in Ctxs, f \in Fields :
       (d # c \/ f \notin F \cup DOMAIN new) => \A b \in Own(d, f) : h[b] = heap[b]
  /\ \A f \in F \ DOMAIN new : \A b \in Own(c, f) : h[b] = Null
  /\ \A f \in DOMAIN new :
       /\ h[Fresh(c, f)] = new[f]
       /\ \A b \in Own(c, f) : b # Fresh(c, f) => h[b] = Null

LEMMA RewriteDoes ==
  ASSUME TypeInv, BlocksInv, NEW c \in Ctxs, NEW F, NEW new, Rewritable(c, F, new)
  PROVE  BlocksReplaced(c, F, new, Rewrite(c, F, new))
<1> DEFINE h == Rewrite(c, F, new)
<1>0. /\ F \subseteq Fields /\ DOMAIN new \subseteq Fields
      /\ \A f \in DOMAIN new : new[f] \in Contents /\ (f \in F \/ ctx[c][f] = Null)
  BY DEF Rewritable
<1> DEFINE made == {Fresh(c, f) : f \in DOMAIN new}
           freed == {ctx[c][f] : f \in F}
<1>1. h = [b \in Blocks |-> IF b \in made THEN new[b[2]]
                            ELSE IF b \in freed THEN Null ELSE heap[b]]
  BY DEF Rewrite
<1> HIDE DEF h
<1>2. \A f \in DOMAIN new : Fresh(c, f) \in Own(c, f)  BY <1>0, FreshOwn
<1>3. \A f \in F : ctx[c][f] \in Own(c, f) \cup {Null}  BY <1>0 DEF BlocksInv, FieldInv
<1>4. \A b \in made : b[2] \in DOMAIN new /\ b = Fresh(c, b[2]) /\ b \in Own(c, b[2])
  BY <1>0, <1>2, BlockNames
<1>5. heap \in [Blocks -> Contents \cup {Null}]  BY DEF TypeInv
<1>6. Null \notin Blocks  BY SigCtxAssumption
<1> HIDE DEF made, freed
<1>7. h \in [Blocks -> Contents \cup {Null}]
  BY <1>0, <1>1, <1>4, <1>5
<1>8. ASSUME NEW d \in Ctxs, NEW f \in Fields, d # c \/ f \notin F \cup DOMAIN new,
             NEW b \in Own(d, f)
      PROVE  h[b] = heap[b]
  <2>1. b \in Blocks  BY <1>0, BlockNames
  <2>2. b \notin made  BY <1>4, <1>8, BlockNames
  <2>3. b \notin freed  BY <1>0, <1>3, <1>6, <1>8, <2>1, BlockNames DEF freed
  <2>4. QED  BY <1>1, <2>1, <2>2, <2>3
<1>9. ASSUME NEW f \in F \ DOMAIN new, NEW b \in Own(c, f)
      PROVE  h[b] = Null
  <2>1. b \in Blocks  BY <1>0, BlockNames
  <2>2. b \notin made  BY <1>0, <1>4, BlockNames
  <2>3. heap[b] # Null => b \in freed  BY <1>0 DEF freed, BlocksInv, FieldInv
  <2>4. QED  BY <1>1, <2>1, <2>2, <2>3
<1>10. ASSUME NEW f \in DOMAIN new
       PROVE  /\ h[Fresh(c, f)] = new[f]
              /\ \A b \in Own(c, f) : b # Fresh(c, f) => h[b] = Null
  <2>1. Fresh(c, f) \in made /\ Fresh(c, f) \in Blocks /\ Fresh(c, f)[2] = f
    BY <1>0, <1>2, BlockNames DEF made
  <2>2. h[Fresh(c, f)] = new[f]  BY <1>1, <2>1
  <2>3. ASSUME NEW b \in Own(c, f), b # Fresh(c, f)  PROVE h[b] = Null
    <3>1. b \in Blocks /\ b[2] = f  BY <1>0, BlockNames
    <3>2. b \notin made  BY <1>4, <2>3, <3>1
    <3>3. heap[b] # Null => ctx[c][f] = b  BY <1>0 DEF BlocksInv, FieldInv
    <3>4. heap[b] # Null => b \in freed
      BY <1>0, <1>10, <3>1, <3>3, <1>6 DEF freed
    <3>5. QED  BY <1>1, <3>1, <3>2, <3>4
  <2>4. QED  BY <2>2, <2>3
<1>11. QED  BY <1>7, <1>8, <1>9, <1>10 DEF h, BlocksReplaced

-----------------------------------------------------------------------------
(* Steps.                                                                  *)

\* What a step does to a field and its blocks: it keeps them, frees the block,
\* or makes a new one.
Kept(c, f) == ctx'[c][f] = ctx[c][f] /\ \A b \in Own(c, f) : heap'[b] = heap[b]
Gone(c, f) == ctx'[c][f] = Null /\ \A b \in Own(c, f) : heap'[b] = Null
Made(c, f) == /\ ctx'[c][f] \in Own(c, f)
              /\ heap'[ctx'[c][f]] # Null
              /\ \A b \in Own(c, f) : b # ctx'[c][f] => heap'[b] = Null

LEMMA FieldStep ==
  ASSUME NEW c \in Ctxs, NEW f \in Fields, FieldInv(c, f), wounded \subseteq wounded',
         Kept(c, f) \/ Gone(c, f) \/ Made(c, f)
  PROVE  FieldInv(c, f)'
<1>1. Null \notin Own(c, f)  BY BlockNames
<1>2. CASE Kept(c, f)  BY <1>2, <1>1 DEF Kept, FieldInv
<1>3. CASE Gone(c, f)  BY <1>3, <1>1 DEF Gone, FieldInv
<1>4. CASE Made(c, f)  BY <1>4, <1>1 DEF Made, FieldInv
<1>5. QED  BY <1>2, <1>3, <1>4

\* The step leaves context c as it is.
SameCtx(c) == ctx'[c] = ctx[c] /\ \A f \in Fields : \A b \in Own(c, f) : heap'[b] = heap[b]

\* A step that rewrites blocks of c, whose fields then are those of r or lead to
\* the new blocks.
Repoints(c, F, new, r) ==
  /\ r \in CtxRecords
  /\ \A f \in Fields \ DOMAIN new : r[f] = IF f \in F THEN Null ELSE ctx[c][f]
  /\ ctx' = [ctx EXCEPT ![c] = Pointing(r, c, new)]
  /\ heap' = Rewrite(c, F, new)

Repointed(c, F, new, r) ==
  /\ ctx' \in [Ctxs -> CtxRecords] /\ heap' \in [Blocks -> Contents \cup {Null}]
  /\ BlocksInv'
  /\ \A d \in Ctxs \ {c} : SameCtx(d)
  /\ ctx'[c].phase = r.phase /\ ctx'[c].md = r.md
  /\ ctx'[c].flag_allow_md = r.flag_allow_md
  /\ \A f \in Fields \ DOMAIN new : ctx'[c][f] = r[f]
  /\ \A f \in Fields \ (F \cup DOMAIN new) : \A b \in Own(c, f) : heap'[b] = heap[b]
  /\ \A f \in DOMAIN new : ctx'[c][f] # Null /\ heap'[ctx'[c][f]] = new[f]

LEMMA RewriteStep ==
  ASSUME TypeInv, BlocksInv, NEW c \in Ctxs, NEW F, NEW new, Rewritable(c, F, new),
         NEW r, Repoints(c, F, new, r), wounded \subseteq wounded'
  PROVE  Repointed(c, F, new, r)
<1> DEFINE q == Pointing(r, c, new)
<1>a. /\ r \in CtxRecords
      /\ \A f \in Fields \ DOMAIN new : r[f] = IF f \in F THEN Null ELSE ctx[c][f]
      /\ ctx' = [ctx EXCEPT ![c] = Pointing(r, c, new)]
      /\ heap' = Rewrite(c, F, new)
  BY DEF Repoints
<1>1. /\ heap' \in [Blocks -> Contents \cup {Null}]
      /\ \A d \in Ctxs, f \in Fields :
           d # c \/ f \notin F \cup DOMAIN new => \A b \in Own(d, f) : heap'[b] = heap[b]
      /\ \A f \in F \ DOMAIN new : \A b \in Own(c, f) : heap'[b] = Null
      /\ \A f \in DOMAIN new :
           /\ heap'[Fresh(c, f)] = new[f]
           /\ \A b \in Own(c, f) : b # Fresh(c, f) => heap'[b] = Null
  BY <1>a, RewriteDoes DEF BlocksReplaced
<1>0. /\ F \subseteq Fields /\ DOMAIN new \subseteq Fields
      /\ \A f \in DOMAIN new : new[f] \in Contents
  BY DEF Rewritable
<1>2. ctx \in [Ctxs -> CtxRecords]  BY DEF TypeInv
<1>3. DOMAIN r = {"phase", "flag_allow_md", "md"} \cup Fields  BY <1>a, FieldTypes
<1>4. q = [f \in DOMAIN r |-> IF f \in DOMAIN new THEN Fresh(c, f) ELSE r[f]]
  BY DEF Pointing
<1>5. \A f \in Fields : q[f] = IF f \in DOMAIN new THEN Fresh(c, f) ELSE r[f]
  BY <1>0, <1>3, <1>4
<1>6. q.phase = r.phase /\ q.md = r.md /\ q.flag_allow_md = r.flag_allow_md
  BY <1>0, <1>3, <1>4 DEF Fields
<1>7. \A f \in DOMAIN new : Fresh(c, f) \in Own(c, f) /\ Fresh(c, f) \in Blocks
  BY <1>0, FreshOwn, BlockNames
<1>8. \A f \in Fields : q[f] \in Blocks \cup {Null}
  BY <1>0, <1>a, <1>5, <1>7, FieldTypes
<1>9. q \in CtxRecords
  <2>1. DOMAIN q = {"phase", "flag_allow_md", "md"} \cup Fields  BY <1>3, <1>4
  <2>2. q = [f \in {"phase", "flag_allow_md", "md"} \cup Fields |-> q[f]]  BY <1>4, <2>1
  <2>3. /\ q["phase"] \in Phases /\ q["flag_allow_md"] \in {0, 1}
        /\ q["md"] \in Digests \cup {Null}
    BY <1>a, <1>6 DEF CtxRecords
  <2>4. /\ q["propq"] \in Blocks \cup {Null} /\ q["mdctx"] \in Blocks \cup {Null}
        /\ q["mddata"] \in Blocks \cup {Null} /\ q["aid"] \in Blocks \cup {Null}
    BY <1>8 DEF Fields
  <2> HIDE DEF q
  <2>5. QED  BY <2>2, <2>3, <2>4 DEF CtxRecords, Fields
<1>10. ctx' = [ctx EXCEPT ![c] = q]  BY <1>a
<1> HIDE DEF q
<1>11. ctx'[c] = q /\ \A d \in Ctxs \ {c} : ctx'[d] = ctx[d]
  BY <1>2, <1>10
<1>12. ctx' \in [Ctxs -> CtxRecords]  BY <1>2, <1>9, <1>10
<1>13. \A d \in Ctxs \ {c} : SameCtx(d)  BY <1>1, <1>11 DEF SameCtx
<1>14. \A f \in DOMAIN new : ctx'[c][f] = Fresh(c, f) /\ heap'[ctx'[c][f]] = new[f]
  BY <1>0, <1>1, <1>5, <1>11
<1>15. Null \notin Contents /\ Null \notin Blocks  BY SigCtxAssumption
<1>16. ASSUME NEW d \in Ctxs, NEW f \in Fields  PROVE FieldInv(d, f)'
  <2>1. CASE d # c
    <3>1. Kept(d, f)  BY <1>a, <2>1, <1>1, <1>11 DEF Kept
    <3>2. QED  BY <3>1, FieldStep DEF BlocksInv
  <2>2. CASE d = c /\ f \notin F \cup DOMAIN new
    <3>1. Kept(d, f)  BY <1>a, <2>2, <1>1, <1>5, <1>11 DEF Kept
    <3>2. QED  BY <3>1, FieldStep DEF BlocksInv
  <2>3. CASE d = c /\ f \in F \ DOMAIN new
    <3>1. Gone(d, f)  BY <1>a, <2>3, <1>1, <1>5, <1>11 DEF Gone
    <3>2. QED  BY <3>1, FieldStep DEF BlocksInv
  <2>4. CASE d = c /\ f \in DOMAIN new
    <3>1. Made(d, f)  BY <1>0, <2>4, <1>1, <1>7, <1>14, <1>15 DEF Made
    <3>2. QED  BY <3>1, FieldStep DEF BlocksInv
  <2>5. QED  BY <2>1, <2>2, <2>3, <2>4
<1>17. BlocksInv'  BY <1>16 DEF BlocksInv
<1>18. \A f \in Fields \ DOMAIN new : ctx'[c][f] = r[f]  BY <1>5, <1>11
<1>19. \A f \in DOMAIN new : ctx'[c][f] # Null  BY <1>7, <1>14, <1>15
<1>20. QED  BY <1>1, <1>6, <1>11, <1>12, <1>13, <1>14, <1>17, <1>18, <1>19 DEF Repointed

\* A step that leaves alone where the message is.
SameStream(c) ==
  /\ ctx'[c].phase = ctx[c].phase
  /\ ctx'[c].mdctx = ctx[c].mdctx /\ ctx'[c].mddata = ctx[c].mddata
  /\ \A f \in {"mdctx", "mddata"} : \A b \in Own(c, f) : heap'[b] = heap[b]
  /\ hist'[c].fed = hist[c].fed /\ hist'[c].dropped = hist[c].dropped
  /\ hist'[c].init = hist[c].init /\ hist'[c].set = hist[c].set

LEMMA SameStreamKeeps ==
  ASSUME TypeInv, BlocksInv, NEW c \in Ctxs, StreamInv(c), SameStream(c)
  PROVE  StreamInv(c)' /\ Message(c)' = Message(c)
<1>1. /\ ctx[c]["mdctx"] \in Own(c, "mdctx") \cup {Null}
      /\ ctx[c]["mddata"] \in Own(c, "mddata") \cup {Null}
  BY DEF BlocksInv, FieldInv, Fields
<1>2. /\ ctx[c].mdctx # Null => heap'[ctx[c].mdctx] = heap[ctx[c].mdctx]
      /\ ctx[c].mddata # Null => heap'[ctx[c].mddata] = heap[ctx[c].mddata]
  BY <1>1 DEF SameStream
<1>3. StreamInv(c)'  BY <1>2 DEF SameStream, StreamInv, Streaming
<1>4. Sound(c, {"mdctx", "mddata"})' <=> Sound(c, {"mdctx", "mddata"})
  BY <1>2 DEF SameStream, Sound
<1>5. Tbs(c)' = Tbs(c)  BY <1>2 DEF SameStream, Tbs
<1>6. QED  BY <1>3, <1>4, <1>5 DEF Message, Streaming, SameStream

\* A context that a step leaves as it is keeps its message.
LEMMA SameCtxKeeps ==
  ASSUME TypeInv, BlocksInv, NEW c \in Ctxs, PhaseInv(c), StreamInv(c), LockInv(c),
         SameCtx(c), hist'[c] = hist[c]
  PROVE  PhaseInv(c)' /\ StreamInv(c)' /\ LockInv(c)' /\ Message(c)' = Message(c)
<1>1. SameStream(c)  BY DEF SameCtx, SameStream, Fields
<1>2. PhaseInv(c)'  BY DEF SameCtx, PhaseInv
<1>3. LockInv(c)'  BY DEF SameCtx, LockInv, Streaming
<1>4. QED  BY <1>1, <1>2, <1>3, SameStreamKeeps

\* The blocks of the message are always there.
LEMMA StreamIsSound ==
  ASSUME BlocksInv, NEW c \in Ctxs
  PROVE  Sound(c, {"mdctx", "mddata"})
BY DEF BlocksInv, FieldInv, Sound, Fields

LEMMA MessageIs ==
  ASSUME BlocksInv, NEW c \in Ctxs
  PROVE  Message(c) = IF Streaming(c) THEN Tbs(c) ELSE Null
BY StreamIsSound DEF Message

LEMMA MessageBecomes ==
  ASSUME BlocksInv', NEW c \in Ctxs
  PROVE  Message(c)' = IF Streaming(c)' THEN Tbs(c)' ELSE Null
BY DEF BlocksInv, FieldInv, Sound, Fields, Message

\* A step on context c: the others keep what they have.
LEMMA StepOn ==
  ASSUME IInv, NEW c \in Ctxs,
         ctx' \in [Ctxs -> CtxRecords], heap' \in [Blocks -> Contents \cup {Null}],
         hist' \in [Ctxs -> Hists], BlocksInv',
         \A d \in Ctxs \ {c} : SameCtx(d) /\ hist'[d] = hist[d],
         PhaseInv(c)', StreamInv(c)', LockInv(c)',
         out' = Null \/ (CoversUpdates' /\ HashedAsInitialised')
  PROVE  /\ IInv'
         /\ \A d \in Ctxs \ {c} : Message(d)' = Message(d)
<1>1. TypeInv'  BY DEF TypeInv
<1>2. ASSUME NEW d \in Ctxs \ {c}
      PROVE  PhaseInv(d)' /\ StreamInv(d)' /\ LockInv(d)' /\ Message(d)' = Message(d)
  BY SameCtxKeeps DEF IInv
<1>3. \A d \in Ctxs : PhaseInv(d)' /\ StreamInv(d)' /\ LockInv(d)'  BY <1>2
<1>4. CoversUpdates' /\ HashedAsInitialised'  BY DEF CoversUpdates, HashedAsInitialised
<1>5. QED  BY <1>1, <1>2, <1>3, <1>4 DEF IInv

LEMMA PointingNothing ==
  ASSUME NEW r \in CtxRecords, NEW c
  PROVE  Pointing(r, c, Nothing) = r
BY DEF Pointing, Nothing, CtxRecords

LEMMA EmptyIsContents == Empty \in Contents
BY DEF Empty, Contents, Algs

LEMMA NothingIsEmpty == DOMAIN Nothing = {}
BY DEF Nothing

LEMMA Idles ==
  /\ NoCtx \in CtxRecords
  /\ \A f \in Fields : NoCtx[f] = Null
  /\ NoCtx.phase = "none"
  /\ NoHist \in Hists
BY DEF NoCtx, CtxRecords, Phases, NoHist, Hists, Algs, Fields

\* A context that is not streaming has no message to be kept.
LEMMA NotStreaming ==
  ASSUME NEW c \in Ctxs, ~Streaming(c)'
  PROVE  StreamInv(c)' /\ LockInv(c)' /\ Message(c)' = Null
BY DEF StreamInv, LockInv, Message

-----------------------------------------------------------------------------
(* One lemma per action: it keeps the invariant, and what it does to the   *)
(* message.                                                                *)

\* The messages after a step that only context c takes part in.
Becomes(c, m) == Message(c)' = m /\ \A d \in Ctxs \ {c} : Message(d)' = Message(d)

LEMMA NewCtxStep ==
  ASSUME IInv, NEW c \in Ctxs, NewCtx(c)
  PROVE  IInv' /\ Becomes(c, Message(c))
<1>1. PICK new \in {Nothing, [propq |-> Empty]} :
        /\ ctx' = [ctx EXCEPT ![c] = Pointing([NoCtx EXCEPT !.phase = "new"], c, new)]
        /\ heap' = Rewrite(c, {}, new)
  BY DEF NewCtx
<1>2. /\ ctx[c].phase = "none" /\ out' = Null /\ hist' = hist /\ wounded' = wounded
      /\ TypeInv /\ BlocksInv /\ PhaseInv(c)
  BY DEF NewCtx, IInv
<1>3. \A f \in Fields : ctx[c][f] = Null  BY <1>2 DEF PhaseInv
<1>4. DOMAIN new \subseteq {"propq"} /\ \A f \in DOMAIN new : new[f] \in Contents
  BY EmptyIsContents, NothingIsEmpty
<1>5. Rewritable(c, {}, new)  BY <1>3, <1>4 DEF Rewritable, Fields
<1> DEFINE r == [NoCtx EXCEPT !.phase = "new"]
<1>6. r \in CtxRecords /\ r.phase = "new" /\ \A f \in Fields : r[f] = Null
  BY Idles DEF CtxRecords, Phases, Fields
<1>7. ctx' = [ctx EXCEPT ![c] = Pointing(r, c, new)]  BY <1>1
<1> HIDE DEF r
<1>8. /\ ctx' \in [Ctxs -> CtxRecords] /\ heap' \in [Blocks -> Contents \cup {Null}]
      /\ BlocksInv'
      /\ \A d \in Ctxs \ {c} : SameCtx(d)
      /\ ctx'[c].phase = r.phase
      /\ \A f \in Fields \ DOMAIN new : ctx'[c][f] = r[f]
  <2>1. Repoints(c, {}, new, r)  BY <1>1, <1>3, <1>6, <1>7 DEF Repoints
  <2>2. Repointed(c, {}, new, r)  BY <1>2, <1>5, <2>1, RewriteStep
  <2>3. QED  BY <2>2 DEF Repointed
<1>9. ctx'[c].mdctx = Null /\ ctx'[c].mddata = Null /\ ctx'[c].aid = Null
  BY <1>4, <1>6, <1>8 DEF Fields
<1>10. hist'[c] = NoHist /\ hist' \in [Ctxs -> Hists]  BY <1>2 DEF PhaseInv, TypeInv
<1>11. PhaseInv(c)'  BY <1>6, <1>8, <1>9, <1>10 DEF PhaseInv
<1>12. ~Streaming(c) /\ ~Streaming(c)'  BY <1>2, <1>6, <1>8 DEF Streaming
<1>13. StreamInv(c)' /\ LockInv(c)' /\ Message(c)' = Null  BY <1>12, NotStreaming
<1>14. Message(c) = Null  BY <1>2, <1>12, MessageIs
<1>15. QED
  BY <1>2, <1>8, <1>10, <1>11, <1>13, <1>14, StepOn DEF Becomes

LEMMA FreeCtxStep ==
  ASSUME IInv, NEW c \in Ctxs, FreeCtx(c)
  PROVE  IInv' /\ Becomes(c, Null)
<1>1. /\ ctx' = [ctx EXCEPT ![c] = NoCtx] /\ heap' = Rewrite(c, Fields, Nothing)
      /\ hist' = [hist EXCEPT ![c] = NoHist] /\ out' = Null /\ wounded' = wounded
      /\ TypeInv /\ BlocksInv
  BY DEF FreeCtx, IInv
<1>2. Rewritable(c, Fields, Nothing)  BY NothingIsEmpty DEF Rewritable
<1>3. Repoints(c, Fields, Nothing, NoCtx)
  BY <1>1, Idles, PointingNothing, NothingIsEmpty DEF Repoints
<1>4. Repointed(c, Fields, Nothing, NoCtx)  BY <1>1, <1>2, <1>3, RewriteStep
<1>5. ctx'[c] = NoCtx  BY <1>1 DEF TypeInv
<1>6. PhaseInv(c)'
  <2>1. hist'[c] = NoHist  BY <1>1 DEF TypeInv
  <2>2. QED  BY <1>5, <2>1, Idles DEF PhaseInv, NoCtx
<1>7. ~Streaming(c)'  BY <1>5, Idles DEF Streaming
<1>8. hist' \in [Ctxs -> Hists] /\ \A d \in Ctxs \ {c} : hist'[d] = hist[d]
  BY <1>1, Idles DEF TypeInv
<1>9. StreamInv(c)' /\ LockInv(c)' /\ Message(c)' = Null  BY <1>7, NotStreaming
<1>10. QED
  BY <1>1, <1>4, <1>6, <1>8, <1>9, StepOn DEF Becomes, Repointed

\* Only a digest operation has a hash state, and with it no buffer, so that
\* the blocks a failed dupctx frees are never those of the message.
LEMMA DupFailsStep ==
  ASSUME IInv, NEW c \in Ctxs, NEW f \in Fields, DupFails(c, f)
  PROVE  IInv' /\ Becomes(c, Message(c))
<1>1. /\ ctx' = ctx /\ hist' = hist /\ out' = Null /\ ctx[c][f] # Null
      /\ heap' = Rewrite(c, After(f), Nothing)
      /\ wounded' = IF heap' = heap THEN wounded ELSE wounded \cup {c}
      /\ TypeInv /\ BlocksInv /\ PhaseInv(c) /\ StreamInv(c) /\ LockInv(c)
  BY DEF DupFails, IInv
<1>2. After(f) \subseteq {"mddata", "aid", "propq"} /\ ("mddata" \in After(f) => f = "mdctx")
  BY DEF After, Fields
<1>3. Rewritable(c, After(f), Nothing)  BY <1>2, NothingIsEmpty DEF Rewritable, Fields
<1>4. BlocksReplaced(c, After(f), Nothing, heap')  BY <1>1, <1>3, RewriteDoes
<1>5. /\ heap' \in [Blocks -> Contents \cup {Null}]
      /\ \A d \in Ctxs, g \in Fields :
           (d # c \/ g \notin After(f)) => \A b \in Own(d, g) : heap'[b] = heap[b]
      /\ \A g \in After(f) : \A b \in Own(c, g) : heap'[b] = Null
  BY <1>4, NothingIsEmpty DEF BlocksReplaced
<1>6. \A b \in Own(c, "mdctx") : heap'[b] = heap[b]  BY <1>2, <1>5 DEF Fields
<1>7. \A b \in Own(c, "mddata") : heap'[b] = heap[b]
  <2>1. CASE "mddata" \notin After(f)  BY <2>1, <1>5 DEF Fields
  <2>2. CASE "mddata" \in After(f)
    <3>1. ctx[c].mddata = Null  BY <2>2, <1>1, <1>2 DEF PhaseInv
    <3>2. \A b \in Own(c, "mddata") : heap[b] = Null
      BY <3>1, <1>1, BlockNames DEF BlocksInv, FieldInv, Fields
    <3>3. QED  BY <2>2, <3>2, <1>5
  <2>3. QED  BY <2>1, <2>2
<1>8. wounded \subseteq wounded'  BY <1>1
<1>9. ASSUME NEW d \in Ctxs, NEW g \in Fields  PROVE FieldInv(d, g)'
  <2>1. CASE d # c \/ g \notin After(f) \/ g = "mddata"
    <3>1. Kept(d, g)  BY <2>1, <1>1, <1>5, <1>7 DEF Kept
    <3>2. QED  BY <3>1, <1>1, <1>8, FieldStep DEF BlocksInv
  <2>2. CASE d = c /\ g \in After(f) /\ g # "mddata" /\ heap' = heap
    <3>1. Kept(d, g)  BY <2>2, <1>1 DEF Kept
    <3>2. QED  BY <3>1, <1>1, <1>8, FieldStep DEF BlocksInv
  <2>3. CASE d = c /\ g \in After(f) /\ g # "mddata" /\ heap' # heap
    <3>1. c \in wounded' /\ g \in {"aid", "propq"}  BY <2>3, <1>1, <1>2
    <3>2. ctx[c][g] \in Own(c, g) \cup {Null}  BY <2>3, <1>1 DEF BlocksInv, FieldInv
    <3>3. QED  BY <2>3, <3>1, <3>2, <1>1, <1>5 DEF FieldInv
  <2>4. QED  BY <2>1, <2>2, <2>3
<1>10. BlocksInv'  BY <1>9 DEF BlocksInv
<1>11. SameStream(c)  BY <1>1, <1>6, <1>7 DEF SameStream
<1>12. StreamInv(c)' /\ Message(c)' = Message(c)  BY <1>1, <1>11, SameStreamKeeps
<1>13. PhaseInv(c)' /\ LockInv(c)'  BY <1>1 DEF PhaseInv, LockInv, Streaming
<1>14. \A d \in Ctxs \ {c} : SameCtx(d)  BY <1>1, <1>5 DEF SameCtx
<1>15. QED
  BY <1>1, <1>5, <1>10, <1>12, <1>13, <1>14, StepOn DEF Becomes, TypeInv

LEMMA DupCtxStep ==
  ASSUME IInv, NEW c \in Ctxs, NEW d \in Ctxs, DupCtx(c, d)
  PROVE  IInv' /\ d # c /\ Message(d) = Null /\ Becomes(d, Message(c))
<1> DEFINE new == [f \in {g \in Fields : ctx[c][g] # Null} |-> heap[ctx[c][f]]]
<1>1. /\ ctx' = [ctx EXCEPT ![d] = Pointing(ctx[c], d, new)]
      /\ heap' = Rewrite(d, {}, new)
      /\ hist' = [hist EXCEPT ![d] = hist[c]] /\ out' = Null /\ wounded' = wounded
  BY DEF DupCtx
<1>2. /\ ctx[c].phase \in Ops \cup {"done"} /\ Sound(c, Fields) /\ ctx[d].phase = "none"
      /\ TypeInv /\ BlocksInv
      /\ PhaseInv(c) /\ StreamInv(c) /\ LockInv(c) /\ PhaseInv(d)
  BY DEF DupCtx, Dupable, IInv
<1>3. /\ DOMAIN new = {g \in Fields : ctx[c][g] # Null}
      /\ \A f \in DOMAIN new : new[f] = heap[ctx[c][f]]
  OBVIOUS
<1> HIDE DEF new
<1>4. d # c  BY <1>2 DEF Ops
<1>5. \A f \in Fields : ctx[d][f] = Null  BY <1>2 DEF PhaseInv
<1>6. ctx[c] \in CtxRecords  BY <1>2 DEF TypeInv
<1>7. \A f \in DOMAIN new : new[f] \in Contents
  <2>1. \A f \in DOMAIN new : ctx[c][f] \in Blocks /\ heap[ctx[c][f]] # Null
    BY <1>2, <1>3, <1>6, FieldTypes DEF Sound
  <2>2. QED  BY <1>2, <1>3, <2>1 DEF TypeInv
<1>8. Rewritable(d, {}, new)  BY <1>3, <1>5, <1>7 DEF Rewritable
<1>9. Repoints(d, {}, new, ctx[c])  BY <1>1, <1>3, <1>5, <1>6 DEF Repoints
<1>10. Repointed(d, {}, new, ctx[c])  BY <1>1, <1>2, <1>8, <1>9, RewriteStep
<1>11. /\ ctx'[d].phase = ctx[c].phase /\ ctx'[d].flag_allow_md = ctx[c].flag_allow_md
       /\ \A f \in Fields : ctx'[d][f] = Null <=> ctx[c][f] = Null
       /\ \A f \in Fields : ctx[c][f] # Null => heap'[ctx'[d][f]] = heap[ctx[c][f]]
  BY <1>3, <1>10 DEF Repointed
<1>12. /\ ctx'[d].mdctx = Null <=> ctx[c].mdctx = Null
       /\ ctx'[d].mddata = Null <=> ctx[c].mddata = Null
       /\ ctx[c].mdctx # Null => heap'[ctx'[d].mdctx] = heap[ctx[c].mdctx]
       /\ ctx[c].mddata # Null => heap'[ctx'[d].mddata] = heap[ctx[c].mddata]
  BY <1>11 DEF Fields
<1>13. hist'[d] = hist[c] /\ hist' \in [Ctxs -> Hists]  BY <1>1, <1>2 DEF TypeInv
<1>14. StreamInv(d)' /\ LockInv(d)'
  BY <1>2, <1>11, <1>12, <1>13 DEF StreamInv, LockInv, Streaming
<1>15. PhaseInv(d)'  BY <1>2, <1>11, <1>12 DEF PhaseInv, Ops
<1>16. Message(d)' = Message(c)
  <2>1. Tbs(d)' = Tbs(c)  BY <1>12 DEF Tbs
  <2>2. QED  BY <1>2, <1>10, <1>11, <2>1, MessageIs, MessageBecomes DEF Repointed, Streaming
<1>17. Message(d) = Null  BY <1>2 DEF Message, Streaming
<1>18. QED
  BY <1>1, <1>4, <1>10, <1>13, <1>14, <1>15, <1>16, <1>17, StepOn DEF Becomes, Repointed

\* A step that leaves all blocks as they are.
LEMMA SameBlocks ==
  ASSUME TypeInv, BlocksInv, NEW c \in Ctxs, NEW r \in CtxRecords,
         \A f \in Fields : r[f] = ctx[c][f],
         ctx' = [ctx EXCEPT ![c] = r], heap' = heap, wounded' = wounded
  PROVE  /\ ctx' \in [Ctxs -> CtxRecords] /\ heap' \in [Blocks -> Contents \cup {Null}]
         /\ BlocksInv' /\ ctx'[c] = r
         /\ \A d \in Ctxs \ {c} : SameCtx(d)
<1>1. /\ ctx' \in [Ctxs -> CtxRecords] /\ heap' \in [Blocks -> Contents \cup {Null}]
      /\ ctx'[c] = r /\ \A d \in Ctxs \ {c} : ctx'[d] = ctx[d]
  BY DEF TypeInv
<1>2. \A d \in Ctxs, f \in Fields : Kept(d, f)  BY <1>1 DEF Kept
<1>3. BlocksInv'  BY <1>2, FieldStep DEF BlocksInv
<1>4. QED  BY <1>1, <1>3 DEF SameCtx

LEMMA SigInitStep ==
  ASSUME IInv, NEW c \in Ctxs, NEW op \in {"sign", "verify"}, NEW held, SigInit(c, op, held)
  PROVE  IInv' /\ Becomes(c, Message(c))
<1> DEFINE r == SignVerifyInit(ctx[c], op, held)
<1>1. /\ ctx' = [ctx EXCEPT ![c] = r] /\ out' = Null
      /\ heap' = heap /\ hist' = hist /\ wounded' = wounded
      /\ ctx[c].phase = "new" /\ TypeInv /\ BlocksInv /\ PhaseInv(c)
  BY DEF SigInit, IInv
<1>2. ctx[c] \in CtxRecords  BY <1>1 DEF TypeInv
<1>3. /\ r \in CtxRecords /\ r.phase \in {"sign", "verify", "failed"}
      /\ \A f \in Fields : r[f] = ctx[c][f]
  BY ZenonT(40), <1>2 DEF SignVerifyInit, CtxRecords, Phases, Ops, Fields
<1> HIDE DEF r
<1>4. /\ ctx' \in [Ctxs -> CtxRecords] /\ heap' \in [Blocks -> Contents \cup {Null}]
      /\ BlocksInv' /\ ctx'[c] = r
      /\ \A d \in Ctxs \ {c} : SameCtx(d)
  BY <1>1, <1>3, SameBlocks
<1>5. PhaseInv(c)'
  <2>1. r.mdctx = Null /\ r.mddata = Null  BY <1>1, <1>3 DEF PhaseInv, Fields
  <2>2. QED  BY <1>3, <1>4, <2>1 DEF PhaseInv
<1>6. ~Streaming(c)' /\ ~Streaming(c)  BY <1>1, <1>3, <1>4 DEF Streaming
<1>7. StreamInv(c)' /\ LockInv(c)' /\ Message(c)' = Null  BY <1>6, NotStreaming
<1>8. Message(c) = Null  BY <1>6 DEF Message
<1>9. QED
  BY <1>1, <1>4, <1>5, <1>7, <1>8, StepOn DEF Becomes, TypeInv

\* Both ways: without a digest nothing is allocated, with one a hash state and
\* an algorithm identifier.
LEMMA DigestInitStep ==
  ASSUME IInv, NEW c \in Ctxs, NEW op \in {"dsign", "dverify"}, NEW held, NEW m \in Algs,
         DigestInit(c, op, held, m)
  PROVE  /\ IInv'
         /\ \/ Becomes(c, Message(c))
            \/ Becomes(c, [alg |-> m, data |-> <<>>])
<1> DEFINE r == SignVerifyInit(ctx[c], op, held)
           made == [aid |-> Empty, mdctx |-> [alg |-> m, data |-> <<>>]]
           plain == r.phase = "failed" \/ m = Raw
           new == IF plain THEN Nothing ELSE made
           q == IF new = Nothing THEN r ELSE SetupMd(r, m)
<1>1. /\ ctx' = [ctx EXCEPT ![c] = Pointing(q, c, new)]
      /\ heap' = Rewrite(c, {"mdctx", "aid"}, new)
      /\ hist' = [hist EXCEPT ![c].init = m]
      /\ ctx[c].phase = "new" /\ out' = Null /\ wounded' = wounded
      /\ TypeInv /\ BlocksInv /\ PhaseInv(c)
  BY DEF DigestInit, IInv
<1>2. ctx[c] \in CtxRecords  BY <1>1 DEF TypeInv
<1>3. ctx[c].mdctx = Null /\ ctx[c].mddata = Null /\ ctx[c].aid = Null /\ hist[c] = NoHist
  BY <1>1 DEF PhaseInv
<1>4. /\ r \in CtxRecords /\ r.phase \in {"dsign", "dverify", "failed"}
      /\ \A f \in Fields : r[f] = ctx[c][f]
  BY ZenonT(40), <1>2 DEF SignVerifyInit, CtxRecords, Phases, Ops, Fields
<1>5. /\ plain => new = Nothing /\ DOMAIN new = {}
      /\ ~plain => new = made /\ DOMAIN new = {"aid", "mdctx"}
  BY NothingIsEmpty
<1>6. \A f \in DOMAIN new : new[f] \in Contents
  <2>1. CASE plain  BY <2>1, <1>5
  <2>2. CASE ~plain
    <3>1. [alg |-> m, data |-> <<>>] \in Contents  BY DEF Contents
    <3>2. QED  BY <2>2, <3>1, <1>5, EmptyIsContents
  <2>3. QED  BY <2>1, <2>2
<1>7. /\ plain => q = r
      /\ ~plain => q = SetupMd(r, m) /\ m \in Digests
  <2>1. CASE plain  BY <2>1, <1>5
  <2>2. CASE ~plain  BY <2>2, <1>5, NothingIsEmpty DEF Algs
  <2>3. QED  BY <2>1, <2>2
<1>8. q \in CtxRecords /\ q.phase = r.phase /\ \A f \in Fields : q[f] = ctx[c][f]
  <2>1. CASE plain  BY <2>1, <1>4, <1>7
  <2>2. CASE ~plain
    <3>1. q = [r EXCEPT !.md = m, !.mdctx = Null]  BY <2>2, <1>7 DEF SetupMd
    <3> HIDE DEF r, q
    <3>2. q \in CtxRecords /\ q.phase = r.phase
      BY <3>1, <1>4, <1>7, <2>2 DEF CtxRecords
    <3>3. \A f \in Fields : q[f] = ctx[c][f]
      BY <3>1, <1>3, <1>4 DEF CtxRecords, Fields
    <3>4. QED  BY <3>2, <3>3
  <2>3. QED  BY <2>1, <2>2
<1> DEFINE F == {"mdctx", "aid"}
<1>9. DOMAIN new \subseteq F  BY <1>5
<1> HIDE DEF r, new, q, made
<1>10. Rewritable(c, F, new)  BY <1>6, <1>9 DEF Rewritable, Fields
<1>11. Repoints(c, F, new, q)
  <2>1. \A f \in Fields : q[f] = IF f \in F THEN Null ELSE ctx[c][f]
    BY <1>3, <1>8 DEF Fields
  <2>2. QED  BY <1>1, <1>8, <2>1 DEF Repoints
<1>12. Repointed(c, F, new, q)  BY <1>1, <1>10, <1>11, RewriteStep
<1>13. /\ ctx'[c].phase = r.phase /\ ctx'[c].mddata = Null
       /\ plain => ctx'[c].mdctx = Null
       /\ ~plain => ctx'[c].mdctx # Null /\ heap'[ctx'[c].mdctx] = [alg |-> m, data |-> <<>>]
  BY <1>3, <1>5, <1>8, <1>12 DEF Repointed, Fields, made
<1>14. /\ hist'[c] = [NoHist EXCEPT !.init = m] /\ hist' \in [Ctxs -> Hists]
       /\ \A d \in Ctxs \ {c} : hist'[d] = hist[d]
  BY <1>1, <1>3, Idles DEF TypeInv, Hists
<1>15. /\ hist'[c].fed = <<>> /\ hist'[c].init = m /\ ~hist'[c].set
  BY <1>14 DEF NoHist
<1>16. StreamInv(c)' /\ LockInv(c)'
  <2>1. CASE r.phase = "failed"
    BY <2>1, <1>13, NotStreaming DEF Streaming
  <2>2. CASE r.phase # "failed" /\ plain
    BY <2>2, <1>13, <1>15 DEF StreamInv, LockInv, plain
  <2>3. CASE ~plain
    BY <2>3, <1>13, <1>15 DEF StreamInv, LockInv
  <2>4. QED  BY <2>1, <2>2, <2>3
<1>17. PhaseInv(c)'  BY <1>4, <1>13 DEF PhaseInv
<1>18. \/ Message(c)' = Message(c)
       \/ Message(c)' = [alg |-> m, data |-> <<>>]
  <2>1. BlocksInv'  BY <1>12 DEF Repointed
  <2>2. Message(c) = Null  BY <1>1 DEF Message, Streaming
  <2>3. CASE r.phase = "failed"  BY <2>2, <2>3, <1>13, NotStreaming DEF Streaming
  <2>4. CASE r.phase # "failed" /\ plain
    BY <2>1, <2>4, <1>4, <1>13, MessageBecomes DEF Streaming, Tbs, Empty, plain
  <2>5. CASE ~plain
    BY <2>1, <2>5, <1>4, <1>13, MessageBecomes DEF Streaming, Tbs, plain
  <2>6. QED  BY <2>3, <2>4, <2>5
<1>19. QED
  BY <1>1, <1>12, <1>14, <1>16, <1>17, <1>18, StepOn DEF Becomes, Repointed

LEMMA DigestInitFailsStep ==
  ASSUME IInv, NEW c \in Ctxs, DigestInitFails(c)
  PROVE  IInv' /\ Becomes(c, Message(c))
<1> DEFINE r == [ctx[c] EXCEPT !.flag_allow_md = 1, !.phase = "failed"]
<1>1. PICK new \in {Nothing, [aid |-> Empty]} :
        /\ ctx' = [ctx EXCEPT ![c] = Pointing(r, c, new)]
        /\ heap' = Rewrite(c, DOMAIN new, new)
  BY DEF DigestInitFails
<1>2. /\ ctx[c].phase = "new" /\ out' = Null /\ hist' = hist /\ wounded' = wounded
      /\ TypeInv /\ BlocksInv /\ PhaseInv(c)
  BY DEF DigestInitFails, IInv
<1>3. DOMAIN new \subseteq {"aid"} /\ \A f \in DOMAIN new : new[f] \in Contents
  BY EmptyIsContents, NothingIsEmpty
<1>4. ctx[c] \in CtxRecords  BY <1>2 DEF TypeInv
<1>5. r \in CtxRecords /\ r.phase = "failed" /\ \A f \in Fields : r[f] = ctx[c][f]
  BY <1>4 DEF CtxRecords, Phases, Fields
<1> HIDE DEF r
<1>6. Rewritable(c, DOMAIN new, new)  BY <1>3 DEF Rewritable, Fields
<1>7. Repoints(c, DOMAIN new, new, r)  BY <1>1, <1>5 DEF Repoints
<1>8. Repointed(c, DOMAIN new, new, r)  BY <1>2, <1>6, <1>7, RewriteStep
<1>9. ctx'[c].phase = "failed" /\ ctx'[c].mdctx = Null
  BY <1>2, <1>3, <1>5, <1>8 DEF PhaseInv, Repointed, Fields
<1>10. PhaseInv(c)'  BY <1>9 DEF PhaseInv
<1>11. ~Streaming(c)' /\ ~Streaming(c)  BY <1>2, <1>9 DEF Streaming
<1>12. StreamInv(c)' /\ LockInv(c)' /\ Message(c)' = Null  BY <1>11, NotStreaming
<1>13. Message(c) = Null  BY <1>11 DEF Message
<1>14. QED
  BY <1>2, <1>8, <1>10, <1>12, <1>13, StepOn DEF Becomes, Repointed, TypeInv

\* The message m with the piece x.
With(m, x) == [m EXCEPT !.data = Append(@, x)]

LEMMA WithIs ==
  ASSUME NEW a, NEW u, NEW x
  PROVE  With([alg |-> a, data |-> u], x) = [alg |-> a, data |-> Append(u, x)]
BY DEF With

\* The history after an update with x.
LEMMA FedHist ==
  ASSUME TypeInv, NEW c \in Ctxs, NEW x \in Chunks, Fed(c, x)
  PROVE  /\ hist' \in [Ctxs -> Hists]
         /\ \A d \in Ctxs \ {c} : hist'[d] = hist[d]
         /\ hist'[c].fed = Append(hist[c].fed, x) /\ hist'[c].queried = FALSE
         /\ hist'[c].init = hist[c].init
         /\ hist'[c].set = hist[c].set /\ hist'[c].dropped = hist[c].dropped
<1>1. hist \in [Ctxs -> Hists] /\ hist[c] \in Hists  BY DEF TypeInv
<1>2. hist[c].fed \in Seq(Chunks)  BY <1>1 DEF Hists
<1>3. Append(hist[c].fed, x) \in Seq(Chunks)  BY <1>2
<1> DEFINE h == [hist[c] EXCEPT !.fed = Append(@, x), !.queried = FALSE]
<1>4. h \in Hists  BY <1>1, <1>3 DEF Hists
<1>5. hist' = [hist EXCEPT ![c] = h]  BY DEF Fed
<1>6. /\ h.fed = Append(hist[c].fed, x) /\ h.queried = FALSE /\ h.init = hist[c].init
      /\ h.set = hist[c].set /\ h.dropped = hist[c].dropped
  BY <1>1 DEF Hists
<1> HIDE DEF h
<1>7. QED  BY <1>1, <1>4, <1>5, <1>6

LEMMA HashUpdateStep ==
  ASSUME IInv, NEW c \in Ctxs, NEW x \in Chunks, HashUpdate(c, x)
  PROVE  IInv' /\ Message(c) # Null /\ Becomes(c, With(Message(c), x))
<1> DEFINE b == ctx[c].mdctx
           r == [ctx[c] EXCEPT !.flag_allow_md = 0]
<1>1. /\ Streaming(c) /\ b # Null
      /\ heap' = [heap EXCEPT ![b].data = Append(@, x)]
      /\ ctx' = [ctx EXCEPT ![c] = r]
      /\ Fed(c, x) /\ out' = Null /\ wounded' = wounded
      /\ TypeInv /\ BlocksInv /\ PhaseInv(c) /\ StreamInv(c)
  BY DEF HashUpdate, Updates, IInv, TypeInv
<1>2. ctx[c] \in CtxRecords /\ ctx \in [Ctxs -> CtxRecords]  BY <1>1 DEF TypeInv
<1>3. b = ctx[c]["mdctx"] /\ b \in Own(c, "mdctx") /\ b \in Blocks
  BY <1>1, BlockNames DEF BlocksInv, FieldInv, Fields
<1>4. heap[b] = [alg |-> hist[c].init, data |-> hist[c].fed]  BY <1>1 DEF StreamInv
<1>5. hist[c].init \in Algs /\ hist[c].fed \in Seq(Chunks)  BY <1>1 DEF TypeInv, Hists
<1> DEFINE k == [alg |-> hist[c].init, data |-> Append(hist[c].fed, x)]
<1>6. k \in Contents /\ k # Null
  BY SMTT(40), <1>5, SigCtxAssumption DEF Contents
<1>7. heap' = [heap EXCEPT ![b] = k] /\ With(heap[b], x) = k
  <2>1. With(heap[b], x) = k  BY <1>4, WithIs
  <2>2. heap' = [heap EXCEPT ![b] = With(heap[b], x)]  BY <1>1, Zenon DEF With
  <2>3. QED  BY <2>1, <2>2
<1>8. /\ r \in CtxRecords /\ r.phase = ctx[c].phase /\ r.flag_allow_md = 0
      /\ \A f \in Fields : r[f] = ctx[c][f]
  BY <1>2 DEF CtxRecords, Fields
<1>9. /\ ctx' \in [Ctxs -> CtxRecords] /\ ctx'[c] = r
      /\ \A d \in Ctxs \ {c} : ctx'[d] = ctx[d]
  BY <1>1, <1>2, <1>8
<1> HIDE DEF r, k, b
<1>10. heap' \in [Blocks -> Contents \cup {Null}] /\ heap'[b] = k
       /\ \A y \in Blocks : y # b => heap'[y] = heap[y]
  BY <1>1, <1>3, <1>6, <1>7 DEF TypeInv
<1>11. ASSUME NEW d \in Ctxs, NEW f \in Fields, d # c \/ f # "mdctx", NEW y \in Own(d, f)
       PROVE  heap'[y] = heap[y]
  BY <1>3, <1>10, <1>11, BlockNames DEF Fields
<1>12. ASSUME NEW d \in Ctxs, NEW f \in Fields  PROVE FieldInv(d, f)'
  <2>1. CASE d # c \/ f # "mdctx"
    <3>1. Kept(d, f)  BY <2>1, <1>8, <1>9, <1>11 DEF Kept
    <3>2. QED  BY <3>1, <1>1, FieldStep DEF BlocksInv
  <2>2. CASE d = c /\ f = "mdctx"
    <3>1. ctx'[c][f] = b  BY <2>2, <1>3, <1>8, <1>9
    <3>2. \A y \in Own(c, f) : y # b => heap[y] = Null
      BY <2>2, <1>1, <1>3 DEF BlocksInv, FieldInv
    <3>3. Made(d, f)  BY <2>2, <3>1, <3>2, <1>3, <1>6, <1>10, BlockNames DEF Made
    <3>4. QED  BY <3>3, <1>1, FieldStep DEF BlocksInv
  <2>3. QED  BY <2>1, <2>2
<1>13. BlocksInv'  BY <1>12 DEF BlocksInv
<1>14. \A d \in Ctxs \ {c} : SameCtx(d)  BY <1>9, <1>11 DEF SameCtx
<1>15. ctx'[c].mdctx = b /\ ctx'[c].mddata = Null /\ ctx'[c].phase = ctx[c].phase
  BY <1>1, <1>3, <1>8, <1>9 DEF PhaseInv, Fields, b
<1>16. /\ hist' \in [Ctxs -> Hists]
       /\ \A d \in Ctxs \ {c} : hist'[d] = hist[d]
       /\ hist'[c].fed = Append(hist[c].fed, x) /\ hist'[c].init = hist[c].init
       /\ hist'[c].set = hist[c].set
  BY <1>1, FedHist
<1>17. ~hist[c].set  BY <1>1 DEF StreamInv, b
<1>18. StreamInv(c)' /\ LockInv(c)'
  BY <1>1, <1>8, <1>9, <1>10, <1>15, <1>16, <1>17 DEF StreamInv, LockInv, k
<1>19. PhaseInv(c)'  BY <1>1, <1>15 DEF PhaseInv, Streaming
<1>20. Message(c) = heap[b] /\ heap[b] # Null
  <2>1. heap[b] # Null  BY <1>4, <1>5, SigCtxAssumption DEF Contents
  <2>2. QED  BY <2>1, <1>1, MessageIs DEF Tbs, b
<1>21. Message(c)' = k
  BY <1>1, <1>3, <1>10, <1>13, <1>15, MessageBecomes, BlockNames DEF Streaming, Tbs
<1>22. QED
  BY <1>1, <1>7, <1>9, <1>10, <1>13, <1>14, <1>16, <1>18, <1>19, <1>20, <1>21, StepOn
     DEF Becomes

LEMMA CollectUpdateStep ==
  ASSUME IInv, NEW c \in Ctxs, NEW x \in Chunks, CollectUpdate(c, x)
  PROVE  IInv' /\ Message(c) # Null /\ Becomes(c, With(Message(c), x))
<1> DEFINE old == IF ctx[c].mddata = Null THEN <<>> ELSE heap[ctx[c].mddata].data
           k == [alg |-> Raw, data |-> Append(old, x)]
           new == [mddata |-> k]
           r == [ctx[c] EXCEPT !.flag_allow_md = 0]
<1>1. /\ Streaming(c) /\ ctx[c].mdctx = Null
      /\ heap' = Rewrite(c, {"mddata"}, new)
      /\ ctx' = [ctx EXCEPT ![c] = Pointing(r, c, new)]
      /\ Fed(c, x) /\ out' = Null /\ wounded' = wounded
      /\ TypeInv /\ BlocksInv /\ PhaseInv(c) /\ StreamInv(c)
  BY DEF CollectUpdate, Updates, IInv, TypeInv
<1>2. ctx[c] \in CtxRecords /\ ctx \in [Ctxs -> CtxRecords]  BY <1>1 DEF TypeInv
<1>3. ctx[c].mddata # Null => ctx[c].mddata \in Blocks /\ heap[ctx[c].mddata] \in Contents
  <2>1. ASSUME ctx[c].mddata # Null
        PROVE  ctx[c].mddata \in Own(c, "mddata") /\ heap[ctx[c].mddata] # Null
    BY <2>1, <1>1 DEF BlocksInv, FieldInv, Fields
  <2>2. QED  BY <2>1, <1>1, BlockNames DEF TypeInv, Fields
<1>4. Tbs(c) = [alg |-> Raw, data |-> old] /\ old \in Seq(Chunks)
  <2>1. CASE ctx[c].mddata = Null
    BY <2>1, <1>1 DEF Tbs, Empty
  <2>2. CASE ctx[c].mddata # Null
    <3>1. heap[ctx[c].mddata].alg = Raw  BY <2>2, <1>1 DEF StreamInv
    <3>2. QED  BY <2>2, <3>1, <1>1, <1>3 DEF Tbs, Contents
  <2>3. QED  BY <2>1, <2>2
<1> HIDE DEF old
<1>5. Append(old, x) \in Seq(Chunks)  BY <1>4
<1>6. k \in Contents /\ k # Null  BY <1>5, SigCtxAssumption DEF Contents, Algs
<1>7. DOMAIN new = {"mddata"} /\ new["mddata"] = k  OBVIOUS
<1>8. /\ r \in CtxRecords /\ r.phase = ctx[c].phase /\ r.flag_allow_md = 0
      /\ \A f \in Fields : r[f] = ctx[c][f]
  BY <1>2 DEF CtxRecords, Fields
<1> HIDE DEF new, r
<1>9. Rewritable(c, {"mddata"}, new)  BY <1>6, <1>7 DEF Rewritable, Fields
<1>10. Repoints(c, {"mddata"}, new, r)  BY <1>1, <1>7, <1>8 DEF Repoints
<1>11. Repointed(c, {"mddata"}, new, r)  BY <1>1, <1>9, <1>10, RewriteStep
<1>12. /\ ctx'[c].phase = ctx[c].phase /\ ctx'[c].flag_allow_md = 0 /\ ctx'[c].mdctx = Null
       /\ ctx'[c].mddata # Null /\ heap'[ctx'[c].mddata] = k
  BY <1>1, <1>7, <1>8, <1>11 DEF Repointed, Fields
<1>13. /\ hist' \in [Ctxs -> Hists]
       /\ \A d \in Ctxs \ {c} : hist'[d] = hist[d]
       /\ hist'[c].fed = Append(hist[c].fed, x) /\ hist'[c].init = hist[c].init
       /\ hist'[c].set = hist[c].set /\ hist'[c].dropped = hist[c].dropped
  BY <1>1, FedHist
<1>14. old = hist[c].fed \/ hist[c].dropped
  BY <1>1 DEF StreamInv, old
<1>15. hist[c].set \/ hist[c].init = Raw  BY <1>1 DEF StreamInv
<1>16. StreamInv(c)' /\ LockInv(c)'
  BY <1>12, <1>13, <1>14, <1>15 DEF StreamInv, LockInv
<1>17. PhaseInv(c)'  BY <1>1, <1>12 DEF PhaseInv, Streaming
<1>18. Message(c) = [alg |-> Raw, data |-> old] /\ Message(c) # Null
  BY <1>1, <1>4, MessageIs, SigCtxAssumption DEF Contents, Algs
<1>19. Message(c)' = k
  <2>1. BlocksInv'  BY <1>11 DEF Repointed
  <2>2. QED  BY <2>1, <1>1, <1>12, MessageBecomes DEF Streaming, Tbs
<1>20. With(Message(c), x) = k  BY <1>18, WithIs
<1>21. QED
  BY <1>1, <1>11, <1>13, <1>16, <1>17, <1>18, <1>19, <1>20, StepOn DEF Becomes, Repointed

LEMMA CollectUpdateFailsStep ==
  ASSUME IInv, NEW c \in Ctxs, CollectUpdateFails(c)
  PROVE  IInv' /\ Becomes(c, Message(c))
<1> DEFINE r == [ctx[c] EXCEPT !.flag_allow_md = 0]
<1>1. /\ ctx' = [ctx EXCEPT ![c] = r] /\ heap' = heap /\ wounded' = wounded /\ hist' = hist
      /\ out' = Null /\ TypeInv /\ BlocksInv /\ PhaseInv(c) /\ StreamInv(c)
  BY DEF CollectUpdateFails, IInv, TypeInv
<1>2. ctx[c] \in CtxRecords  BY <1>1 DEF TypeInv
<1>3. /\ r \in CtxRecords /\ r.phase = ctx[c].phase /\ r.flag_allow_md = 0
      /\ \A f \in Fields : r[f] = ctx[c][f]
  BY <1>2 DEF CtxRecords, Fields
<1> HIDE DEF r
<1>4. /\ ctx' \in [Ctxs -> CtxRecords] /\ heap' \in [Blocks -> Contents \cup {Null}]
      /\ BlocksInv' /\ ctx'[c] = r
      /\ \A d \in Ctxs \ {c} : SameCtx(d)
  BY <1>1, <1>3, SameBlocks
<1>5. SameStream(c)  BY <1>1, <1>3, <1>4 DEF SameStream, Fields
<1>6. StreamInv(c)' /\ Message(c)' = Message(c)  BY <1>1, <1>5, SameStreamKeeps
<1>7. PhaseInv(c)' /\ LockInv(c)'
  BY <1>1, <1>3, <1>4 DEF PhaseInv, LockInv, Fields
<1>8. QED  BY <1>1, <1>4, <1>6, <1>7, StepOn DEF Becomes, TypeInv

LEMMA SizeQueryStep ==
  ASSUME IInv, NEW c \in Ctxs, SizeQuery(c)
  PROVE  IInv' /\ Becomes(c, Message(c))
<1> DEFINE r == [ctx[c] EXCEPT !.flag_allow_md = 1]
           h == [hist[c] EXCEPT !.queried = TRUE]
<1>1. /\ ctx' = [ctx EXCEPT ![c] = r] /\ heap' = heap /\ wounded' = wounded
      /\ hist' = [hist EXCEPT ![c] = h] /\ ctx[c].phase = "dsign"
      /\ out' = Null /\ TypeInv /\ BlocksInv /\ PhaseInv(c) /\ StreamInv(c)
  BY DEF SizeQuery, IInv, TypeInv
<1>2. ctx[c] \in CtxRecords /\ hist[c] \in Hists /\ hist \in [Ctxs -> Hists]
  BY <1>1 DEF TypeInv
<1>3. /\ r \in CtxRecords /\ r.phase = ctx[c].phase
      /\ \A f \in Fields : r[f] = ctx[c][f]
  BY <1>2 DEF CtxRecords, Fields
<1>4. /\ h \in Hists /\ h.queried /\ h.fed = hist[c].fed /\ h.init = hist[c].init
      /\ h.set = hist[c].set /\ h.dropped = hist[c].dropped
  BY <1>2 DEF Hists
<1> HIDE DEF r, h
<1>5. /\ ctx' \in [Ctxs -> CtxRecords] /\ heap' \in [Blocks -> Contents \cup {Null}]
      /\ BlocksInv' /\ ctx'[c] = r
      /\ \A d \in Ctxs \ {c} : SameCtx(d)
  BY <1>1, <1>3, SameBlocks
<1>6. hist' \in [Ctxs -> Hists] /\ hist'[c] = h /\ \A d \in Ctxs \ {c} : hist'[d] = hist[d]
  BY <1>1, <1>2, <1>4
<1>7. SameStream(c)  BY <1>1, <1>3, <1>4, <1>5, <1>6 DEF SameStream, Fields
<1>8. StreamInv(c)' /\ Message(c)' = Message(c)  BY <1>1, <1>7, SameStreamKeeps
<1>9. PhaseInv(c)' /\ LockInv(c)'
  BY <1>1, <1>3, <1>4, <1>5, <1>6 DEF PhaseInv, LockInv, Fields
<1>10. QED  BY <1>1, <1>5, <1>6, <1>8, <1>9, StepOn DEF Becomes

\* What a streaming context would sign is a hash state, a buffer, or nothing.
LEMMA StreamHasMessage ==
  ASSUME IInv, NEW c \in Ctxs, Streaming(c)
  PROVE  /\ Message(c) = Tbs(c) /\ Message(c) # Null
         /\ Tbs(c).alg = IF hist[c].set THEN Raw ELSE hist[c].init
         /\ Tbs(c).data = hist[c].fed \/ hist[c].dropped
<1>1. TypeInv /\ BlocksInv /\ StreamInv(c)  BY DEF IInv
<1>2. Message(c) = Tbs(c)  BY <1>1, MessageIs
<1>3. Empty # Null  BY EmptyIsContents, SigCtxAssumption
<1>4. /\ ctx[c].mdctx # Null => heap[ctx[c].mdctx] # Null
      /\ ctx[c].mddata # Null => heap[ctx[c].mddata] # Null
  BY <1>1 DEF BlocksInv, FieldInv, Fields
<1>5. Tbs(c) # Null  BY <1>3, <1>4 DEF Tbs
<1>6. Tbs(c).alg = IF hist[c].set THEN Raw ELSE hist[c].init
  BY <1>1 DEF StreamInv, Tbs, Empty
<1>7. Tbs(c).data = hist[c].fed \/ hist[c].dropped
  BY <1>1 DEF StreamInv, Tbs, Empty
<1>8. QED  BY <1>2, <1>5, <1>6, <1>7

\* Both finals.
LEMMA FinishStep ==
  ASSUME IInv, NEW c \in Ctxs, Streaming(c), Finish(c), NEW r \in CtxRecords,
         r.phase = "done", \A f \in Fields : r[f] = ctx[c][f],
         ctx' = [ctx EXCEPT ![c] = r]
  PROVE  IInv' /\ Message(c) # Null /\ Becomes(c, Null)
<1>1. /\ out' = [alg |-> Tbs(c).alg, data |-> Tbs(c).data, hist |-> hist[c]]
      /\ hist' = [hist EXCEPT ![c] = NoHist] /\ heap' = heap /\ wounded' = wounded
      /\ TypeInv /\ BlocksInv /\ PhaseInv(c)
  BY DEF Finish, IInv
<1>2. /\ ctx' \in [Ctxs -> CtxRecords] /\ heap' \in [Blocks -> Contents \cup {Null}]
      /\ BlocksInv' /\ ctx'[c] = r
      /\ \A d \in Ctxs \ {c} : SameCtx(d)
  BY ZenonT(40), <1>1, SameBlocks
<1>3. /\ hist' \in [Ctxs -> Hists] /\ \A d \in Ctxs \ {c} : hist'[d] = hist[d]
  BY <1>1, Idles DEF TypeInv
<1>4. ~Streaming(c)'  BY <1>2 DEF Streaming
<1>5. StreamInv(c)' /\ LockInv(c)' /\ Message(c)' = Null  BY <1>4, NotStreaming
<1>6. PhaseInv(c)'  BY <1>1, <1>2 DEF PhaseInv, Fields
<1>7. CoversUpdates'
  <2>1. out'.data = Tbs(c).data /\ out'.hist = hist[c]  BY <1>1
  <2>2. QED  BY <2>1, StreamHasMessage DEF CoversUpdates
<1>8. HashedAsInitialised'
  <2>1. out'.alg = Tbs(c).alg /\ out'.hist = hist[c]  BY <1>1
  <2>2. QED  BY <2>1, StreamHasMessage DEF HashedAsInitialised
<1>9. QED
  BY <1>2, <1>3, <1>5, <1>6, <1>7, <1>8, StepOn, StreamHasMessage DEF Becomes

LEMMA FinalSteps ==
  ASSUME IInv, NEW c \in Ctxs, DigestSignFinal(c) \/ DigestVerifyFinal(c)
  PROVE  IInv' /\ Message(c) # Null /\ Becomes(c, Null)
<1>1. ctx[c] \in CtxRecords  BY DEF IInv, TypeInv
<1>2. CASE DigestSignFinal(c)
  <2> DEFINE r == [ctx[c] EXCEPT !.flag_allow_md = 1, !.phase = "done"]
  <2>1. /\ r \in CtxRecords /\ r.phase = "done"
        /\ \A f \in Fields : r[f] = ctx[c][f]
    BY <1>1 DEF CtxRecords, Phases, Fields
  <2>2. ctx' = [ctx EXCEPT ![c] = r] /\ Streaming(c) /\ Finish(c)
    BY <1>2 DEF DigestSignFinal, Streaming, IInv, TypeInv
  <2> HIDE DEF r
  <2>3. QED  BY <2>1, <2>2, FinishStep
<1>3. CASE DigestVerifyFinal(c)
  <2> DEFINE r == [ctx[c] EXCEPT !.phase = "done",
                     !.flag_allow_md = IF ctx[c].mdctx # Null THEN 1 ELSE @]
  <2>1. /\ r \in CtxRecords /\ r.phase = "done"
        /\ \A f \in Fields : r[f] = ctx[c][f]
    BY <1>1 DEF CtxRecords, Phases, Fields
  <2>2. ctx' = [ctx EXCEPT ![c] = r] /\ Streaming(c) /\ Finish(c)
    BY <1>3 DEF DigestVerifyFinal, Streaming, IInv, TypeInv
  <2> HIDE DEF r
  <2>3. QED  BY <2>1, <2>2, FinishStep
<1>4. QED  BY <1>2, <1>3

\* A digest can be set while the lock is open; what was hashed is dropped.
LEMMA SetMdStep ==
  ASSUME IInv, NEW c \in Ctxs, NEW m \in Digests, SetMd(c, m)
  PROVE  IInv' /\ (Becomes(c, Message(c)) \/ Becomes(c, Empty))
<1> DEFINE r == SetupMd(ctx[c], m)
           gone == ctx[c].mdctx # Null /\ hist[c].fed # <<>>
           h == [hist[c] EXCEPT !.set = TRUE, !.dropped = @ \/ gone]
           F == {"mdctx", "aid"}
<1>1. /\ ctx[c].phase \in Ops /\ ctx[c].flag_allow_md = 1
      /\ ctx' = [ctx EXCEPT ![c] = Pointing(r, c, MdBlocks)]
      /\ heap' = Rewrite(c, F, MdBlocks)
      /\ hist' = [hist EXCEPT ![c] = h] /\ out' = Null /\ wounded' = wounded
      /\ TypeInv /\ BlocksInv /\ PhaseInv(c) /\ StreamInv(c) /\ LockInv(c)
  BY DEF SetMd, IInv, TypeInv
<1>2. ctx[c] \in CtxRecords /\ hist[c] \in Hists /\ hist \in [Ctxs -> Hists]
  BY <1>1 DEF TypeInv
<1>3. /\ h \in Hists /\ h.set = TRUE /\ h.dropped = (hist[c].dropped \/ gone)
      /\ h.fed = hist[c].fed /\ h.init = hist[c].init /\ h.queried = hist[c].queried
  <2>1. (hist[c].dropped \/ gone) \in BOOLEAN  BY <1>2 DEF Hists
  <2> DEFINE z == hist[c].dropped \/ gone
  <2>2. h = [hist[c] EXCEPT !.set = TRUE, !.dropped = z]  OBVIOUS
  <2>3. z \in BOOLEAN  BY <2>1
  <2> HIDE DEF z, h
  <2>4. /\ h \in Hists /\ h.set = TRUE /\ h.dropped = z
        /\ h.fed = hist[c].fed /\ h.init = hist[c].init /\ h.queried = hist[c].queried
    BY <1>2, <2>2, <2>3 DEF Hists
  <2>5. QED  BY <2>4 DEF z
<1>4. /\ r \in CtxRecords /\ r.phase = ctx[c].phase /\ r.flag_allow_md = 1 /\ r.mdctx = Null
      /\ \A f \in Fields \ {"mdctx"} : r[f] = ctx[c][f]
  BY <1>1, <1>2 DEF SetupMd, CtxRecords, Fields
<1>5. DOMAIN MdBlocks = {"aid"} /\ \A f \in DOMAIN MdBlocks : MdBlocks[f] \in Contents
  BY EmptyIsContents DEF MdBlocks
<1> HIDE DEF r, h
<1>6. Rewritable(c, F, MdBlocks)  BY <1>5 DEF Rewritable, Fields
<1>7. Repoints(c, F, MdBlocks, r)
  <2>1. \A f \in Fields \ {"aid"} : r[f] = IF f \in F THEN Null ELSE ctx[c][f]
    BY <1>4 DEF Fields
  <2>2. QED  BY <1>1, <1>4, <1>5, <2>1 DEF Repoints
<1>8. Repointed(c, F, MdBlocks, r)  BY <1>1, <1>6, <1>7, RewriteStep
<1>9. /\ ctx'[c].phase = ctx[c].phase /\ ctx'[c].flag_allow_md = 1 /\ ctx'[c].mdctx = Null
      /\ ctx'[c].mddata = ctx[c].mddata
      /\ \A b \in Own(c, "mddata") : heap'[b] = heap[b]
  BY <1>4, <1>5, <1>8 DEF Repointed, Fields
<1>10. ctx[c].mddata # Null => heap'[ctx[c].mddata] = heap[ctx[c].mddata]
  BY <1>1, <1>9 DEF BlocksInv, FieldInv, Fields
<1>11. hist' \in [Ctxs -> Hists] /\ hist'[c] = h /\ \A d \in Ctxs \ {c} : hist'[d] = hist[d]
  BY <1>1, <1>2, <1>3
<1>12. StreamInv(c)'
  <2>1. CASE ~Streaming(c)  BY <2>1, <1>9 DEF StreamInv, Streaming
  <2>2. CASE Streaming(c) /\ ctx[c].mddata # Null
    BY ZenonT(40), <2>2, <1>1, <1>3, <1>9, <1>10, <1>11 DEF StreamInv
  <2>3. CASE Streaming(c) /\ ctx[c].mddata = Null
    BY <2>3, <1>1, <1>3, <1>9, <1>11 DEF StreamInv
  <2>4. QED  BY <2>1, <2>2, <2>3
<1>13. LockInv(c)'  BY <1>1, <1>3, <1>9, <1>11 DEF LockInv, Streaming
<1>14. PhaseInv(c)'  BY <1>1, <1>9 DEF PhaseInv, Ops
<1>15. Message(c)' = Message(c) \/ Message(c)' = Empty
  <2>1. BlocksInv'  BY <1>8 DEF Repointed
  <2>2. CASE ~Streaming(c)  BY <2>2, <1>9 DEF Message, Streaming
  <2>3. CASE Streaming(c) /\ ctx[c].mddata = Null
    BY <2>1, <2>3, <1>9, MessageBecomes DEF Streaming, Tbs, Empty
  <2>4. CASE Streaming(c) /\ ctx[c].mddata # Null
    <3>1. ctx[c].mdctx = Null  BY <2>4, <1>1 DEF PhaseInv
    <3>2. Tbs(c)' = Tbs(c)  BY <2>4, <3>1, <1>9, <1>10 DEF Tbs
    <3>3. QED  BY <2>1, <2>4, <3>2, <1>1, <1>9, MessageIs, MessageBecomes DEF Streaming
  <2>5. QED  BY <2>2, <2>3, <2>4
<1>16. QED
  BY <1>1, <1>8, <1>11, <1>12, <1>13, <1>14, <1>15, StepOn DEF Becomes, Repointed

LEMMA GetAidStep ==
  ASSUME IInv, NEW c \in Ctxs, GetAid(c)
  PROVE  IInv' /\ Becomes(c, Message(c))
<1> DEFINE new == [aid |-> Empty]
<1>1. /\ ctx[c].phase \in Ops \cup {"done"} /\ ctx[c].aid = Null
      /\ ctx' = [ctx EXCEPT ![c] = Pointing(ctx[c], c, new)]
      /\ heap' = Rewrite(c, {}, new) /\ hist' = hist /\ out' = Null /\ wounded' = wounded
      /\ TypeInv /\ BlocksInv /\ PhaseInv(c) /\ StreamInv(c) /\ LockInv(c)
  BY DEF GetAid, IInv, TypeInv
<1>2. ctx[c] \in CtxRecords  BY <1>1 DEF TypeInv
<1>3. DOMAIN new = {"aid"} /\ \A f \in DOMAIN new : new[f] \in Contents
  BY EmptyIsContents
<1> HIDE DEF new
<1>4. Rewritable(c, {}, new)  BY <1>1, <1>3 DEF Rewritable, Fields
<1>5. Repoints(c, {}, new, ctx[c])  BY <1>1, <1>2 DEF Repoints
<1>6. Repointed(c, {}, new, ctx[c])  BY <1>1, <1>4, <1>5, RewriteStep
<1>7. SameStream(c)  BY <1>1, <1>3, <1>6 DEF Repointed, SameStream, Fields
<1>8. StreamInv(c)' /\ Message(c)' = Message(c)  BY <1>1, <1>7, SameStreamKeeps
<1>9. PhaseInv(c)' /\ LockInv(c)'
  BY <1>1, <1>3, <1>6, <1>7 DEF Repointed, SameStream, PhaseInv, LockInv, Streaming, Ops
<1>10. QED
  BY <1>1, <1>6, <1>8, <1>9, StepOn DEF Becomes, Repointed, TypeInv

-----------------------------------------------------------------------------
(* The invariant and the steps of the message streams.                     *)

LEMMA InitHolds == Init => IInv
<1> SUFFICES ASSUME Init PROVE IInv
  OBVIOUS
<1>1. /\ ctx = [c \in Ctxs |-> NoCtx] /\ heap = [b \in Blocks |-> Null]
      /\ hist = [c \in Ctxs |-> NoHist] /\ out = Null
  BY DEF Init
<1>2. TypeInv  BY <1>1, Idles DEF TypeInv
<1>3. BlocksInv
  <2>1. ASSUME NEW c \in Ctxs, NEW f \in Fields  PROVE FieldInv(c, f)
    <3>1. ctx[c][f] = Null  BY <1>1, Idles
    <3>2. \A b \in Own(c, f) : heap[b] = Null  BY <1>1, BlockNames
    <3>3. QED  BY <3>1, <3>2 DEF FieldInv
  <2>2. QED  BY <2>1 DEF BlocksInv
<1>4. ASSUME NEW c \in Ctxs  PROVE PhaseInv(c) /\ StreamInv(c) /\ LockInv(c)
  <2>1. ctx[c] = NoCtx /\ hist[c] = NoHist  BY <1>1
  <2>2. PhaseInv(c)  BY <2>1, Idles DEF PhaseInv, NoCtx
  <2>3. ~Streaming(c)  BY <2>1, Idles DEF Streaming
  <2>4. QED  BY <2>2, <2>3 DEF StreamInv, LockInv
<1>5. QED  BY <1>1, <1>2, <1>3, <1>4 DEF IInv, CoversUpdates, HashedAsInitialised

\* What a step does to the messages.
MessagesStep ==
  \/ \A c \in Ctxs : Message(c)' = Message(c)
  \/ \E c \in Ctxs :
       \/ \E a \in Algs : Becomes(c, [alg |-> a, data |-> <<>>])
       \/ Message(c) # Null /\ \E x \in Chunks : Becomes(c, With(Message(c), x))
       \/ Message(c) # Null /\ Becomes(c, Null)
       \/ \E d \in Ctxs : Message(c) # Null /\ Message(d) = Null /\ Becomes(d, Message(c))

LEMMA NextKeeps == IInv /\ Next => IInv' /\ MessagesStep
<1> SUFFICES ASSUME IInv, Next PROVE IInv' /\ MessagesStep
  OBVIOUS
<1> DEFINE Quiet(c) == Becomes(c, Message(c))
<1>a. ASSUME NEW c \in Ctxs, Quiet(c)  PROVE MessagesStep
  BY <1>a DEF MessagesStep, Becomes
<1>b. ASSUME NEW c \in Ctxs, NEW a \in Algs, Becomes(c, [alg |-> a, data |-> <<>>])
      PROVE  MessagesStep
  BY <1>b DEF MessagesStep
<1>c. ASSUME NEW c \in Ctxs, Becomes(c, Null)  PROVE MessagesStep
  BY <1>c DEF MessagesStep, Becomes
<1>d. ASSUME NEW c \in Ctxs, NEW x \in Chunks, Message(c) # Null,
             Becomes(c, With(Message(c), x))
      PROVE  MessagesStep
  BY <1>d DEF MessagesStep
<1> PICK c \in Ctxs :
      \/ NewCtx(c) \/ FreeCtx(c) \/ DigestInitFails(c) \/ CollectUpdateFails(c)
      \/ \E d \in Ctxs : DupCtx(c, d)
      \/ \E f \in Fields : DupFails(c, f)
      \/ \E held \in SUBSET {"priv", "pub"} :
           \/ \E op \in {"sign", "verify"} : SigInit(c, op, held)
           \/ \E op \in {"dsign", "dverify"}, m \in Algs : DigestInit(c, op, held, m)
      \/ \E x \in Chunks : HashUpdate(c, x) \/ CollectUpdate(c, x)
      \/ SizeQuery(c) \/ DigestSignFinal(c) \/ DigestVerifyFinal(c)
      \/ \E m \in Digests : SetMd(c, m)
      \/ GetAid(c)
  BY DEF Next
<1>1. CASE NewCtx(c)  BY <1>1, <1>a, NewCtxStep
<1>2. CASE FreeCtx(c)  BY <1>2, <1>c, FreeCtxStep
<1>3. CASE DigestInitFails(c)  BY <1>3, <1>a, DigestInitFailsStep
<1>4. CASE CollectUpdateFails(c)  BY <1>4, <1>a, CollectUpdateFailsStep
<1>5. ASSUME NEW d \in Ctxs, DupCtx(c, d)  PROVE IInv' /\ MessagesStep
  <2>1. IInv' /\ Message(d) = Null /\ Becomes(d, Message(c))  BY <1>5, DupCtxStep
  <2>2. CASE Message(c) = Null  BY <2>1, <2>2, <1>a
  <2>3. CASE Message(c) # Null  BY <2>1, <2>3 DEF MessagesStep
  <2>4. QED  BY <2>1, <2>2, <2>3
<1>6. ASSUME NEW f \in Fields, DupFails(c, f)  PROVE IInv' /\ MessagesStep
  BY <1>6, <1>a, DupFailsStep
<1>7. ASSUME NEW held, NEW op \in {"sign", "verify"}, SigInit(c, op, held)
      PROVE  IInv' /\ MessagesStep
  BY <1>7, <1>a, SigInitStep
<1>8. ASSUME NEW held, NEW op \in {"dsign", "dverify"}, NEW m \in Algs, DigestInit(c, op, held, m)
      PROVE  IInv' /\ MessagesStep
  BY <1>8, <1>a, <1>b, DigestInitStep
<1>9. ASSUME NEW x \in Chunks, HashUpdate(c, x)  PROVE IInv' /\ MessagesStep
  BY <1>9, <1>d, HashUpdateStep
<1>10. ASSUME NEW x \in Chunks, CollectUpdate(c, x)  PROVE IInv' /\ MessagesStep
  BY <1>10, <1>d, CollectUpdateStep
<1>11. CASE SizeQuery(c)  BY <1>11, <1>a, SizeQueryStep
<1>12. CASE DigestSignFinal(c) \/ DigestVerifyFinal(c)  BY <1>12, <1>c, FinalSteps
<1>13. ASSUME NEW m \in Digests, SetMd(c, m)  PROVE IInv' /\ MessagesStep
  <2>1. Empty = [alg |-> Raw, data |-> <<>>] /\ Raw \in Algs  BY DEF Empty, Algs
  <2>2. QED  BY <1>13, <1>a, <1>b, <2>1, SetMdStep
<1>14. CASE GetAid(c)  BY <1>14, <1>a, GetAidStep
<1>15. QED
  BY <1>1, <1>2, <1>3, <1>4, <1>5, <1>6, <1>7, <1>8, <1>9, <1>10, <1>11, <1>12, <1>13, <1>14

LEMMA StutterKeeps == IInv /\ UNCHANGED vars => IInv' /\ MessagesStep
<1> SUFFICES ASSUME IInv, UNCHANGED vars PROVE IInv' /\ MessagesStep
  OBVIOUS
<1>1. ctx' = ctx /\ heap' = heap /\ hist' = hist /\ wounded' = wounded /\ out' = out
  BY DEF vars
<1>2. TypeInv /\ BlocksInv /\ CoversUpdates /\ HashedAsInitialised  BY DEF IInv
<1>3. \A c \in Ctxs, f \in Fields : Kept(c, f)  BY <1>1 DEF Kept
<1>4. BlocksInv'  BY <1>1, <1>2, <1>3, FieldStep DEF BlocksInv
<1>5. ASSUME NEW c \in Ctxs
      PROVE  PhaseInv(c)' /\ StreamInv(c)' /\ LockInv(c)' /\ Message(c)' = Message(c)
  <2>1. SameCtx(c) /\ hist'[c] = hist[c]  BY <1>1 DEF SameCtx
  <2>2. QED  BY <2>1, <1>2, SameCtxKeeps DEF IInv
<1>6. TypeInv'  BY <1>1, <1>2 DEF TypeInv
<1>7. CoversUpdates' /\ HashedAsInitialised'
  BY <1>1, <1>2 DEF CoversUpdates, HashedAsInitialised
<1>8. IInv'  BY <1>4, <1>5, <1>6, <1>7 DEF IInv
<1>9. QED  BY <1>5, <1>8 DEF MessagesStep

\* The blocks, the message and the digest lock of every context are always in
\* order, whatever calls are made on which of the contexts.
THEOREM SigInvariant == Spec => []IInv
<1>1. Init => IInv  BY InitHolds
<1>2. IInv /\ [Next]_vars => IInv'  BY NextKeeps, StutterKeeps
<1>3. QED  BY <1>1, <1>2, PTL DEF Spec

\* Every pointer of a context leads to a block of its own, allocated, but for
\* those a failed dupctx freed: freectx, the finals, updates and set_ctx_params
\* never use the block of another context.
THEOREM OwnBuffersHolds == Spec => []OwnBuffers
<1>1. IInv => OwnBuffers
  <2> SUFFICES ASSUME IInv, NEW c \in Ctxs, NEW f \in Fields, ctx[c][f] # Null
      PROVE  /\ \A d \in Ctxs, g \in Fields : ctx[d][g] = ctx[c][f] => d = c /\ g = f
             /\ heap[ctx[c][f]] # Null \/ (c \in wounded /\ f \in {"aid", "propq"})
    BY DEF OwnBuffers
  <2>1. \A d \in Ctxs, g \in Fields : ctx[d][g] \in Own(d, g) \cup {Null}
    BY DEF IInv, BlocksInv, FieldInv
  <2>2. QED  BY <2>1, BlockNames DEF IInv, BlocksInv, FieldInv
<1>2. QED  BY <1>1, SigInvariant, PTL

\* No block of a context is lost: what no pointer leads to was freed.
THEOREM NoLeakHolds == Spec => []NoLeak
<1>1. IInv => NoLeak
  <2> SUFFICES ASSUME IInv, NEW b \in Blocks, heap[b] # Null  PROVE Referenced(b)
    BY DEF NoLeak
  <2>1. ctx[b[1]][b[2]] = b  BY BlockNames DEF IInv, BlocksInv, FieldInv
  <2>2. QED  BY <2>1, BlockNames DEF Referenced
<1>2. QED  BY <1>1, SigInvariant, PTL

\* A signature covers all updates since the initialisation, in order, unless a
\* change of digest threw what was hashed away.
THEOREM CoversUpdatesHolds == Spec => []CoversUpdates
<1>1. IInv => CoversUpdates  BY DEF IInv
<1>2. QED  BY <1>1, SigInvariant, PTL

\* What is signed was hashed with the digest of the initialisation, and is not
\* hashed at all after a digest was set.
THEOREM HashedAsInitialisedHolds == Spec => []HashedAsInitialised
<1>1. IInv => HashedAsInitialised  BY DEF IInv
<1>2. QED  BY <1>1, SigInvariant, PTL

-----------------------------------------------------------------------------
(* The digest lock.                                                        *)

LEMMA PointingMd ==
  ASSUME NEW r \in CtxRecords, NEW c, NEW new, DOMAIN new \subseteq Fields
  PROVE  Pointing(r, c, new).md = r.md
BY FieldTypes DEF Pointing, Fields

\* The digest of a context changes in one that is made, freed, a new copy, or
\* begins an operation, and in a set_ctx_params that finds the lock open.
LEMMA MdChanges ==
  ASSUME IInv, Next, NEW e \in Ctxs, ctx'[e].md # ctx[e].md
  PROVE  \/ ctx[e].phase \in {"none", "new"} \/ ctx'[e].phase = "none"
         \/ ctx[e].flag_allow_md = 1
<1>1. TypeInv /\ ctx \in [Ctxs -> CtxRecords] /\ \A c \in Ctxs : ctx[c] \in CtxRecords
  BY DEF IInv, TypeInv
<1>2. DOMAIN [aid |-> Empty] = {"aid"}  OBVIOUS
<1> PICK c \in Ctxs :
      \/ NewCtx(c) \/ FreeCtx(c) \/ DigestInitFails(c) \/ CollectUpdateFails(c)
      \/ \E d \in Ctxs : DupCtx(c, d)
      \/ \E f \in Fields : DupFails(c, f)
      \/ \E held \in SUBSET {"priv", "pub"} :
           \/ \E op \in {"sign", "verify"} : SigInit(c, op, held)
           \/ \E op \in {"dsign", "dverify"}, m \in Algs : DigestInit(c, op, held, m)
      \/ \E x \in Chunks : HashUpdate(c, x) \/ CollectUpdate(c, x)
      \/ SizeQuery(c) \/ DigestSignFinal(c) \/ DigestVerifyFinal(c)
      \/ \E m \in Digests : SetMd(c, m)
      \/ GetAid(c)
  BY DEF Next
<1>3. CASE NewCtx(c)  BY <1>3, <1>1 DEF NewCtx
<1>4. CASE FreeCtx(c)  BY <1>4, <1>1, Idles DEF FreeCtx
<1>5. CASE DigestInitFails(c)  BY <1>5, <1>1 DEF DigestInitFails
<1>6. CASE CollectUpdateFails(c)  BY <1>6, <1>1 DEF CollectUpdateFails, CtxRecords
<1>7. ASSUME NEW d \in Ctxs, DupCtx(c, d)  PROVE ctx[e].phase = "none"
  BY <1>7, <1>1 DEF DupCtx
<1>8. ASSUME NEW f \in Fields, DupFails(c, f)  PROVE FALSE
  BY <1>8 DEF DupFails
<1>9. ASSUME NEW held, NEW op, SigInit(c, op, held)  PROVE ctx[e].phase = "new"
  BY <1>9, <1>1 DEF SigInit
<1>10. ASSUME NEW held, NEW op, NEW m, DigestInit(c, op, held, m)  PROVE ctx[e].phase = "new"
  BY <1>10, <1>1 DEF DigestInit
<1>11. ASSUME NEW x, HashUpdate(c, x)  PROVE FALSE
  BY <1>11, <1>1 DEF HashUpdate, CtxRecords
<1>12. ASSUME NEW x, CollectUpdate(c, x)  PROVE FALSE
  <2> DEFINE r == [ctx[c] EXCEPT !.flag_allow_md = 0]
  <2>1. PICK new : /\ DOMAIN new = {"mddata"}
                   /\ ctx' = [ctx EXCEPT ![c] = Pointing(r, c, new)]
    <3> DEFINE old == IF ctx[c].mddata = Null THEN <<>> ELSE heap[ctx[c].mddata].data
               new == [mddata |-> [alg |-> Raw, data |-> Append(old, x)]]
    <3>1. ctx' = [ctx EXCEPT ![c] = Pointing(r, c, new)]
      BY <1>12, <1>1 DEF CollectUpdate
    <3>2. DOMAIN new = {"mddata"}  OBVIOUS
    <3>3. QED  BY <3>1, <3>2
  <2>2. r \in CtxRecords /\ r.md = ctx[c].md  BY <1>1 DEF CtxRecords
  <2> HIDE DEF r
  <2>3. Pointing(r, c, new).md = ctx[c].md
    <3>1. DOMAIN new \subseteq Fields  BY <2>1 DEF Fields
    <3>2. QED  BY <3>1, <2>2, PointingMd
  <2>4. QED  BY <1>1, <2>1, <2>3
<1>13. CASE SizeQuery(c)  BY <1>13, <1>1 DEF SizeQuery, CtxRecords
<1>14. CASE DigestSignFinal(c)  BY <1>14, <1>1 DEF DigestSignFinal, CtxRecords
<1>15. CASE DigestVerifyFinal(c)  BY <1>15, <1>1 DEF DigestVerifyFinal, CtxRecords
<1>16. ASSUME NEW m, SetMd(c, m)  PROVE ctx[e].flag_allow_md = 1
  BY <1>16, <1>1 DEF SetMd
<1>17. CASE GetAid(c)
  <2>1. ctx' = [ctx EXCEPT ![c] = Pointing(ctx[c], c, [aid |-> Empty])]
    BY <1>17, <1>1 DEF GetAid
  <2>2. Pointing(ctx[c], c, [aid |-> Empty]).md = ctx[c].md
    BY <1>1, <1>2, PointingMd DEF Fields
  <2>3. QED  BY <1>1, <2>1, <2>2
<1>18. QED
  BY <1>3, <1>4, <1>5, <1>6, <1>7, <1>8, <1>9, <1>10, <1>11, <1>12, <1>13, <1>14, <1>15,
     <1>16, <1>17

\* Between an update and the next size query no call changes the digest.
THEOREM MdFrozenHolds == Spec => MdFrozenAfterUpdate
<1> DEFINE Frozen == \A c \in Ctxs :
      (Streaming(c) /\ hist[c].fed # <<>> /\ ~hist[c].queried /\ ctx'[c].phase # "none") =>
        ctx'[c].md = ctx[c].md
<1>1. IInv /\ [Next]_vars => [Frozen]_vars
  <2> SUFFICES ASSUME IInv, Next, NEW c \in Ctxs, Streaming(c), hist[c].fed # <<>>,
                      ~hist[c].queried, ctx'[c].phase # "none"
               PROVE  ctx'[c].md = ctx[c].md
    OBVIOUS
  <2>1. ctx[c].flag_allow_md = 0  BY DEF IInv, LockInv
  <2>2. ctx[c].phase \notin {"none", "new"}  BY DEF Streaming
  <2>3. QED  BY <2>1, <2>2, MdChanges
<1>2. QED  BY <1>1, SigInvariant, PTL DEF Spec, MdFrozenAfterUpdate

-----------------------------------------------------------------------------
(* The refinement of SigStream.                                            *)

Messages == [c \in Ctxs |-> Message(c)]

LEMMA BecomesMaps ==
  ASSUME NEW c \in Ctxs, NEW m, Becomes(c, m)
  PROVE  Messages' = [Messages EXCEPT ![c] = m]
BY DEF Becomes, Messages

LEMMA StreamStep == MessagesStep => [Stream!StreamNext]_Messages
<1> SUFFICES ASSUME MessagesStep PROVE [Stream!StreamNext]_Messages
  OBVIOUS
<1>1. CASE \A c \in Ctxs : Message(c)' = Message(c)  BY <1>1 DEF Messages
<1>2. \A c \in Ctxs : Messages[c] = Message(c)  BY DEF Messages
<1>3. ASSUME NEW c \in Ctxs, NEW a \in Algs, Becomes(c, [alg |-> a, data |-> <<>>])
      PROVE  Stream!Start(c)
  BY <1>3, BecomesMaps DEF Stream!Start, Messages
<1>4. ASSUME NEW c \in Ctxs, NEW x \in Chunks, Message(c) # Null,
             Becomes(c, With(Message(c), x))
      PROVE  Stream!Append1(c)
  <2>1. Messages' = [Messages EXCEPT ![c] = With(Messages[c], x)]
    BY <1>2, <1>4, BecomesMaps
  <2>2. Messages' = [Messages EXCEPT ![c].data = Append(@, x)]
    BY <2>1, Zenon DEF With
  <2>3. QED  BY <1>2, <1>4, <2>2 DEF Stream!Append1, Messages
<1>5. ASSUME NEW c \in Ctxs, Message(c) # Null, Becomes(c, Null)
      PROVE  Stream!End(c)
  BY <1>2, <1>5, BecomesMaps DEF Stream!End, Messages
<1>6. ASSUME NEW c \in Ctxs, NEW d \in Ctxs, Message(c) # Null, Message(d) = Null,
             Becomes(d, Message(c))
      PROVE  Stream!Copy(c, d)
  BY <1>2, <1>6, BecomesMaps DEF Stream!Copy, Messages
<1>7. QED
  BY <1>1, <1>3, <1>4, <1>5, <1>6 DEF MessagesStep, Stream!StreamNext

\* Contexts are independent message streams: the shared, copied and reallocated
\* blocks never let a call on one change what another one has.
THEOREM StreamRefinementHolds == Spec => StreamRefinement
<1>1. Init => Stream!StreamInit
  <2> SUFFICES ASSUME Init PROVE Stream!StreamInit
    OBVIOUS
  <2>1. \A c \in Ctxs : Message(c) = Null
    BY Idles DEF Init, Message, Streaming
  <2>2. QED  BY <2>1 DEF Stream!StreamInit
<1>2. IInv /\ [Next]_vars => [Stream!StreamNext]_Messages
  BY NextKeeps, StutterKeeps, StreamStep
<1>3. QED
  BY <1>1, <1>2, SigInvariant, PTL DEF Spec, StreamRefinement, Stream!StreamSpec, Messages


-----------------------------------------------------------------------------
(* Signing and verifying a message.                                         *)

OnKeys(f) == f = [k \in Keys |-> f[k]]
OnRuns(f) == f = [r \in Runs |-> f[r]]
IsBytes(x) == x = [i \in DOMAIN x |-> x[i]]

SomeParts == {{"priv"}, {"pub"}, {"priv", "pub"}}

(* A key object is as generation makes it, with some of its halves.         *)
KeyOk(ky, id) ==
  \/ ky = Unused
  \/ ky.ty \in Types /\ id \in Ids /\ \E parts \in SomeParts : ky = MadeKey(ky.ty, id, parts)

(* The bytes of a signature, part by part.                                  *)
SigCell(id, m, r, cn, qn, i) ==
  IF i < SizeOfUint32 THEN <<"len", cn, i>>
  ELSE IF i < SizeOfUint32 + cn THEN <<<<"csig", id, m, r, cn>>, i - SizeOfUint32>>
  ELSE <<<<"qsig", id, m, r, qn>>, i - (SizeOfUint32 + cn)>>

SigBytes(ty, id, m, r, cn, qn) ==
  IF Hybrid(ty)
  THEN [i \in 0 .. (SizeOfUint32 + cn + qn) - 1 |-> SigCell(id, m, r, cn, qn, i)]
  ELSE OqsSig(id, m, r, qn)

SigOk(x, r) ==
  \/ x = NoSig
  \/ /\ x.ty \in Types /\ x.id \in Ids
     /\ \E cn \in 1 .. CSig, qn \in 1 .. QSig :
          x.bytes = SigBytes(x.ty, x.id, x.msg, r, cn, qn)

(* What arrives for a hybrid key says how long its classical part is.       *)
BytesOk(ty, b) ==
  /\ IsBytes(b) /\ DOMAIN b \subseteq Nat
  /\ Hybrid(ty) => 0 \in DOMAIN b /\ \E n \in 1 .. CSig : b[0] = <<"len", n, 0>>

(* What verification looks at: both parts, by the one pair of the key.      *)
Passes(ty, id, m, b) ==
  IF Hybrid(ty)
  THEN /\ ClassicVerifies(id, m, Slice(b, SizeOfUint32, DecodeUint32(b)))
       /\ OqsVerifies(id, m, From(b, OqsOffset(DecodeUint32(b))))
  ELSE OqsVerifies(id, m, b)

(* The classical part ends before the bytes do.                             *)
ClassicInside(b) == 0 .. SizeOfUint32 + DecodeUint32(b) - 1 \subseteq DOMAIN b

OutOk(x) ==
  \/ x = NoSig
  \/ /\ x.ty \in Types /\ x.id \in Ids /\ BytesOk(x.ty, x.bytes)
     /\ Hybrid(x.ty) => ClassicInside(x.bytes)
     /\ x.ok = Passes(x.ty, x.id, x.msg, x.bytes)

KeysInv == OnKeys(key) /\ OnKeys(of) /\ \A k \in Keys : KeyOk(key[k], of[k])
SigsInv == OnRuns(sig) /\ \A r \in Runs : SigOk(sig[r], r)
SignInv == KeysInv /\ SigsInv /\ OutOk(verdict)

-----------------------------------------------------------------------------
(* Signatures.                                                              *)

LEMMA Lengths ==
  /\ CSig \in Nat /\ CSig > 0 /\ QSig \in Nat /\ QSig > 0
  /\ SizeOfUint32 \in Nat /\ SizeOfUint32 > 0
BY SignAssumption, Sizes

(* What a hybrid key writes, and returns of it, is one part after another.  *)
LEMMA SigBuilt ==
  ASSUME NEW k \in Keys, Hybrid(key[k].ty), NEW id, OqsPriv(k) = id, NEW m, NEW r,
         NEW cn \in 1 .. CSig, NEW qn \in 1 .. QSig
  PROVE  HybridSig(k, id, m, r, cn, qn) = SigBytes(key[k].ty, id, m, r, cn, qn)
<1> DEFINE S == SizeOfUint32  M == S + CSig + QSig
           c == ClassicSig(id, m, r, cn)  q == OqsSig(id, m, r, qn)  z == Zalloc(M)
           len == [i \in 0 .. S - 1 |-> <<"len", cn, i>>]
           u == Memcpy(z, S, c)  v == Memcpy(u, 0, len)  w == Memcpy(v, S + cn, q)
           x == Slice(w, 0, (S + cn) + qn)
           D == 0 .. M - 1
<1>1. /\ S \in Nat /\ S > 0 /\ CSig \in Nat /\ QSig \in Nat /\ M \in Nat
      /\ cn \in Nat /\ qn \in Nat /\ (S + cn) + qn <= M /\ cn > 0 /\ qn > 0
  BY Lengths
<1>2. DOMAIN c = 0 .. cn - 1 /\ \A i \in 0 .. cn - 1 : c[i] = <<<<"csig", id, m, r, cn>>, i>>
  BY DEF ClassicSig, Bytes
<1>3. DOMAIN q = 0 .. qn - 1 /\ \A i \in 0 .. qn - 1 : q[i] = <<<<"qsig", id, m, r, qn>>, i>>
  BY DEF OqsSig, Bytes
<1>4. DOMAIN z = D  BY DEF Zalloc
<1>5. DOMAIN len = 0 .. S - 1 /\ \A i \in 0 .. S - 1 : len[i] = <<"len", cn, i>>  OBVIOUS
<1>6. HybridSig(k, id, m, r, cn, qn) = x
  <2>1. MaxSigLen(key[k].ty) = M  BY DEF MaxSigLen
  <2>2. EncodeUint32(u, cn) = v  BY DEF EncodeUint32
  <2>3. QED  BY <2>1, <2>2 DEF HybridSig, OqsOffset
<1> HIDE DEF S, M, c, q, z, len
<1>7. u = [i \in D |-> IF i - S \in 0 .. cn - 1 THEN c[i - S] ELSE z[i]]
  BY <1>2, <1>4 DEF Memcpy
<1>8. DOMAIN u = D /\ \A i \in D : i - S \in 0 .. cn - 1 => u[i] = c[i - S]
  BY <1>7
<1> HIDE DEF u
<1>9. v = [i \in D |-> IF i - 0 \in 0 .. S - 1 THEN len[i - 0] ELSE u[i]]
  BY <1>5, <1>8 DEF Memcpy
<1>10. DOMAIN v = D /\ \A i \in D : v[i] = IF i - 0 \in 0 .. S - 1 THEN len[i - 0] ELSE u[i]
  BY <1>9
<1> HIDE DEF v
<1>11. w = [i \in D |-> IF i - (S + cn) \in 0 .. qn - 1 THEN q[i - (S + cn)] ELSE v[i]]
  BY <1>3, <1>10 DEF Memcpy
<1>12. \A i \in D : w[i] = IF i - (S + cn) \in 0 .. qn - 1 THEN q[i - (S + cn)] ELSE v[i]
  BY <1>11
<1> HIDE DEF w
<1>13. ASSUME NEW i \in 0 .. ((S + cn) + qn) - 1
       PROVE  w[0 + i] = IF i < S THEN <<"len", cn, i>>
                         ELSE IF i < S + cn THEN <<<<"csig", id, m, r, cn>>, i - S>>
                         ELSE <<<<"qsig", id, m, r, qn>>, i - (S + cn)>>
  <2>1. i \in D /\ 0 + i = i /\ i - 0 = i  BY <1>1
  <2>2. CASE i < S
    <3>1. i - (S + cn) \notin 0 .. qn - 1 /\ i \in 0 .. S - 1  BY <1>1, <2>2
    <3>2. QED  BY <1>5, <1>10, <1>12, <2>1, <2>2, <3>1
  <2>3. CASE ~(i < S) /\ i < S + cn
    <3>1. i - (S + cn) \notin 0 .. qn - 1 /\ i \notin 0 .. S - 1 /\ i - S \in 0 .. cn - 1
      BY <1>1, <2>3
    <3>2. w[i] = c[i - S]  BY <1>8, <1>10, <1>12, <2>1, <3>1
    <3>3. QED  BY <1>2, <2>1, <2>3, <3>1, <3>2
  <2>4. CASE ~(i < S) /\ ~(i < S + cn)
    <3>1. i - (S + cn) \in 0 .. qn - 1  BY <1>1, <2>4
    <3>2. QED  BY <1>3, <1>12, <2>1, <2>4, <3>1
  <2>5. QED  BY <2>2, <2>3, <2>4
<1>14. x = [i \in 0 .. ((S + cn) + qn) - 1 |->
              IF i < S THEN <<"len", cn, i>>
              ELSE IF i < S + cn THEN <<<<"csig", id, m, r, cn>>, i - S>>
              ELSE <<<<"qsig", id, m, r, qn>>, i - (S + cn)>>]
  BY <1>13 DEF Slice
<1>15. S + cn + qn = (S + cn) + qn  BY <1>1
<1> HIDE DEF x
<1>16. QED  BY <1>6, <1>14, <1>15 DEF SigBytes, SigCell, S

(* A signature read back part by part.                                      *)
ReadsAs(b, id, m, r, cn, qn) ==
  /\ DecodeUint32(b) = cn /\ b[0] = <<"len", cn, 0>>
  /\ DOMAIN b = 0 .. ((SizeOfUint32 + cn) + qn) - 1
  /\ Slice(b, SizeOfUint32, cn) = ClassicSig(id, m, r, cn)
  /\ From(b, SizeOfUint32 + cn) = OqsSig(id, m, r, qn)

LEMMA SigRead ==
  ASSUME NEW ty, Hybrid(ty), NEW id, NEW m, NEW r,
         NEW cn \in 1 .. CSig, NEW qn \in 1 .. QSig
  PROVE  ReadsAs(SigBytes(ty, id, m, r, cn, qn), id, m, r, cn, qn)
<1> DEFINE b == SigBytes(ty, id, m, r, cn, qn)
<1> DEFINE S == SizeOfUint32  N == ((S + cn) + qn) - 1
           cs == <<"csig", id, m, r, cn>>  qs == <<"qsig", id, m, r, qn>>
<1>1. S \in Nat /\ S > 0 /\ cn \in Nat /\ cn > 0 /\ qn \in Nat /\ qn > 0  BY Lengths
<1>2. S + cn + qn = (S + cn) + qn  BY <1>1
<1>3. b = [i \in 0 .. N |-> IF i < S THEN <<"len", cn, i>>
                            ELSE IF i < S + cn THEN <<cs, i - S>> ELSE <<qs, i - (S + cn)>>]
  BY <1>2 DEF SigBytes, SigCell
<1> HIDE DEF b, S, cs, qs
<1>4. DOMAIN b = 0 .. N  BY <1>3
<1>5. b[0] = <<"len", cn, 0>>
  <2>1. 0 \in 0 .. N /\ 0 < S  BY <1>1
  <2>2. QED  BY <1>3, <2>1
<1>6. DecodeUint32(b) = cn  BY <1>5 DEF DecodeUint32
<1>7. ASSUME NEW i \in 0 .. cn - 1  PROVE b[S + i] = <<cs, i>>
  <2>1. S + i \in 0 .. N /\ ~(S + i < S) /\ S + i < S + cn /\ (S + i) - S = i  BY <1>1
  <2>2. QED  BY <1>3, <2>1
<1>8. Slice(b, S, cn) = [i \in 0 .. cn - 1 |-> <<cs, i>>]
  BY <1>7 DEF Slice
<1>9. {j - (S + cn) : j \in {d \in DOMAIN b : d >= S + cn}} = 0 .. qn - 1
  <2>1. ASSUME NEW j \in 0 .. N, j >= S + cn  PROVE j - (S + cn) \in 0 .. qn - 1
    BY <1>1, <2>1
  <2>2. ASSUME NEW i \in 0 .. qn - 1
        PROVE  \E j \in 0 .. N : j >= S + cn /\ j - (S + cn) = i
    <3>1. (S + cn) + i \in 0 .. N /\ (S + cn) + i >= S + cn /\ ((S + cn) + i) - (S + cn) = i
      BY <1>1
    <3>2. QED  BY <3>1
  <2>3. QED  BY <1>4, <2>1, <2>2
<1>10. ASSUME NEW i \in 0 .. qn - 1  PROVE b[(S + cn) + i] = <<qs, i>>
  <2>1. /\ (S + cn) + i \in 0 .. N /\ ~((S + cn) + i < S) /\ ~((S + cn) + i < S + cn)
        /\ ((S + cn) + i) - (S + cn) = i
    BY <1>1
  <2>2. QED  BY <1>3, <2>1
<1>11. From(b, S + cn) = [i \in 0 .. qn - 1 |-> <<qs, i>>]
  BY <1>9, <1>10 DEF From
<1>12. ReadsAs(b, id, m, r, cn, qn)
  BY <1>4, <1>5, <1>6, <1>8, <1>11 DEF ReadsAs, ClassicSig, OqsSig, Bytes, cs, qs, S
<1>13. QED  BY <1>12 DEF b

-----------------------------------------------------------------------------
(* Keys.                                                                    *)

(* What is to be read of a made key.                                        *)
IsMade(ky, ty, id, parts) ==
  /\ ky.ty = ty /\ ky.st = "ready"
  /\ ky.priv = IF "priv" \in parts THEN PrivLayout(ty, id) ELSE NoBuf
  /\ ky.pub = IF "pub" \in parts THEN PubLayout(ty, id) ELSE NoBuf
  /\ ky.compPriv = IF "priv" \in parts THEN CompsOf(ty, ClassLen[id]) ELSE NoComps
  /\ ky.compPub = IF "pub" \in parts THEN CompsOf(ty, CPub) ELSE NoComps
  /\ ky.pkey = IF ~Hybrid(ty) THEN {}
               ELSE IF "priv" \in parts THEN {<<"cpriv", id>>, <<"cpub", id>>}
               ELSE {<<"cpub", id>>}

LEMMA MadeFields ==
  ASSUME NEW ty, NEW id, NEW parts
  PROVE  IsMade(MadeKey(ty, id, parts), ty, id, parts)
BY DEF MadeKey, IsMade

LEMMA MadeOk ==
  ASSUME NEW ty \in Types, NEW id \in Ids, NEW parts \in SomeParts
  PROVE  KeyOk(MadeKey(ty, id, parts), id)
<1> DEFINE ky == MadeKey(ty, id, parts)
<1>1. ky.ty = ty  BY DEF MadeKey
<1>2. ky = MadeKey(ky.ty, id, parts)  BY <1>1
<1> HIDE DEF ky
<1>3. KeyOk(ky, id)  BY <1>1, <1>2 DEF KeyOk
<1>4. QED  BY <1>3 DEF ky

LEMMA UnusedFields ==
  Unused.st = "none" /\ Unused.pub = NoBuf /\ Unused.priv = NoBuf /\ Unused.ty = "none"
BY DEF Unused, OqsxKeyNew

LEMMA UsedIsMade ==
  ASSUME NEW ky, NEW id, KeyOk(ky, id),
         ky.st # "none" \/ ky.pub # NoBuf \/ ky.priv # NoBuf
  PROVE  /\ ky.ty \in Types /\ id \in Ids
         /\ \E parts \in SomeParts : ky = MadeKey(ky.ty, id, parts) /\ IsMade(ky, ky.ty, id, parts)
<1>1. ky # Unused  BY UnusedFields
<1>2. PICK parts \in SomeParts : ky = MadeKey(ky.ty, id, parts)  BY <1>1 DEF KeyOk
<1>3. IsMade(ky, ky.ty, id, parts)  BY <1>2, MadeFields
<1>4. QED  BY <1>1, <1>2, <1>3 DEF KeyOk

(* Whatever way a key is given away, what is made of it is of its pair.     *)
LEMMA CopyOk ==
  ASSUME NEW k \in Keys, NEW how \in {"params", "spki", "pki"}, NEW ky \in Copies(k, how),
         KeyOk(key[k], of[k]), key[k].st # "none"
  PROVE  KeyOk(ky, of[k])
<1> DEFINE from == key[k]  ty == from.ty  id == of[k]
<1>1. ty \in Types /\ id \in Ids  BY UsedIsMade
<1>2. PICK parts \in SomeParts : IsMade(from, ty, id, parts)  BY UsedIsMade
<1>3. /\ from.priv = IF "priv" \in parts THEN PrivLayout(ty, id) ELSE NoBuf
      /\ from.pub = IF "pub" \in parts THEN PubLayout(ty, id) ELSE NoBuf
      /\ "pub" \in parts => from.compPub = CompsOf(ty, CPub)
  BY <1>2 DEF IsMade
<1>4. ASSUME how = "params"  PROVE KeyOk(ky, id)
  <2>1. ky \in KeyFromData(ty, from.priv, from.pub)  BY <1>4 DEF Copies
  <2>2. ky = MadeKey(ty, id, parts)
    <3>1. CASE parts = {"priv"}  BY <1>1, <1>3, <2>1, <3>1, FromDataMakes
    <3>2. CASE parts = {"pub"}  BY <1>1, <1>3, <2>1, <3>2, FromDataMakes
    <3>3. CASE parts = {"priv", "pub"}  BY <1>1, <1>3, <2>1, <3>3, FromDataMakes
    <3>4. QED  BY <1>2, <3>1, <3>2, <3>3 DEF SomeParts
  <2>3. QED  BY <1>1, <2>2, MadeOk
<1>5. ASSUME how = "spki"  PROVE KeyOk(ky, id)
  <2>1. from.pub # NoBuf /\ ky \in KeyOpPublic(ty, from.pub)  BY <1>5 DEF Copies
  <2>2. from.pub = PubLayout(ty, id)  BY <1>3, <2>1
  <2>3. ky = MadeKey(ty, id, {"pub"})  BY <1>1, <2>1, <2>2, SpkiRead
  <2>4. QED  BY <1>1, <2>3, MadeOk DEF SomeParts
<1>6. ASSUME how = "pki"  PROVE KeyOk(ky, id)
  <2>1. /\ from.priv # NoBuf /\ (from.pub # NoBuf \/ NoPubInPriv)
        /\ ky \in KeyOpPrivate(ty, PkiPrivBytes(from))
    BY <1>6 DEF Copies
  <2>2. from.priv = PrivLayout(ty, id)  BY <1>3, <2>1
  <2>3. NoPubInPriv \/ (from.pub = PubLayout(ty, id) /\ from.compPub = CompsOf(ty, CPub))
    BY <1>3, <2>1
  <2>4. PkiPrivBytes(from) = PkiLayout(ty, id)  BY <1>1, <2>2, <2>3, PkiWritten
  <2>5. ky = MadeKey(ty, id, PkiParts)  BY <1>1, <2>1, <2>4, PkiRead
  <2>6. PkiParts \in SomeParts  BY DEF PkiParts, SomeParts
  <2>7. QED  BY <1>1, <2>5, <2>6, MadeOk
<1>7. QED  BY <1>4, <1>5, <1>6

LEMMA PkeyIs ==
  ASSUME NEW k, NEW id
  PROVE  /\ key[k].pkey = {<<"cpriv", id>>, <<"cpub", id>>}
              => Pkey(k, "cpriv") = {id} /\ Pkey(k, "cpub") = {id} /\ IsHybrid(k)
         /\ key[k].pkey = {<<"cpub", id>>} => Pkey(k, "cpub") = {id} /\ IsHybrid(k)
<1> DEFINE a == <<"cpriv", id>>  b == <<"cpub", id>>
<1>1. a[1] = "cpriv" /\ a[2] = id /\ b[1] = "cpub" /\ b[2] = id  OBVIOUS
<1> HIDE DEF a, b
<1>2. /\ {d \in {a, b} : d[1] = "cpriv"} = {a}
      /\ {d \in {a, b} : d[1] = "cpub"} = {b}
      /\ {d \in {b} : d[1] = "cpub"} = {b}
  BY <1>1
<1>3. {c[2] : c \in {a}} = {id} /\ {c[2] : c \in {b}} = {id}  BY <1>1
<1>4. /\ key[k].pkey = {a, b}
           => Pkey(k, "cpriv") = {id} /\ Pkey(k, "cpub") = {id} /\ IsHybrid(k)
      /\ key[k].pkey = {b} => Pkey(k, "cpub") = {id} /\ IsHybrid(k)
  BY <1>2, <1>3 DEF Pkey, IsHybrid
<1>5. QED  BY <1>4 DEF a, b

(* The keys a call finds in a key object are of its pair.                   *)
LEMMA PubFound ==
  ASSUME NEW k \in Keys, KeyOk(key[k], of[k]), key[k].pub # NoBuf
  PROVE  /\ key[k].ty \in Types /\ of[k] \in Ids /\ OqsPub(k) = of[k]
         /\ IsHybrid(k) <=> Hybrid(key[k].ty)
         /\ Hybrid(key[k].ty) => Pkey(k, "cpub") = {of[k]}
<1> DEFINE ty == key[k].ty  id == of[k]
<1>1. ty \in Types /\ id \in Ids  BY UsedIsMade
<1>2. PICK parts \in SomeParts : IsMade(key[k], ty, id, parts)  BY UsedIsMade
<1>3. key[k].pub = PubLayout(ty, id) /\ key[k].compPub = CompsOf(ty, CPub)
  BY <1>2 DEF IsMade
<1>4. Owner("qpub", Part("qpub", id)) = id  BY <1>1, OnePair
<1>5. CASE Hybrid(ty)
  <2>1. CompsOf(ty, CPub).oqs = SizeOfUint32 + CPub  BY <1>5 DEF CompsOf
  <2>2. Slice(key[k].pub, key[k].compPub.oqs, QPub) = Part("qpub", id)
    BY <1>1, <1>3, <1>5, <2>1, HybridPieces
  <2>3. key[k].pkey = {<<"cpriv", id>>, <<"cpub", id>>} \/ key[k].pkey = {<<"cpub", id>>}
    BY <1>2, <1>5 DEF IsMade
  <2>4. Pkey(k, "cpub") = {id} /\ IsHybrid(k)  BY <2>3, PkeyIs
  <2>5. QED  BY <1>1, <1>4, <1>5, <2>2, <2>4 DEF OqsPub
<1>6. CASE ~Hybrid(ty)
  <2>1. CompsOf(ty, CPub).oqs = 0  BY <1>6 DEF CompsOf
  <2>2. Slice(key[k].pub, key[k].compPub.oqs, QPub) = Part("qpub", id)
    BY <1>1, <1>3, <1>6, <2>1, PlainPieces
  <2>3. key[k].pkey = {}  BY <1>2, <1>6 DEF IsMade
  <2>4. QED  BY <1>1, <1>4, <1>6, <2>2, <2>3 DEF OqsPub, IsHybrid
<1>7. QED  BY <1>5, <1>6

LEMMA PrivFound ==
  ASSUME NEW k \in Keys, KeyOk(key[k], of[k]), key[k].priv # NoBuf
  PROVE  /\ key[k].ty \in Types /\ of[k] \in Ids /\ OqsPriv(k) = of[k]
         /\ IsHybrid(k) <=> Hybrid(key[k].ty)
         /\ Hybrid(key[k].ty) => Pkey(k, "cpriv") = {of[k]}
<1> DEFINE ty == key[k].ty  id == of[k]
<1>1. ty \in Types /\ id \in Ids  BY UsedIsMade
<1>2. PICK parts \in SomeParts : IsMade(key[k], ty, id, parts)  BY UsedIsMade
<1>3. /\ key[k].priv = PrivLayout(ty, id) /\ key[k].compPriv = CompsOf(ty, ClassLen[id])
      /\ "priv" \in parts
  BY <1>2 DEF IsMade
<1>4. Owner("qpriv", Part("qpriv", id)) = id  BY <1>1, OnePair
<1>5. CASE Hybrid(ty)
  <2>1. CompsOf(ty, ClassLen[id]).oqs = SizeOfUint32 + ClassLen[id]  BY <1>5 DEF CompsOf
  <2>2. Slice(key[k].priv, key[k].compPriv.oqs, QPriv) = Part("qpriv", id)
    BY <1>1, <1>3, <1>5, <2>1, HybridPieces
  <2>3. key[k].pkey = {<<"cpriv", id>>, <<"cpub", id>>}  BY <1>2, <1>3, <1>5 DEF IsMade
  <2>4. Pkey(k, "cpriv") = {id} /\ IsHybrid(k)  BY <2>3, PkeyIs
  <2>5. QED  BY <1>1, <1>4, <1>5, <2>2, <2>4 DEF OqsPriv
<1>6. CASE ~Hybrid(ty)
  <2>1. CompsOf(ty, ClassLen[id]).oqs = 0  BY <1>6 DEF CompsOf
  <2>2. Slice(key[k].priv, key[k].compPriv.oqs, QPriv) = Part("qpriv", id)
    BY <1>1, <1>3, <1>6, <2>1, PlainPieces
  <2>3. key[k].pkey = {}  BY <1>2, <1>6 DEF IsMade
  <2>4. QED  BY <1>1, <1>4, <1>6, <2>2, <2>3 DEF OqsPriv, IsHybrid
<1>7. QED  BY <1>5, <1>6

-----------------------------------------------------------------------------
(* What arrives.                                                            *)

LEMMA SentOk ==
  ASSUME NEW r \in Runs, NEW x, SigOk(x, r), x # NoSig
  PROVE  BytesOk(x.ty, x.bytes)
<1> DEFINE b == x.bytes
<1>1. PICK cn \in 1 .. CSig, qn \in 1 .. QSig : b = SigBytes(x.ty, x.id, x.msg, r, cn, qn)
  BY DEF SigOk
<1>2. cn \in Nat /\ qn \in Nat /\ SizeOfUint32 \in Nat  BY Lengths
<1>3. CASE Hybrid(x.ty)
  <2>1. IsBytes(b)  BY <1>1, <1>3 DEF SigBytes, IsBytes
  <2>2. DOMAIN b = 0 .. ((SizeOfUint32 + cn) + qn) - 1 /\ b[0] = <<"len", cn, 0>>
    <3>1. ReadsAs(b, x.id, x.msg, r, cn, qn)  BY <1>1, <1>3, SigRead
    <3> HIDE DEF b
    <3>2. QED  BY <3>1 DEF ReadsAs
  <2>3. DOMAIN b \subseteq Nat /\ 0 \in DOMAIN b  BY <1>2, <2>2
  <2> HIDE DEF b
  <2>4. BytesOk(x.ty, b)  BY <2>1, <2>2, <2>3 DEF BytesOk
  <2>5. QED  BY <2>4 DEF b
<1>4. CASE ~Hybrid(x.ty)
  <2>1. b = [i \in 0 .. qn - 1 |-> <<<<"qsig", x.id, x.msg, r, qn>>, i>>]
    BY <1>1, <1>4 DEF SigBytes, OqsSig, Bytes
  <2> HIDE DEF b
  <2>2. IsBytes(b) /\ DOMAIN b \subseteq Nat  BY <1>2, <2>1 DEF IsBytes
  <2>3. BytesOk(x.ty, b)  BY <1>4, <2>2 DEF BytesOk
  <2>4. QED  BY <2>3 DEF b
<1>5. QED  BY <1>3, <1>4

(* Cutting, lengthening and mixing keep the length field of the first.      *)
LEMMA ChangedOk ==
  ASSUME NEW ty, NEW x, BytesOk(ty, x)
  PROVE  /\ \A n \in Nat : \A y : n >= SizeOfUint32 /\ BytesOk(ty, y) => BytesOk(ty, Splice(x, n, y))
         /\ \A n \in Nat : n >= SizeOfUint32 => BytesOk(ty, Prefix(x, n))
         /\ \A n \in Nat : \A z : BytesOk(ty, [i \in DOMAIN x \cup {n} |->
                                                 IF i \in DOMAIN x THEN x[i] ELSE z])
<1>1. ASSUME NEW n \in Nat, NEW y, n >= SizeOfUint32, BytesOk(ty, y)
      PROVE  BytesOk(ty, Splice(x, n, y))
  <2> DEFINE D == {j \in DOMAIN x : j < n} \cup {j \in DOMAIN y : j >= n}
             s == Splice(x, n, y)
  <2>1. s = [i \in D |-> IF i < n THEN x[i] ELSE y[i]]  BY DEF Splice
  <2>2. D \subseteq Nat  BY <1>1 DEF BytesOk
  <2>3. 0 \in DOMAIN x => 0 \in D /\ 0 < n  BY <1>1, Lengths
  <2> HIDE DEF D, s
  <2>4. IsBytes(s) /\ DOMAIN s = D  BY <2>1 DEF IsBytes
  <2>5. 0 \in DOMAIN x => s[0] = x[0]  BY <2>1, <2>3
  <2>6. BytesOk(ty, s)  BY <2>2, <2>3, <2>4, <2>5 DEF BytesOk
  <2>7. QED  BY <2>6 DEF s
<1>2. ASSUME NEW n \in Nat, n >= SizeOfUint32
      PROVE  BytesOk(ty, Prefix(x, n))
  <2> DEFINE D == {j \in DOMAIN x : j < n}  s == Prefix(x, n)
  <2>1. s = [i \in D |-> x[i]]  BY DEF Prefix
  <2>2. D \subseteq Nat  BY DEF BytesOk
  <2>3. 0 \in DOMAIN x => 0 \in D  BY <1>2, Lengths
  <2> HIDE DEF D, s
  <2>4. IsBytes(s) /\ DOMAIN s = D  BY <2>1 DEF IsBytes
  <2>5. 0 \in DOMAIN x => s[0] = x[0]  BY <2>1, <2>3
  <2>6. BytesOk(ty, s)  BY <2>2, <2>3, <2>4, <2>5 DEF BytesOk
  <2>7. QED  BY <2>6 DEF s
<1>3. ASSUME NEW n \in Nat, NEW z
      PROVE  BytesOk(ty, [i \in DOMAIN x \cup {n} |-> IF i \in DOMAIN x THEN x[i] ELSE z])
  <2> DEFINE D == DOMAIN x \cup {n}
             s == [i \in D |-> IF i \in DOMAIN x THEN x[i] ELSE z]
  <2>1. s = [i \in D |-> IF i \in DOMAIN x THEN x[i] ELSE z]  OBVIOUS
  <2>2. D \subseteq Nat /\ DOMAIN x \subseteq D  BY DEF BytesOk
  <2> HIDE DEF D, s
  <2>3. IsBytes(s) /\ DOMAIN s = D  BY <2>1 DEF IsBytes
  <2>4. 0 \in DOMAIN x => 0 \in D /\ s[0] = x[0]  BY <2>1, <2>2
  <2>5. BytesOk(ty, s)  BY <2>2, <2>3, <2>4 DEF BytesOk
  <2>6. QED  BY <2>5 DEF s, D
<1>4. QED  BY <1>1, <1>2, <1>3

(* What arrives, case by case.                                              *)
Sent(ty) == {sig[r].bytes : r \in {s \in Runs : sig[s] # NoSig /\ sig[s].ty = ty}}

Lengthened(x, n) == [i \in DOMAIN x \cup {n} |-> IF i \in DOMAIN x THEN x[i] ELSE <<"zero">>]

ArrivesAs(ty, b) ==
  \/ b \in Sent(ty)
  \/ \E x \in Sent(ty), y \in Sent(ty) :
       \E n \in DOMAIN x : n >= SizeOfUint32 /\ b = Splice(x, n, y)
  \/ \E x \in Sent(ty) : \E n \in DOMAIN x : n >= SizeOfUint32 /\ b = Prefix(x, n)
  \/ \E x \in Sent(ty) : b = Lengthened(x, MaxSigLen(ty))

LEMMA ArrivingIs ==
  ASSUME NEW ty, NEW b \in Arriving(ty)
  PROVE  ArrivesAs(ty, b)
<1> DEFINE sent == {sig[r].bytes : r \in {s \in Runs : sig[s] # NoSig /\ sig[s].ty = ty}}
           Cuts(x, y) == {n \in DOMAIN x : n >= SizeOfUint32 /\ (n - 1) \in DOMAIN x}
           Mixed(x, y) == {Splice(x, n, y) : n \in Cuts(x, y)}
           CutOff(x) == {Prefix(x, n) : n \in Cuts(x, x)}
           Longer(x) == [i \in DOMAIN x \cup {MaxSigLen(ty)} |->
                           IF i \in DOMAIN x THEN x[i] ELSE <<"zero">>]
           AllMixed == UNION {Mixed(x, y) : x \in sent, y \in sent}
           AllCut == UNION {CutOff(x) : x \in sent}
           AllLonger == {Longer(x) : x \in sent}
<1>1. Arriving(ty) = sent \cup AllMixed \cup AllCut \cup AllLonger  BY DEF Arriving
<1>2. sent = Sent(ty)  BY DEF Sent
<1> HIDE DEF sent, Mixed, CutOff, Longer
<1>3. b \in AllMixed => \E x \in sent, y \in sent : b \in Mixed(x, y)  OBVIOUS
<1>4. b \in AllCut => \E x \in sent : b \in CutOff(x)  OBVIOUS
<1>5. b \in AllLonger => \E x \in sent : b = Longer(x)  OBVIOUS
<1> HIDE DEF AllMixed, AllCut, AllLonger
<1>6. \/ b \in sent \/ (\E x \in sent, y \in sent : b \in Mixed(x, y))
      \/ (\E x \in sent : b \in CutOff(x)) \/ (\E x \in sent : b = Longer(x))
  BY <1>1, <1>3, <1>4, <1>5
<1>7. \A x, y : b \in Mixed(x, y) => \E n \in DOMAIN x : n >= SizeOfUint32 /\ b = Splice(x, n, y)
  BY DEF Mixed
<1>8. \A x : b \in CutOff(x) => \E n \in DOMAIN x : n >= SizeOfUint32 /\ b = Prefix(x, n)
  BY DEF CutOff
<1>9. \A x : Longer(x) = Lengthened(x, MaxSigLen(ty))
  BY DEF Longer, Lengthened
<1>10. QED  BY <1>2, <1>6, <1>7, <1>8, <1>9 DEF ArrivesAs

LEMMA SentBytes ==
  ASSUME SigsInv, NEW ty, NEW x \in Sent(ty)
  PROVE  BytesOk(ty, x)
<1>1. PICK r \in Runs : sig[r] # NoSig /\ sig[r].ty = ty /\ x = sig[r].bytes  BY DEF Sent
<1>2. SigOk(sig[r], r)  BY DEF SigsInv
<1>3. QED  BY <1>1, <1>2, SentOk

LEMMA ArrivingOk ==
  ASSUME SigsInv, NEW ty, NEW b \in Arriving(ty)
  PROVE  BytesOk(ty, b)
<1>1. \A x \in Sent(ty) : BytesOk(ty, x)  BY SentBytes
<1>2. ArrivesAs(ty, b)  BY ArrivingIs
<1>3. MaxSigLen(ty) \in Nat  BY Lengths DEF MaxSigLen
<1>4. \A x \in Sent(ty) : DOMAIN x \subseteq Nat  BY <1>1 DEF BytesOk
<1>5. CASE b \in Sent(ty)  BY <1>1, <1>5
<1>6. ASSUME NEW x \in Sent(ty), NEW y \in Sent(ty), NEW n \in DOMAIN x, n >= SizeOfUint32,
             b = Splice(x, n, y)
      PROVE  BytesOk(ty, b)
  BY <1>1, <1>4, <1>6, ChangedOk
<1>7. ASSUME NEW x \in Sent(ty), NEW n \in DOMAIN x, n >= SizeOfUint32, b = Prefix(x, n)
      PROVE  BytesOk(ty, b)
  BY <1>1, <1>4, <1>7, ChangedOk
<1>8. ASSUME NEW x \in Sent(ty), b = Lengthened(x, MaxSigLen(ty))
      PROVE  BytesOk(ty, b)
  BY <1>1, <1>3, <1>8, ChangedOk DEF Lengthened
<1>9. QED  BY <1>2, <1>5, <1>6, <1>7, <1>8 DEF ArrivesAs

-----------------------------------------------------------------------------
(* The steps.                                                               *)

LEMMA SignInitHolds == SignInit => SignInv
<1> SUFFICES ASSUME SignInit PROVE SignInv  OBVIOUS
<1>1. OnKeys(key) /\ OnKeys(of) /\ OnRuns(sig)  BY DEF SignInit, OnKeys, OnRuns
<1>2. \A k \in Keys : KeyOk(key[k], of[k])  BY DEF SignInit, KeyOk
<1>3. \A r \in Runs : SigOk(sig[r], r)  BY DEF SignInit, SigOk
<1>4. OutOk(verdict)  BY DEF SignInit, OutOk
<1>5. QED  BY <1>1, <1>2, <1>3, <1>4 DEF SignInv, KeysInv, SigsInv

(* One key object is replaced.                                              *)
LEMMA KeyStep ==
  ASSUME SignInv, NEW k \in Keys, NEW ky, NEW id, KeyOk(ky, id),
         key' = [key EXCEPT ![k] = ky], of' = [of EXCEPT ![k] = id],
         sig' = sig, verdict' = NoSig
  PROVE  SignInv'
<1>1. /\ OnKeys(key)' /\ OnKeys(of)'
      /\ \A l \in Keys : /\ key'[l] = IF l = k THEN ky ELSE key[l]
                         /\ of'[l] = IF l = k THEN id ELSE of[l]
  BY DEF SignInv, KeysInv, OnKeys
<1>2. KeysInv'  BY <1>1 DEF SignInv, KeysInv
<1>3. SigsInv'  BY DEF SignInv, SigsInv, OnRuns
<1>4. OutOk(verdict)'  BY DEF OutOk
<1>5. QED  BY <1>2, <1>3, <1>4 DEF SignInv

LEMMA GenKeeps ==
  ASSUME SignInv, NEW k \in Keys, NEW ty \in Types, NEW id \in Ids, Gen(k, ty, id)
  PROVE  SignInv'
<1>1. KeyGen(ty, id) = MadeKey(ty, id, {"priv", "pub"})  BY KeyGenMakes
<1>2. KeyOk(KeyGen(ty, id), id)  BY <1>1, MadeOk DEF SomeParts
<1>3. QED  BY <1>2, KeyStep DEF Gen

LEMMA GiveKeeps ==
  ASSUME SignInv, NEW k \in Keys, NEW l \in Keys, NEW how \in {"params", "spki", "pki"},
         Give(k, l, how)
  PROVE  SignInv'
<1>1. PICK ky \in Copies(k, how) : key' = [key EXCEPT ![l] = ky]  BY DEF Give
<1>2. key[k].st # "none" /\ of' = [of EXCEPT ![l] = of[k]] /\ sig' = sig /\ verdict' = NoSig
  BY DEF Give
<1>3. KeyOk(ky, of[k])
  <2>1. KeyOk(key[k], of[k])  BY DEF SignInv, KeysInv
  <2>2. QED  BY <1>2, <2>1, CopyOk
<1>4. QED  BY <1>1, <1>2, <1>3, KeyStep

LEMMA FreeKeeps ==
  ASSUME SignInv, NEW k \in Keys, Free(k)
  PROVE  SignInv'
<1>1. KeyOk(Unused, Nobody)  BY DEF KeyOk
<1>2. QED  BY <1>1, KeyStep DEF Free

(* What is signed is made by both halves of the pair of the key.            *)
LEMMA SignKeeps ==
  ASSUME SignInv, NEW k \in Keys, NEW m \in Msgs, NEW r \in Runs,
         NEW cn \in 1 .. CSig, NEW qn \in 1 .. QSig, Sign(k, m, r, cn, qn)
  PROVE  SignInv'
<1> DEFINE ty == key[k].ty  id == of[k]
           made == IF IsHybrid(k) THEN {HybridSig(k, i, m, r, cn, qn) : i \in Pkey(k, "cpriv")}
                   ELSE {OqsSig(OqsPriv(k), m, r, qn)}
<1>1. /\ key[k].priv # NoBuf /\ UNCHANGED <<key, of>> /\ verdict' = NoSig
      /\ \E bytes \in made :
           sig' = [sig EXCEPT ![r] = [ty |-> ty, id |-> id, msg |-> m,
                                      bytes |-> bytes, ok |-> TRUE]]
  BY DEF Sign
<1>2. /\ ty \in Types /\ id \in Ids /\ OqsPriv(k) = id /\ (IsHybrid(k) <=> Hybrid(ty))
      /\ Hybrid(ty) => Pkey(k, "cpriv") = {id}
  BY <1>1, PrivFound DEF SignInv, KeysInv
<1>3. made = {SigBytes(ty, id, m, r, cn, qn)}
  <2>1. CASE Hybrid(ty)
    <3>1. HybridSig(k, id, m, r, cn, qn) = SigBytes(ty, id, m, r, cn, qn)
      BY <1>2, <2>1, SigBuilt
    <3>2. made = {HybridSig(k, i, m, r, cn, qn) : i \in {id}}  BY <1>2, <2>1
    <3>3. QED  BY <3>1, <3>2
  <2>2. CASE ~Hybrid(ty)  BY <1>2, <2>2 DEF SigBytes
  <2>3. QED  BY <2>1, <2>2
<1> DEFINE new == [ty |-> ty, id |-> id, msg |-> m,
                   bytes |-> SigBytes(ty, id, m, r, cn, qn), ok |-> TRUE]
<1>4. sig' = [sig EXCEPT ![r] = new]
  <2> HIDE DEF made
  <2>1. QED  BY <1>1, <1>3
<1>5. SigOk(new, r)
  <2>1. /\ new.ty \in Types /\ new.id \in Ids
        /\ new.bytes = SigBytes(new.ty, new.id, new.msg, r, cn, qn)
    BY <1>2
  <2> HIDE DEF new
  <2>2. QED  BY <2>1 DEF SigOk
<1> HIDE DEF new
<1>6. OnRuns(sig)' /\ \A s \in Runs : sig'[s] = IF s = r THEN new ELSE sig[s]
  BY <1>4 DEF SignInv, SigsInv, OnRuns
<1>7. SigsInv'  BY <1>5, <1>6 DEF SignInv, SigsInv
<1>8. KeysInv'  BY <1>1 DEF SignInv, KeysInv, OnKeys
<1>9. OutOk(verdict)'  BY <1>1 DEF OutOk
<1>10. QED  BY <1>7, <1>8, <1>9 DEF SignInv

(* What is verified is looked at as the public key of the pair of the key   *)
(* does.                                                                    *)
LEMMA VerifyKeeps ==
  ASSUME SignInv, NEW k \in Keys, NEW m \in Msgs, NEW b \in Arriving(key[k].ty), Verify(k, m, b)
  PROVE  SignInv'
<1> DEFINE ty == key[k].ty  id == of[k]
           ok == IF IsHybrid(k) THEN HybridVerify(k, m, b) ELSE OqsVerifies(OqsPub(k), m, b)
           new == [ty |-> ty, id |-> id, msg |-> m, bytes |-> b, ok |-> ok]
<1>1. key[k].pub # NoBuf /\ verdict' = new /\ UNCHANGED <<key, of, sig>>
  BY DEF Verify
<1>2. /\ ty \in Types /\ id \in Ids /\ OqsPub(k) = id /\ (IsHybrid(k) <=> Hybrid(ty))
      /\ Hybrid(ty) => Pkey(k, "cpub") = {id}
  BY <1>1, PubFound DEF SignInv, KeysInv
<1>3. ok = Passes(ty, id, m, b)
  <2>1. CASE Hybrid(ty)
    <3>1. ok = HybridVerify(k, m, b)  BY <1>2, <2>1
    <3>2. QED  BY <1>2, <2>1, <3>1 DEF HybridVerify, Passes
  <2>2. CASE ~Hybrid(ty)  BY <1>2, <2>2 DEF Passes
  <2>3. QED  BY <2>1, <2>2
<1>4. BytesOk(ty, b)  BY ArrivingOk DEF SignInv
<1>5. Hybrid(ty) => ClassicInside(b)
  BY <1>2 DEF Verify, Readable, ClassicInside
<1>6. OutOk(new)
  <2>1. /\ new.ty = ty /\ new.id = id /\ new.msg = m /\ new.bytes = b /\ new.ok = ok
    OBVIOUS
  <2> HIDE DEF new, ok
  <2>2. QED  BY <1>2, <1>3, <1>4, <1>5, <2>1 DEF OutOk
<1> HIDE DEF new
<1>7. OutOk(verdict)'  BY <1>1, <1>6
<1>8. KeysInv' /\ SigsInv'  BY <1>1 DEF SignInv, KeysInv, SigsInv, OnKeys, OnRuns
<1>9. QED  BY <1>7, <1>8 DEF SignInv

LEMMA SignNextKeeps == SignInv /\ [SignNext]_signVars => SignInv'
<1> SUFFICES ASSUME SignInv, [SignNext]_signVars PROVE SignInv'  OBVIOUS
<1>1. CASE UNCHANGED signVars
  <2>1. UNCHANGED <<key, of, sig, verdict>>  BY <1>1 DEF signVars
  <2>2. KeysInv' /\ SigsInv'  BY <2>1 DEF SignInv, KeysInv, SigsInv, OnKeys, OnRuns
  <2>3. OutOk(verdict)'  BY <2>1 DEF SignInv
  <2>4. QED  BY <2>2, <2>3 DEF SignInv
<1>2. ASSUME NEW k \in Keys,
             \/ \E ty \in Types, id \in Ids : Gen(k, ty, id)
             \/ \E l \in Keys, how \in {"params", "spki", "pki"} : Give(k, l, how)
             \/ Free(k)
             \/ \E m \in Msgs, r \in Runs, cn \in 1 .. CSig, qn \in 1 .. QSig :
                  Sign(k, m, r, cn, qn)
             \/ \E m \in Msgs : \E bytes \in Arriving(key[k].ty) : Verify(k, m, bytes)
      PROVE  SignInv'
  BY <1>2, GenKeeps, GiveKeeps, FreeKeeps, SignKeeps, VerifyKeeps
<1>3. QED  BY <1>1, <1>2 DEF SignNext

-----------------------------------------------------------------------------
(* Key objects stand for their pair, signatures are made by both halves of  *)
(* the signer's pair, and what a verification says is what the two halves   *)
(* of the key's pair say of its bytes.                                      *)
THEOREM SignInvariant == SignSpec => []SignInv
<1>1. QED  BY SignInitHolds, SignNextKeeps, PTL DEF SignSpec

(* A signature that was made passes.                                        *)
LEMMA MadePasses ==
  ASSUME NEW r \in Runs, NEW x, SigOk(x, r), x # NoSig
  PROVE  Passes(x.ty, x.id, x.msg, x.bytes)
<1> DEFINE ty == x.ty  id == x.id  m == x.msg  b == x.bytes
<1>1. PICK cn \in 1 .. CSig, qn \in 1 .. QSig : b = SigBytes(ty, id, m, r, cn, qn)
  BY DEF SigOk
<1>2. id # Nobody  BY SignAssumption DEF SigOk
<1> HIDE DEF ty, id, m, b
<1>3. CASE Hybrid(ty)
  <2>1. ReadsAs(b, id, m, r, cn, qn)  BY <1>1, <1>3, SigRead
  <2>2. /\ DecodeUint32(b) = cn /\ Slice(b, SizeOfUint32, cn) = ClassicSig(id, m, r, cn)
        /\ From(b, SizeOfUint32 + cn) = OqsSig(id, m, r, qn)
    BY <2>1 DEF ReadsAs
  <2>3. ClassicVerifies(id, m, Slice(b, SizeOfUint32, DecodeUint32(b)))
    BY <1>2, <2>2 DEF ClassicVerifies
  <2>4. OqsVerifies(id, m, From(b, OqsOffset(DecodeUint32(b))))
    BY <1>2, <2>2 DEF OqsVerifies, OqsOffset
  <2>5. Passes(ty, id, m, b)  BY <1>3, <2>3, <2>4 DEF Passes
  <2>6. QED  BY <2>5 DEF ty, id, m, b
<1>4. CASE ~Hybrid(ty)
  <2>1. b = OqsSig(id, m, r, qn)  BY <1>1, <1>4 DEF SigBytes
  <2>2. OqsVerifies(id, m, b)  BY <1>2, <2>1 DEF OqsVerifies
  <2>3. Passes(ty, id, m, b)  BY <1>4, <2>2 DEF Passes
  <2>4. QED  BY <2>3 DEF ty, id, m, b
<1>5. QED  BY <1>3, <1>4

(* Every signature that was made verifies with any key object of its pair,  *)
(* however long its two parts turned out.                                   *)
THEOREM SignaturesVerifyHolds == SignSpec => []SignaturesVerify
<1>1. SignInv => SignaturesVerify
  <2> SUFFICES ASSUME SignInv, NEW r \in Runs, verdict # NoSig, verdict.ty = sig[r].ty,
                      verdict.id = sig[r].id, verdict.msg = sig[r].msg, verdict.bytes = sig[r].bytes
               PROVE  verdict.ok
    BY DEF SignaturesVerify
  <2>1. /\ verdict.id \in Ids
        /\ verdict.ok = Passes(verdict.ty, verdict.id, verdict.msg, verdict.bytes)
    BY DEF SignInv, OutOk
  <2>2. sig[r] # NoSig  BY <2>1, SignAssumption DEF NoSig
  <2>3. SigOk(sig[r], r)  BY DEF SignInv, SigsInv
  <2>4. Passes(sig[r].ty, sig[r].id, sig[r].msg, sig[r].bytes)  BY <2>2, <2>3, MadePasses
  <2>5. QED  BY <2>1, <2>4
<1>2. QED  BY <1>1, SignInvariant, PTL

(* What a byte is of: its half, pair, message and run.                      *)
LEMMA OqsCells ==
  ASSUME NEW id, NEW m, NEW s, OqsVerifies(id, m, s)
  PROVE  \E q : /\ q[1] = "qsig" /\ q[2] = id /\ q[3] = m
                /\ 0 \in DOMAIN s /\ \A i \in DOMAIN s : s[i] = <<q, i>>
<1>1. PICK r \in Runs, n \in 1 .. QSig : s = OqsSig(id, m, r, n)  BY DEF OqsVerifies
<1> DEFINE q == <<"qsig", id, m, r, n>>
<1>2. q[1] = "qsig" /\ q[2] = id /\ q[3] = m  OBVIOUS
<1> HIDE DEF q
<1>3. s = [i \in 0 .. n - 1 |-> <<q, i>>]  BY <1>1 DEF OqsSig, Bytes, q
<1>4. 0 \in 0 .. n - 1  BY Lengths
<1>5. QED  BY <1>2, <1>3, <1>4

LEMMA ClassicCells ==
  ASSUME NEW id, NEW m, NEW s, ClassicVerifies(id, m, s)
  PROVE  \E c : /\ c[1] = "csig" /\ c[2] = id /\ c[3] = m
                /\ 0 \in DOMAIN s /\ \A i \in DOMAIN s : s[i] = <<c, i>>
<1>1. PICK r \in Runs, n \in 1 .. CSig : s = ClassicSig(id, m, r, n)  BY DEF ClassicVerifies
<1> DEFINE c == <<"csig", id, m, r, n>>
<1>2. c[1] = "csig" /\ c[2] = id /\ c[3] = m  OBVIOUS
<1> HIDE DEF c
<1>3. s = [i \in 0 .. n - 1 |-> <<c, i>>]  BY <1>1 DEF ClassicSig, Bytes, c
<1>4. 0 \in 0 .. n - 1  BY Lengths
<1>5. QED  BY <1>2, <1>3, <1>4

(* The bytes of a hybrid signature that passes: what they are of, without   *)
(* the length field.                                                        *)
SignedByBoth(body, id, m) ==
  \E c, q : /\ c[1] = "csig" /\ c[2] = id /\ c[3] = m
            /\ q[1] = "qsig" /\ q[2] = id /\ q[3] = m
            /\ body = {c, q}

LEMMA SignedCells ==
  ASSUME NEW id, NEW m, NEW b, NEW cn \in Nat, DecodeUint32(b) = cn, DOMAIN b \subseteq Nat,
         ClassicInside(b), ClassicVerifies(id, m, Slice(b, SizeOfUint32, cn)),
         OqsVerifies(id, m, From(b, SizeOfUint32 + cn)),
         NEW body, body = {b[i][1] : i \in {j \in DOMAIN b : j >= SizeOfUint32}}
  PROVE  SignedByBoth(body, id, m)
<1> DEFINE S == SizeOfUint32  u == Slice(b, S, cn)  v == From(b, S + cn)
           D == {j \in DOMAIN b : j >= S}
<1>1. S \in Nat /\ S > 0  BY Lengths
<1>2. PICK c : /\ c[1] = "csig" /\ c[2] = id /\ c[3] = m
               /\ 0 \in DOMAIN u /\ \A i \in DOMAIN u : u[i] = <<c, i>>
  BY ClassicCells
<1>3. PICK q : /\ q[1] = "qsig" /\ q[2] = id /\ q[3] = m
               /\ 0 \in DOMAIN v /\ \A i \in DOMAIN v : v[i] = <<q, i>>
  BY OqsCells
<1>4. DOMAIN u = 0 .. cn - 1 /\ \A i \in 0 .. cn - 1 : u[i] = b[S + i]  BY DEF Slice
<1>5. /\ DOMAIN v = {j - (S + cn) : j \in {d \in DOMAIN b : d >= S + cn}}
      /\ \A i \in DOMAIN v : v[i] = b[(S + cn) + i]
  BY DEF From
<1> HIDE DEF u, v
<1>6. ASSUME NEW i \in D, i < S + cn  PROVE b[i][1] = c
  <2>1. i - S \in 0 .. cn - 1 /\ S + (i - S) = i  BY <1>1, <1>6
  <2>2. b[i] = <<c, i - S>>  BY <1>2, <1>4, <2>1
  <2>3. QED  BY <2>2
<1>7. ASSUME NEW i \in D, ~(i < S + cn)  PROVE b[i][1] = q
  <2>1. i >= S + cn /\ (S + cn) + (i - (S + cn)) = i  BY <1>1, <1>7
  <2>2. i - (S + cn) \in DOMAIN v  BY <1>5, <2>1
  <2>3. b[i] = <<q, i - (S + cn)>>  BY <1>3, <1>5, <2>1, <2>2
  <2>4. QED  BY <2>3
<1>8. S \in D /\ b[S][1] = c
  <2>1. cn > 0 /\ S \in 0 .. (S + cn) - 1 /\ S + cn - 1 = (S + cn) - 1  BY <1>1, <1>2, <1>4
  <2>2. S \in D  BY <1>1, <2>1 DEF ClassicInside
  <2>3. QED  BY <1>1, <1>6, <2>1, <2>2
<1>9. S + cn \in D /\ b[S + cn][1] = q
  <2>1. PICK j \in DOMAIN b : j >= S + cn /\ j - (S + cn) = 0  BY <1>3, <1>5
  <2>2. j = S + cn  BY <1>1, <2>1
  <2>3. S + cn \in D  BY <1>1, <2>1, <2>2
  <2>4. QED  BY <1>1, <1>7, <2>3
<1>10. body = {b[i][1] : i \in D}  OBVIOUS
<1> HIDE DEF D
<1>11. body = {c, q}  BY <1>6, <1>7, <1>8, <1>9, <1>10
<1>12. QED  BY <1>2, <1>3, <1>11 DEF SignedByBoth

(* What verifies is, but for the length field, made by both halves of the   *)
(* key's pair of the message, and of a plain key by the one there is.       *)
THEOREM BothHalvesSignHolds == SignSpec => []BothHalvesSign
<1>1. SignInv => BothHalvesSign
  <2> DEFINE ty == verdict.ty  id == verdict.id  m == verdict.msg  b == verdict.bytes
             D == {j \in DOMAIN b : Hybrid(ty) => j >= SizeOfUint32}
             body == {b[i][1] : i \in D}
  <2> SUFFICES ASSUME SignInv, verdict.ok
               PROVE  /\ \A x \in body : x[2] = id /\ x[3] = m
                      /\ {x[1] : x \in body} =
                           IF Hybrid(ty) THEN {"csig", "qsig"} ELSE {"qsig"}
    BY DEF BothHalvesSign
  <2>1. verdict # NoSig  BY DEF NoSig
  <2>2. /\ ty \in Types /\ id \in Ids /\ BytesOk(ty, b)
        /\ Hybrid(ty) => ClassicInside(b)
        /\ Passes(ty, id, m, b)
    BY <2>1 DEF SignInv, OutOk
  <2> HIDE DEF ty, id, m, b
  <2>3. CASE Hybrid(ty)
    <3> DEFINE cn == DecodeUint32(b)
    <3>1. cn \in Nat
      <4>1. PICK n \in 1 .. CSig : b[0] = <<"len", n, 0>>  BY <2>2, <2>3 DEF BytesOk
      <4>2. cn = n  BY <4>1 DEF DecodeUint32
      <4>3. QED  BY <4>2, Lengths
    <3>2. /\ ClassicVerifies(id, m, Slice(b, SizeOfUint32, cn))
          /\ OqsVerifies(id, m, From(b, SizeOfUint32 + cn))
      BY <2>2, <2>3 DEF Passes, OqsOffset
    <3>3. DOMAIN b \subseteq Nat /\ ClassicInside(b)  BY <2>2, <2>3 DEF BytesOk
    <3>4. DecodeUint32(b) = cn  OBVIOUS
    <3> HIDE DEF cn
    <3>5. body = {b[i][1] : i \in {j \in DOMAIN b : j >= SizeOfUint32}}  BY <2>3
    <3> HIDE DEF body
    <3>6. SignedByBoth(body, id, m)  BY <3>1, <3>2, <3>3, <3>4, <3>5, SignedCells
    <3>7. QED  BY <2>3, <3>6 DEF SignedByBoth
  <2>4. CASE ~Hybrid(ty)
    <3>1. PICK q : /\ q[1] = "qsig" /\ q[2] = id /\ q[3] = m
                   /\ 0 \in DOMAIN b /\ \A i \in DOMAIN b : b[i] = <<q, i>>
      BY <2>2, <2>4, OqsCells DEF Passes
    <3>2. D = DOMAIN b  BY <2>4
    <3>3. body = {q}
      <4>1. \A i \in D : b[i][1] = q  BY <3>1, <3>2
      <4>2. 0 \in D  BY <3>1, <3>2
      <4> HIDE DEF D
      <4>3. QED  BY <4>1, <4>2
    <3> HIDE DEF body
    <3>4. QED  BY <2>4, <3>1, <3>3
  <2>5. QED  BY <2>3, <2>4
<1>2. QED  BY <1>1, SignInvariant, PTL

-----------------------------------------------------------------------------
(* A signature scheme.                                                      *)

(* Where the bytes of what arrives come from: each is the byte at its place *)
(* of a signature of the type that was made, or the one that was added.     *)
ByteSent(ty, i, z) ==
  \E s \in Runs : /\ sig[s] # NoSig /\ sig[s].ty = ty
                  /\ i \in DOMAIN sig[s].bytes /\ z = sig[s].bytes[i]

Came(ty, b) == \A i \in DOMAIN b : b[i] = <<"zero">> \/ ByteSent(ty, i, b[i])

LEMMA ArrivingCame ==
  ASSUME SigsInv, NEW ty, NEW b \in Arriving(ty)
  PROVE  Came(ty, b)
<1>1. ASSUME NEW x \in Sent(ty), NEW i \in DOMAIN x  PROVE ByteSent(ty, i, x[i])
  <2>1. PICK r \in Runs : sig[r] # NoSig /\ sig[r].ty = ty /\ x = sig[r].bytes  BY DEF Sent
  <2>2. QED  BY <2>1 DEF ByteSent
<1>2. ArrivesAs(ty, b)  BY ArrivingIs
<1>3. CASE b \in Sent(ty)  BY <1>1, <1>3 DEF Came
<1>4. ASSUME NEW x \in Sent(ty), NEW y \in Sent(ty), NEW n \in DOMAIN x, b = Splice(x, n, y)
      PROVE  Came(ty, b)
  <2>1. \A i \in DOMAIN b : \/ i \in DOMAIN x /\ b[i] = x[i]
                            \/ i \in DOMAIN y /\ b[i] = y[i]
    <3> DEFINE X == {j \in DOMAIN x : j < n}  Y == {j \in DOMAIN y : j >= n}
    <3>1. b = [i \in X \cup Y |-> IF i < n THEN x[i] ELSE y[i]]  BY <1>4 DEF Splice
    <3>2. \A i \in X : i \in DOMAIN x /\ i < n  OBVIOUS
    <3>3. \A i \in Y : i \in DOMAIN y /\ ~(i < n)
      <4>1. DOMAIN y \subseteq Nat /\ n \in Nat  BY SentBytes DEF BytesOk
      <4>2. QED  BY <4>1
    <3> HIDE DEF X, Y
    <3>4. QED  BY <3>1, <3>2, <3>3
  <2>2. QED  BY <1>1, <2>1 DEF Came
<1>5. ASSUME NEW x \in Sent(ty), NEW n, b = Prefix(x, n)
      PROVE  Came(ty, b)
  <2>1. \A i \in DOMAIN b : i \in DOMAIN x /\ b[i] = x[i]  BY <1>5 DEF Prefix
  <2>2. QED  BY <1>1, <2>1 DEF Came
<1>6. ASSUME NEW x \in Sent(ty), NEW n, b = Lengthened(x, n)
      PROVE  Came(ty, b)
  <2>1. \A i \in DOMAIN b : b[i] = <<"zero">> \/ (i \in DOMAIN x /\ b[i] = x[i])
    BY <1>6 DEF Lengthened
  <2>2. QED  BY <1>1, <2>1 DEF Came
<1>7. QED  BY <1>2, <1>3, <1>4, <1>5, <1>6 DEF ArrivesAs

(* A byte of an OQS part, found in a signature, says who signed what.       *)
LEMMA CellTells ==
  ASSUME NEW r \in Runs, NEW x, SigOk(x, r), x # NoSig, NEW i \in DOMAIN x.bytes,
         NEW q, q[1] = "qsig", x.bytes[i] = <<q, 0>>
  PROVE  x.id = q[2] /\ x.msg = q[3]
<1> DEFINE id == x.id  m == x.msg  b == x.bytes
<1>1. PICK cn \in 1 .. CSig, qn \in 1 .. QSig : b = SigBytes(x.ty, id, m, r, cn, qn)
  BY DEF SigOk
<1>2. <<q, 0>>[1] = q /\ Len(<<q, 0>>) = 2  OBVIOUS
<1> DEFINE c == <<"csig", id, m, r, cn>>  u == <<"qsig", id, m, r, qn>>
<1>3. c[1] = "csig" /\ u[1] = "qsig" /\ u[2] = id /\ u[3] = m  OBVIOUS
<1> HIDE DEF c, u
<1>4. CASE Hybrid(x.ty)
  <2>1. b = [j \in 0 .. (SizeOfUint32 + cn + qn) - 1 |-> SigCell(id, m, r, cn, qn, j)]
    BY <1>1, <1>4 DEF SigBytes
  <2>2. b[i] = SigCell(id, m, r, cn, qn, i)  BY <2>1
  <2>3. \/ <<q, 0>> = <<"len", cn, i>>
        \/ <<q, 0>> = <<c, i - SizeOfUint32>>
        \/ <<q, 0>> = <<u, i - (SizeOfUint32 + cn)>>
    BY <2>2 DEF SigCell, c, u
  <2>4. <<q, 0>> # <<"len", cn, i>>
    <3>1. Len(<<"len", cn, i>>) = 3  OBVIOUS
    <3>2. QED  BY <1>2, <3>1
  <2>5. <<q, 0>> = <<c, i - SizeOfUint32>> => q = c  OBVIOUS
  <2>6. <<q, 0>> = <<u, i - (SizeOfUint32 + cn)>> => q = u  OBVIOUS
  <2>7. q = u  BY <1>3, <2>3, <2>4, <2>5, <2>6
  <2>8. QED  BY <1>3, <2>7
<1>5. CASE ~Hybrid(x.ty)
  <2>1. b = [j \in 0 .. qn - 1 |-> <<u, j>>]
    BY <1>1, <1>5 DEF SigBytes, OqsSig, Bytes, u
  <2>2. <<q, 0>> = <<u, i>>  BY <2>1
  <2>3. q = u  BY <2>2
  <2>4. QED  BY <1>3, <2>3
<1>6. QED  BY <1>4, <1>5

(* What passes of what arrives holds a byte of an OQS signature of the pair *)
(* of the message, and so there is a signature of the pair of the message.  *)
LEMMA PassesWasSigned ==
  ASSUME SigsInv, NEW ty, NEW id, NEW m, NEW b, BytesOk(ty, b), Came(ty, b),
         Passes(ty, id, m, b)
  PROVE  \E s \in Runs : sig[s] # NoSig /\ sig[s].ty = ty /\ sig[s].id = id /\ sig[s].msg = m
<1>1. \E q, i : q[1] = "qsig" /\ q[2] = id /\ q[3] = m /\ i \in DOMAIN b /\ b[i] = <<q, 0>>
  <2>1. CASE Hybrid(ty)
    <3> DEFINE off == OqsOffset(DecodeUint32(b))  v == From(b, off)
    <3>1. off \in Nat
      <4>1. PICK n \in 1 .. CSig : b[0] = <<"len", n, 0>>  BY <2>1 DEF BytesOk
      <4>2. DecodeUint32(b) = n  BY <4>1 DEF DecodeUint32
      <4>3. QED  BY <4>2, Lengths DEF OqsOffset
    <3>2. OqsVerifies(id, m, v)  BY <2>1 DEF Passes
    <3>3. DOMAIN b \subseteq Nat  BY DEF BytesOk
    <3> HIDE DEF off
    <3>4. /\ DOMAIN v = {j - off : j \in {d \in DOMAIN b : d >= off}}
          /\ \A i \in DOMAIN v : v[i] = b[off + i]
      BY DEF From
    <3> HIDE DEF v
    <3>5. PICK q : /\ q[1] = "qsig" /\ q[2] = id /\ q[3] = m
                   /\ 0 \in DOMAIN v /\ \A i \in DOMAIN v : v[i] = <<q, i>>
      BY <3>2, OqsCells
    <3>6. PICK j \in DOMAIN b : j - off = 0  BY <3>4, <3>5
    <3>7. off \in DOMAIN b /\ off + 0 = off  BY <3>1, <3>3, <3>6
    <3>8. b[off] = <<q, 0>>  BY <3>4, <3>5, <3>7
    <3>9. QED  BY <3>5, <3>7, <3>8
  <2>2. CASE ~Hybrid(ty)
    <3>1. OqsVerifies(id, m, b)  BY <2>2 DEF Passes
    <3>2. QED  BY <3>1, OqsCells
  <2>3. QED  BY <2>1, <2>2
<1>2. PICK q, i : q[1] = "qsig" /\ q[2] = id /\ q[3] = m /\ i \in DOMAIN b /\ b[i] = <<q, 0>>
  BY <1>1
<1>3. <<q, 0>> # <<"zero">>
  <2>1. Len(<<q, 0>>) = 2 /\ Len(<<"zero">>) = 1  OBVIOUS
  <2>2. QED  BY <2>1
<1>4. ByteSent(ty, i, b[i])  BY <1>2, <1>3 DEF Came
<1>5. PICK s \in Runs : /\ sig[s] # NoSig /\ sig[s].ty = ty
                        /\ i \in DOMAIN sig[s].bytes /\ b[i] = sig[s].bytes[i]
  BY <1>4 DEF ByteSent
<1>6. SigOk(sig[s], s)  BY DEF SigsInv
<1>7. sig[s].id = q[2] /\ sig[s].msg = q[3]  BY <1>2, <1>5, <1>6, CellTells
<1>8. QED  BY <1>2, <1>5, <1>7

(* What was issued, signature by signature.                                 *)
AsIssued(x) == [ty |-> x.ty, id |-> x.id, msg |-> x.msg, bytes |-> x.bytes]

LEMMA IssuedOf ==
  /\ \A s : s \in Issued <=> \E r \in Runs : sig[r] # NoSig /\ s = AsIssued(sig[r])
  /\ \A s : s \in Issued' <=> \E r \in Runs : sig'[r] # NoSig /\ s = AsIssued(sig'[r])
BY DEF Issued, AsIssued

LEMMA AsIssuedFields ==
  ASSUME NEW x
  PROVE  /\ AsIssued(x).ty = x.ty /\ AsIssued(x).id = x.id
         /\ AsIssued(x).msg = x.msg /\ AsIssued(x).bytes = x.bytes
BY DEF AsIssued

(* Signing adds the signature that was made to what was issued, and leaves  *)
(* what there was.                                                          *)
LEMMA SignIssues ==
  ASSUME SignInv, NEW k \in Keys, NEW m \in Msgs, NEW r \in Runs,
         NEW cn \in 1 .. CSig, NEW qn \in 1 .. QSig, Sign(k, m, r, cn, qn)
  PROVE  Scheme!Issue(key[k].ty, of[k], m)
<1>1. sig[r] = NoSig /\ verdict' = NoSig  BY DEF Sign
<1>2. PICK bytes : sig' = [sig EXCEPT ![r] = [ty |-> key[k].ty, id |-> of[k], msg |-> m,
                                              bytes |-> bytes, ok |-> TRUE]]
  BY DEF Sign
<1> DEFINE new == [ty |-> key[k].ty, id |-> of[k], msg |-> m, bytes |-> bytes, ok |-> TRUE]
<1>3. new # NoSig /\ new.ty = key[k].ty /\ new.id = of[k] /\ new.msg = m
  <2>1. new.ok /\ ~NoSig.ok  BY DEF NoSig
  <2>2. QED  BY <2>1
<1>4. sig' = [sig EXCEPT ![r] = new]  BY <1>2
<1> HIDE DEF new
<1>5. \A s \in Runs : sig'[s] = IF s = r THEN new ELSE sig[s]
  BY <1>4 DEF SignInv, SigsInv, OnRuns
<1>6. AsIssued(new) \in Issued'  BY <1>3, <1>5, IssuedOf
<1>7. Issued' = Issued \cup {AsIssued(new)}
  <2>1. \A s \in Issued : s \in Issued'
    <3> SUFFICES ASSUME NEW s \in Issued PROVE s \in Issued'  OBVIOUS
    <3>1. PICK p \in Runs : sig[p] # NoSig /\ s = AsIssued(sig[p])  BY IssuedOf
    <3>2. sig'[p] = sig[p]  BY <1>1, <1>5, <3>1
    <3>3. QED  BY <3>1, <3>2, IssuedOf
  <2>2. \A s \in Issued' : s \in Issued \/ s = AsIssued(new)
    <3> SUFFICES ASSUME NEW s \in Issued' PROVE s \in Issued \/ s = AsIssued(new)  OBVIOUS
    <3>1. PICK p \in Runs : sig'[p] # NoSig /\ s = AsIssued(sig'[p])  BY IssuedOf
    <3>2. QED  BY <1>5, <3>1, IssuedOf
  <2>3. QED  BY <1>6, <2>1, <2>2
<1>8. /\ AsIssued(new).ty = key[k].ty /\ AsIssued(new).id = of[k] /\ AsIssued(new).msg = m
  BY <1>3, AsIssuedFields
<1>9. QED  BY <1>1, <1>6, <1>7, <1>8 DEF Scheme!Issue

(* A verification answers as the scheme may: what the pair issued of the    *)
(* message passes, and if anything does, the pair has issued something.     *)
LEMMA VerifyAnswers ==
  ASSUME SignInv, NEW k \in Keys, NEW m \in Msgs, NEW b \in Arriving(key[k].ty), Verify(k, m, b)
  PROVE  Scheme!Answer(key[k].ty, of[k], m)
<1> DEFINE ty == key[k].ty  id == of[k]
           for == {s \in Issued : s.ty = ty /\ s.id = id /\ s.msg = m}
<1>1. /\ verdict'.ty = ty /\ verdict'.id = id /\ verdict'.msg = m /\ verdict'.bytes = b
      /\ sig' = sig /\ key[k].pub # NoBuf
  BY DEF Verify
<1>2. ty \in Types /\ id \in Ids
  BY <1>1, PubFound DEF SignInv, KeysInv
<1>3. SignInv'  BY VerifyKeeps
<1>4. verdict'.ok = Passes(ty, id, m, b)
  <2>1. verdict' # NoSig
    <3>1. NoSig.id = Nobody  BY DEF NoSig
    <3>2. QED  BY <1>1, <1>2, <3>1, SignAssumption
  <2>2. OutOk(verdict)'  BY <1>3 DEF SignInv
  <2>3. verdict'.ok = Passes(verdict'.ty, verdict'.id, verdict'.msg, verdict'.bytes)
    BY <2>1, <2>2 DEF OutOk, NoSig
  <2>4. QED  BY <1>1, <2>3
<1>5. SigsInv /\ BytesOk(ty, b) /\ Came(ty, b)
  BY ArrivingOk, ArrivingCame DEF SignInv
<1>6. Issued' = Issued  BY <1>1 DEF Issued
<1>7. ASSUME b \in {s.bytes : s \in for}  PROVE verdict'.ok
  <2>1. PICK s \in for : s.bytes = b  BY <1>7
  <2>2. PICK r \in Runs : sig[r] # NoSig /\ s = AsIssued(sig[r])  BY <2>1, IssuedOf
  <2>3. sig[r].ty = ty /\ sig[r].id = id /\ sig[r].msg = m /\ sig[r].bytes = b
    BY <2>1, <2>2, AsIssuedFields
  <2>4. SigOk(sig[r], r)  BY <1>5 DEF SigsInv
  <2>5. Passes(sig[r].ty, sig[r].id, sig[r].msg, sig[r].bytes)  BY <2>2, <2>4, MadePasses
  <2>6. QED  BY <1>4, <2>3, <2>5
<1>8. ASSUME verdict'.ok  PROVE for # {}
  <2>1. Passes(ty, id, m, b)  BY <1>4, <1>8
  <2>2. PICK s \in Runs : sig[s] # NoSig /\ sig[s].ty = ty /\ sig[s].id = id /\ sig[s].msg = m
    <3> HIDE DEF ty, id
    <3>1. QED  BY <1>5, <2>1, PassesWasSigned
  <2>3. AsIssued(sig[s]) \in Issued  BY <2>2, IssuedOf
  <2>4. AsIssued(sig[s]) \in for  BY <2>2, <2>3, AsIssuedFields
  <2>5. QED  BY <2>4
<1>9. QED  BY <1>1, <1>6, <1>7, <1>8 DEF Scheme!Answer

LEMMA SchemeStep == SignInv /\ [SignNext]_signVars => [Scheme!SchemeNext]_<<Issued, verdict>>
<1> SUFFICES ASSUME SignInv, [SignNext]_signVars
             PROVE  [Scheme!SchemeNext]_<<Issued, verdict>>
  OBVIOUS
<1>1. CASE UNCHANGED signVars  BY <1>1 DEF signVars, Issued
<1>2. ASSUME sig' = sig, verdict' = NoSig  PROVE Scheme!SchemeNext
  <2>1. Issued' = Issued  BY <1>2 DEF Issued
  <2>2. QED  BY <1>2, <2>1 DEF Scheme!SchemeNext, Scheme!Rest
<1>3. ASSUME NEW k \in Keys, NEW ty \in Types, NEW id \in Ids, Gen(k, ty, id)
      PROVE  Scheme!SchemeNext
  BY <1>2, <1>3 DEF Gen
<1>4. ASSUME NEW k \in Keys, NEW l \in Keys, NEW how \in {"params", "spki", "pki"}, Give(k, l, how)
      PROVE  Scheme!SchemeNext
  BY <1>2, <1>4 DEF Give
<1>5. ASSUME NEW k \in Keys, Free(k)  PROVE Scheme!SchemeNext
  BY <1>2, <1>5 DEF Free
<1>6. ASSUME NEW k \in Keys, NEW m \in Msgs, NEW r \in Runs,
             NEW cn \in 1 .. CSig, NEW qn \in 1 .. QSig, Sign(k, m, r, cn, qn)
      PROVE  Scheme!SchemeNext
  <2>1. key[k].ty \in Types /\ of[k] \in Ids
    BY <1>6, PrivFound DEF Sign, SignInv, KeysInv
  <2>2. Scheme!Issue(key[k].ty, of[k], m)  BY <1>6, SignIssues
  <2>3. QED  BY <2>1, <2>2 DEF Scheme!SchemeNext
<1>7. ASSUME NEW k \in Keys, NEW m \in Msgs, NEW b \in Arriving(key[k].ty), Verify(k, m, b)
      PROVE  Scheme!SchemeNext
  <2>1. key[k].ty \in Types /\ of[k] \in Ids
    BY <1>7, PubFound DEF Verify, SignInv, KeysInv
  <2>2. Scheme!Answer(key[k].ty, of[k], m)  BY <1>7, VerifyAnswers
  <2>3. QED  BY <2>1, <2>2 DEF Scheme!SchemeNext
<1>8. QED  BY <1>1, <1>3, <1>4, <1>5, <1>6, <1>7 DEF SignNext

(* Signing and verifying, with all their lengths, buffers and travelled     *)
(* keys, implement a signature scheme: what a pair issued for a message is  *)
(* accepted from then on, and nothing is accepted of a pair that has not    *)
(* signed the message before.                                               *)
THEOREM SchemeRefinementHolds == SignSpec => SchemeRefinement
<1>1. SignInit => Scheme!SchemeInit
  <2> SUFFICES ASSUME SignInit PROVE Issued = {} /\ verdict = NoSig
    BY DEF Scheme!SchemeInit
  <2>1. \A r \in Runs : sig[r] = NoSig  BY DEF SignInit
  <2>2. QED  BY <2>1 DEF SignInit, Issued
<1>2. QED  BY <1>1, SchemeStep, SignInvariant, PTL DEF SignSpec, SchemeRefinement, Scheme!SchemeSpec

=============================================================================
