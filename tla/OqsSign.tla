------------------------------- MODULE OqsSign -------------------------------
(****************************************************************************)
(* Signing and verifying a message (oqs_sig_sign and oqs_sig_verify of      *)
(* oqs_sig.c): a plain OQS signature, and the hybrid                        *)
(*                                                                          *)
(*     length (SIZE_OF_UINT32) || classical signature || OQS signature      *)
(*                                                                          *)
(* where each part is as long as its library happened to make it.           *)
(*                                                                          *)
(* Keys are those of OqsxKeyLayout and may have travelled.  The classical   *)
(* half works on classical_pkey, the OQS half on the bytes behind the last  *)
(* comp pointer.  Cryptography is symbolic: the bytes of a signature name   *)
(* the half, the pair, the message and the run that made them.  What goes   *)
(* in is the message, or the hash of it, that OqsSigCtx says a context      *)
(* works on; the hash the classical half takes of it is taken as one to     *)
(* one, and both sides take the one the key's algorithm asks for.           *)
(*                                                                          *)
(* A key object has no part here that oqsx_set_params left behind: of a     *)
(* signature key it replaces the public key but not classical_pkey.         *)
(****************************************************************************)
EXTENDS OqsxKeyLayout

CONSTANTS
  Keys,          \* key objects
  Types,         \* the kinds of signature in use
  Msgs,          \* messages
  Runs,          \* signatures made
  CSig,          \* evp_info->length_signature
  QSig           \* length_signature of liboqs

(* Nobody, who bytes are of that are no key, is none of the pairs.           *)
ASSUME SignAssumption ==
  /\ {CSig, QSig} \subseteq Nat \ {0}
  /\ Types \subseteq {"SIG", "HYB_SIG"}
  /\ Nobody \notin Ids

VARIABLES
  key,      \* the key objects
  of,       \* ghost: the pair each stands for
  sig,      \* the signatures made, with the pair and message they were for
  verdict   \* the last verification: type, pair, message, bytes, result

signVars == <<key, of, sig, verdict>>

NoSig == [ty |-> "none", id |-> Nobody, msg |-> "none", bytes |-> <<>>, ok |-> FALSE]

-----------------------------------------------------------------------------
(* The libraries.  A signature may be shorter than the tables say.          *)
ClassicSig(id, m, r, n) == Bytes(n, <<"csig", id, m, r, n>>)
OqsSig(id, m, r, n) == Bytes(n, <<"qsig", id, m, r, n>>)

ClassicVerifies(id, m, s) ==
  id # Nobody /\ \E r \in Runs, n \in 1 .. CSig : s = ClassicSig(id, m, r, n)
OqsVerifies(id, m, s) ==
  id # Nobody /\ \E r \in Runs, n \in 1 .. QSig : s = OqsSig(id, m, r, n)

(* The keys a call finds in a key object: classical_pkey, if there is one,  *)
(* and what is behind comp_privkey and comp_pubkey.                         *)
IsHybrid(k) == key[k].pkey # {}
Pkey(k, part) == {c[2] : c \in {d \in key[k].pkey : d[1] = part}}
OqsPriv(k) == Owner("qpriv", Slice(key[k].priv, key[k].compPriv.oqs, QPriv))
OqsPub(k) == Owner("qpub", Slice(key[k].pub, key[k].compPub.oqs, QPub))

MaxSigLen(ty) == IF Hybrid(ty) THEN SizeOfUint32 + CSig + QSig ELSE QSig

-----------------------------------------------------------------------------
SignInit ==
  /\ key = [k \in Keys |-> Unused]
  /\ of = [k \in Keys |-> Nobody]
  /\ sig = [r \in Runs |-> NoSig]
  /\ verdict = NoSig

Gen(k, ty, id) ==
  /\ key[k].st = "none"
  /\ key' = [key EXCEPT ![k] = KeyGen(ty, id)]
  /\ of' = [of EXCEPT ![k] = id]
  /\ verdict' = NoSig
  /\ UNCHANGED sig

(* The key object made from what k gives away: exported parameters, a       *)
(* SubjectPublicKeyInfo, a PKCS#8 file.                                     *)
Copies(k, how) ==
  LET from == key[k] IN
  CASE how = "params" -> KeyFromData(from.ty, from.priv, from.pub)
    [] how = "spki" -> IF from.pub = NoBuf THEN {} ELSE KeyOpPublic(from.ty, from.pub)
    [] how = "pki" -> IF from.priv = NoBuf \/ (from.pub = NoBuf /\ ~NoPubInPriv) THEN {}
                      ELSE KeyOpPrivate(from.ty, PkiPrivBytes(from))

Give(k, l, how) ==
  /\ key[k].st # "none"
  /\ key[l].st = "none"
  /\ \E r \in Copies(k, how) : key' = [key EXCEPT ![l] = r]
  /\ of' = [of EXCEPT ![l] = of[k]]
  /\ verdict' = NoSig
  /\ UNCHANGED sig

Free(k) ==
  /\ key[k].st # "none"
  /\ key' = [key EXCEPT ![k] = Unused]
  /\ of' = [of EXCEPT ![k] = Nobody]
  /\ verdict' = NoSig
  /\ UNCHANGED sig

(* index: where the OQS part begins, behind a classical part of cn bytes.   *)
OqsOffset(cn) == SizeOfUint32 + cn

(* What a key with the classical private key id writes to the caller's      *)
(* buffer, and how much of it it returns.                                   *)
HybridSig(k, id, m, r, cn, qn) ==
  LET classical == EncodeUint32(Memcpy(Zalloc(MaxSigLen(key[k].ty)), SizeOfUint32,
                                       ClassicSig(id, m, r, cn)), cn)
  IN  Slice(Memcpy(classical, OqsOffset(cn), OqsSig(OqsPriv(k), m, r, qn)),
            0, OqsOffset(cn) + qn)

(* oqs_sig_sign with a buffer of the size it asks for; the libraries make   *)
(* signatures of cn and qn bytes.                                           *)
Sign(k, m, r, cn, qn) ==
  /\ sig[r] = NoSig
  /\ key[k].priv # NoBuf
  /\ \E bytes \in IF IsHybrid(k)
                  THEN {HybridSig(k, id, m, r, cn, qn) : id \in Pkey(k, "cpriv")}
                  ELSE {OqsSig(OqsPriv(k), m, r, qn)} :
       sig' = [sig EXCEPT ![r] = [ty |-> key[k].ty, id |-> of[k], msg |-> m,
                                  bytes |-> bytes, ok |-> TRUE]]
  /\ verdict' = NoSig
  /\ UNCHANGED <<key, of>>

-----------------------------------------------------------------------------
Prefix(x, n) == [i \in {j \in DOMAIN x : j < n} |-> x[i]]
Splice(x, n, y) == [i \in {j \in DOMAIN x : j < n} \cup {j \in DOMAIN y : j >= n} |->
                      IF i < n THEN x[i] ELSE y[i]]

(* What may arrive for a key of type ty: a signature that was made, one     *)
(* that was cut, one with a byte too many, the head of one and the tail of  *)
(* another.                                                                 *)
Arriving(ty) ==
  LET sent == {sig[r].bytes : r \in {s \in Runs : sig[s] # NoSig /\ sig[s].ty = ty}}
      Cuts(x, y) == {n \in DOMAIN x : n >= SizeOfUint32 /\ (n - 1) \in DOMAIN x}
  IN  sent \cup (UNION {{Splice(x, n, y) : n \in Cuts(x, y)} : x \in sent, y \in sent})
           \cup (UNION {{Prefix(x, n) : n \in Cuts(x, x)} : x \in sent})
           \cup {[i \in DOMAIN x \cup {MaxSigLen(ty)} |->
                    IF i \in DOMAIN x THEN x[i] ELSE <<"zero">>] : x \in sent}

(* The code reads the length and as many bytes as it says without looking   *)
(* at siglen: what is shorter is not modelled.                              *)
Readable(k, bytes) ==
  IsHybrid(k) => 0 .. SizeOfUint32 + DecodeUint32(bytes) - 1 \subseteq DOMAIN bytes

(* The bytes of a signature from an offset on.                              *)
From(bytes, off) ==
  [i \in {j - off : j \in {d \in DOMAIN bytes : d >= off}} |-> bytes[off + i]]

HybridVerifyLongest(k, m, bytes) ==      \* mutant: the OQS part is looked for behind the longest classical part
  /\ \E id \in Pkey(k, "cpub") :
       ClassicVerifies(id, m, Slice(bytes, SizeOfUint32, DecodeUint32(bytes)))
  /\ OqsVerifies(OqsPub(k), m, From(bytes, OqsOffset(CSig)))

HybridVerifyOqs(k, m, bytes) ==          \* mutant: the classical result is not looked at
  OqsVerifies(OqsPub(k), m, From(bytes, OqsOffset(DecodeUint32(bytes))))

(* First the classical part, as long as it says it is, then the rest.       *)
HybridVerify(k, m, bytes) ==
  LET cn == DecodeUint32(bytes) IN
  /\ \E id \in Pkey(k, "cpub") : ClassicVerifies(id, m, Slice(bytes, SizeOfUint32, cn))
  /\ OqsVerifies(OqsPub(k), m, From(bytes, OqsOffset(cn)))

Verify(k, m, bytes) ==
  /\ key[k].pub # NoBuf
  /\ Readable(k, bytes)
  /\ verdict' = [ty |-> key[k].ty, id |-> of[k], msg |-> m, bytes |-> bytes,
             ok |-> IF IsHybrid(k) THEN HybridVerify(k, m, bytes)
                    ELSE OqsVerifies(OqsPub(k), m, bytes)]
  /\ UNCHANGED <<key, of, sig>>

SignNext ==
  \E k \in Keys :
    \/ \E ty \in Types, id \in Ids : Gen(k, ty, id)
    \/ \E l \in Keys, how \in {"params", "spki", "pki"} : Give(k, l, how)
    \/ Free(k)
    \/ \E m \in Msgs, r \in Runs, cn \in 1 .. CSig, qn \in 1 .. QSig : Sign(k, m, r, cn, qn)
    \/ \E m \in Msgs : \E bytes \in Arriving(key[k].ty) : Verify(k, m, bytes)

SignSpec == SignInit /\ [][SignNext]_signVars
-----------------------------------------------------------------------------
(* Plain or hybrid, whole or in pieces, with keys that came whichever way,  *)
(* this is a signature scheme: what a pair signed of a message verifies     *)
(* with any key object of the pair, however long the two parts turned out,  *)
(* and nothing verifies that the pair did not sign before.                  *)
Issued == {[ty |-> sig[r].ty, id |-> sig[r].id, msg |-> sig[r].msg, bytes |-> sig[r].bytes] :
             r \in {s \in Runs : sig[s] # NoSig}}

Scheme == INSTANCE SigScheme WITH
            Pairs <- Ids, Kinds <- Types, Silent <- NoSig, issued <- Issued, answer <- verdict
SchemeRefinement == Scheme!SchemeSpec

(* One half of that, on single states: what a key pair signed verifies with *)
(* any key object of that pair, by whatever way the signer's and the        *)
(* verifier's key came, and however long the two parts turned out.          *)
SignaturesVerify ==
  \A r \in Runs :
    /\ verdict # NoSig /\ verdict.ty = sig[r].ty /\ verdict.id = sig[r].id
    /\ verdict.msg = sig[r].msg /\ verdict.bytes = sig[r].bytes
    => verdict.ok

(* A signature that verifies was made by that pair of that message, in both *)
(* halves: parts of signatures of other pairs or messages, or bytes more or *)
(* less, do not pass, whichever half they are in.                           *)
BothHalvesSign ==
  LET body == {verdict.bytes[i][1] : i \in {j \in DOMAIN verdict.bytes :
                                         Hybrid(verdict.ty) => j >= SizeOfUint32}}
  IN  verdict.ok => /\ \A b \in body : b[2] = verdict.id /\ b[3] = verdict.msg
                /\ {b[1] : b \in body} =
                     IF Hybrid(verdict.ty) THEN {"csig", "qsig"} ELSE {"qsig"}
=============================================================================
