-------------------------------- MODULE OqsKem --------------------------------
(****************************************************************************)
(* Key encapsulation (oqs_kem.c) between the ends of an exchange: a plain   *)
(* OQS KEM, and the hybrid that runs a classical key agreement beside it    *)
(* and concatenates ciphertexts and secrets.                                *)
(*                                                                          *)
(* Keys are those of OqsxKeyLayout, so that a peer works on what it got: a  *)
(* point, a SubjectPublicKeyInfo, a PKCS#8 file.  Cryptography is symbolic: *)
(* an ephemeral key or a ciphertext names its run, a secret names all that  *)
(* went into it.  Ciphertexts may come late, for another session, with      *)
(* halves of two runs, or with a byte too many or too few.                  *)
(*                                                                          *)
(* A context is its key here; OqsxKeyRef has the contexts.  Encapsulating   *)
(* to a key object without public half, or decapsulating without private    *)
(* half, reads through a NULL or stale pointer unchecked: not modelled.     *)
(****************************************************************************)
EXTENDS OqsxKeyLayout

CONSTANTS
  Keys,          \* key objects, at any end
  Types,         \* the kinds of KEM in use
  Runs,          \* encapsulations
  CSec,          \* evp_info->kex_length_secret
  QCt, QSec      \* length_ciphertext and length_shared_secret of liboqs

(* The private keys of the classical agreements have the length of the      *)
(* tables: decapsulation does not look at the length field.  Nobody, who    *)
(* bytes are of that are no key, is none of the pairs.                      *)
ASSUME KemAssumption ==
  /\ {CSec, QCt, QSec} \subseteq Nat \ {0}
  /\ \A id \in Ids : ClassLen[id] = CPriv
  /\ Types \subseteq {"KEM", "HYB_KEM"}
  /\ Nobody \notin Ids

VARIABLES
  key,      \* the key objects
  of,       \* ghost: the pair each stands for
  run,      \* what each encapsulation gave: the pair it was for, ct and secret
  out       \* the last decapsulation: the pair of its key, ct and secret

vars == <<key, of, run, out>>

Failed == <<>>
NoRun == [ty |-> "none", id |-> Nobody, ct |-> <<>>, secret |-> Failed]

-----------------------------------------------------------------------------
(* The libraries.                                                           *)
EphPub(r) == Bytes(CPub, <<"eph", r>>)
Kex(id, r) == Bytes(CSec, <<"kex", id, r>>)
OqsCt(id, r) == Bytes(QCt, <<"ct", id, r>>)
OqsSecret(id, r) == Bytes(QSec, <<"ss", id, r>>)
OqsRejected(id, ct) == Bytes(QSec, <<"rejected", id, ct>>)

(* OQS_KEM_decaps does not fail on a ciphertext for another key.            *)
OqsDecaps(id, ct) ==
  IF \E r \in Runs : ct = OqsCt(id, r)
  THEN OqsSecret(id, CHOOSE r \in Runs : ct = OqsCt(id, r))
  ELSE OqsRejected(id, ct)

(* What is behind the pointers of a key: comp_*[0] of a hybrid with the     *)
(* lengths of its tables, comp_*[numkeys-1].                                *)
ClassicPub(k) == Owner("cpub", Slice(key[k].pub, key[k].compPub.cl, CPub))
ClassicPriv(k) == Owner("cpriv", Slice(key[k].priv, key[k].compPriv.cl, CPriv))
OqsPub(k) == Owner("qpub", Slice(key[k].pub, key[k].compPub.oqs, QPub))
OqsPriv(k) == Owner("qpriv", Slice(key[k].priv, key[k].compPriv.oqs, QPriv))

JoinOverlapping(len0, x, len1, y) ==   \* mutant: the second part is not placed after the first
  Memcpy(Memcpy(Zalloc(len0 + len1), 0, x), 0, y)

(* Two parts in one buffer of the caller's, of the size that was returned:  *)
(* ct1 = ct + ctLen0, secret1 = secret + secretLen0.                        *)
Join(len0, x, len1, y) ==
  Memcpy(Memcpy(Zalloc(len0 + len1), 0, x), len0, y)

CtLen(ty) == IF Hybrid(ty) THEN CPub + QCt ELSE QCt

-----------------------------------------------------------------------------
Init ==
  /\ key = [k \in Keys |-> Unused]
  /\ of = [k \in Keys |-> Nobody]
  /\ run = [r \in Runs |-> NoRun]
  /\ out = NoRun

Gen(k, ty, id) ==
  /\ key[k].st = "none"
  /\ key' = [key EXCEPT ![k] = KeyGen(ty, id)]
  /\ of' = [of EXCEPT ![k] = id]
  /\ UNCHANGED <<run, out>>

(* The key object l makes of what k gives away: as a file, or as the point  *)
(* of a key share set in a key generated to hold it.                        *)
Copies(k, l) ==
  LET from == key[k] IN
  CASE l = "spki" -> IF from.pub = NoBuf THEN {} ELSE KeyOpPublic(from.ty, from.pub)
    [] l = "pki" -> IF from.priv = NoBuf \/ from.pub = NoBuf THEN {}
                    ELSE KeyOpPrivate(from.ty, PkiPrivBytes(from))
    [] l = "point" -> IF from.pub = NoBuf THEN {}
                      ELSE {SetEncodedPub(KeyGen(from.ty, id), PointBytes(from)) : id \in Ids}

Give(k, l, how) ==
  /\ key[k].st # "none"
  /\ key[l].st = "none"
  /\ \E r \in Copies(k, how) : key' = [key EXCEPT ![l] = r]
  /\ of' = [of EXCEPT ![l] = of[k]]
  /\ UNCHANGED <<run, out>>

Free(k) ==
  /\ key[k].st # "none"
  /\ key' = [key EXCEPT ![k] = Unused]
  /\ of' = [of EXCEPT ![k] = Nobody]
  /\ UNCHANGED <<run, out>>

(* oqs_qs_kem_encaps: slot 0 is the only key.                               *)
QsEncaps(k, r) ==
  [ct |-> OqsCt(OqsPub(k), r), secret |-> OqsSecret(OqsPub(k), r)]

EvpEncapsToNobody(k, r) ==       \* mutant: the agreement is made with an ephemeral key of its own
  [ct |-> EphPub(r), secret |-> Kex(Nobody, r)]

(* oqs_evp_kem_encaps_keyslot: an ephemeral key pair, its public key is the *)
(* ciphertext, the agreed secret the secret.                                *)
EvpEncaps(k, r) == [ct |-> EphPub(r), secret |-> Kex(ClassicPub(k), r)]

HybEncaps(k, r) ==
  [ct |-> Join(CPub, EvpEncaps(k, r).ct, QCt, QsEncaps(k, r).ct),
   secret |-> Join(CSec, EvpEncaps(k, r).secret, QSec, QsEncaps(k, r).secret)]

(* EVP_PKEY_encapsulate.  A classical key that is none makes it fail.       *)
Encaps(k, r) ==
  /\ run[r] = NoRun
  /\ key[k].pub # NoBuf
  /\ Hybrid(key[k].ty) => ClassicPub(k) # Nobody
  /\ LET res == IF Hybrid(key[k].ty) THEN HybEncaps(k, r) ELSE QsEncaps(k, r)
     IN  run' = [run EXCEPT ![r] = [ty |-> key[k].ty, id |-> of[k],
                                    ct |-> res.ct, secret |-> res.secret]]
  /\ UNCHANGED <<key, of, out>>

(* Ciphertexts that may arrive for a key of type ty.                        *)
Arriving(ty) ==
  LET sent == {run[r].ct : r \in {s \in Runs : run[s] # NoRun /\ run[s].ty = ty}}
      len == CtLen(ty)
      half == IF Hybrid(ty) THEN CPub ELSE 1
  IN  sent \cup {Slice(x, 0, len - 1) : x \in sent}
           \cup {Memcpy(Zalloc(len + 1), 0, x) : x \in sent}
           \cup {Memcpy(x, 0, Slice(y, 0, half)) : x, y \in sent}

QsDecaps(k, ct) == OqsDecaps(OqsPriv(k), ct)

(* oqs_evp_kem_decaps_keyslot: fails if the ciphertext is no public key.    *)
EvpDecaps(k, ct) ==
  LET eph == {r \in Runs : ct = EphPub(r)}
  IN  IF ClassicPriv(k) = Nobody \/ eph = {} THEN Failed
      ELSE Kex(ClassicPriv(k), CHOOSE r \in eph : TRUE)

HybDecapsAnyLength(k, ct) ==     \* mutant: the length of the ciphertext is not checked
  LET secret0 == EvpDecaps(k, Slice(ct, 0, CPub))
  IN  IF \A i \in 0 .. CtLen("HYB_KEM") - 1 : i \in DOMAIN ct
      THEN IF secret0 = Failed THEN Failed
           ELSE Join(CSec, secret0, QSec, QsDecaps(k, Slice(ct, CPub, QCt)))
      ELSE Failed

HybDecaps(k, ct) ==
  IF DOMAIN ct # 0 .. CtLen("HYB_KEM") - 1 THEN Failed
  ELSE LET secret0 == EvpDecaps(k, Slice(ct, 0, CPub))
       IN  IF secret0 = Failed THEN Failed
           ELSE Join(CSec, secret0, QSec, QsDecaps(k, Slice(ct, CPub, QCt)))

(* EVP_PKEY_decapsulate.  For a plain KEM the provider ignores inlen and    *)
(* liboqs reads a whole ciphertext: too short a one is read past its end.   *)
Decaps(k, ct) ==
  /\ key[k].priv # NoBuf
  /\ key[k].ty = "KEM" => 0 .. QCt - 1 \subseteq DOMAIN ct
  /\ out' = [ty |-> key[k].ty, id |-> of[k], ct |-> ct,
             secret |-> IF Hybrid(key[k].ty) THEN HybDecaps(k, ct)
                        ELSE QsDecaps(k, Slice(ct, 0, QCt))]
  /\ UNCHANGED <<key, of, run>>

Next ==
  \/ \E k \in Keys :
       \/ \E ty \in Types, id \in Ids : Gen(k, ty, id)
       \/ \E l \in Keys, how \in {"spki", "pki", "point"} : Give(k, l, how)
       \/ Free(k)
       \/ \E r \in Runs : Encaps(k, r)
       \/ \E ct \in Arriving(key[k].ty) : Decaps(k, ct)

Spec == Init /\ [][Next]_vars
-----------------------------------------------------------------------------
(* Whoever holds the private half of the pair a run encapsulated to gets    *)
(* the secret of that run from its ciphertext, however both ends got their  *)
(* keys.                                                                    *)
SecretsAgree ==
  \A r \in Runs :
    out # NoRun /\ out.ty = run[r].ty /\ out.ct = run[r].ct /\ out.id = run[r].id
    => out.secret = run[r].secret

(* A hybrid secret takes both halves: nobody arrives at the secret of a run *)
(* with another key pair, or with a ciphertext of which a byte differs,     *)
(* whichever half that byte is in.                                          *)
SecretsBind ==
  \A r \in Runs :
    Hybrid(out.ty) /\ out.secret # Failed /\ out.secret = run[r].secret
    => out.id = run[r].id /\ out.ct = run[r].ct

(* No part of a secret is left as the caller's buffer was.                  *)
SecretsWhole ==
  \A x \in {out} \cup {run[r] : r \in Runs} :
    \A i \in DOMAIN x.secret : x.secret[i] # <<"zero">>
=============================================================================
