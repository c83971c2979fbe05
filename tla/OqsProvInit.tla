----------------------------- MODULE OqsProvInit -----------------------------
(****************************************************************************)
(* Loading and unloading the provider (oqsprov.c) in the library contexts   *)
(* of one process.  The loads run in any threads, with no lock of their     *)
(* own, and share libcrypto's objects and the provider's static tables: the *)
(* OIDs and TLS code points, both patched from the environment, the NIDs by *)
(* which the key code finds an algorithm (oqsprov_keys.c) and the types the *)
(* decoders have found (oqs_decode_der2key.c).                              *)
(*                                                                          *)
(* An object table is a sequence and a NID the position in it, 0 for none.  *)
(* The application may change the environment once after the first load     *)
(* began, but not while the provider reads it; what the lists got from it   *)
(* before stays as it was (setenv of glibc does not reuse the memory).  The *)
(* core answers "openssl-version" (libcrypto's always does), so that strcmp *)
(* gets a string.                                                           *)
(****************************************************************************)
EXTENDS Naturals, Sequences, SequencesExt

CONSTANTS
  Loads,         \* library contexts that load the provider, each once
  OidList,       \* algorithm names in the order of oqs_oid_alg_list
  NidNames,      \* algorithm names in the order of nid_names
  Kems,          \* those of them that are KEMs (OQS_KEM_ENCODERS)
  Enabled,       \* algorithms this build of liboqs has
  DefaultOid,    \* the OID oqs_oid_alg_list has for each before patching
  TlsNames,      \* per capability, the names in the order of oqs_group_list
                 \* and oqs_sigalg_list
  DefaultCode,   \* the code point each of them has there before patching
  Environments,  \* [oid, code]: functions from some names to the values of
                 \* their OQS_OID_ and OQS_CODEPOINT_ variables
  Preloaded      \* objects libcrypto may hold before any load

Algs == Range(OidList)
Capabilities == {"TLS-GROUP", "TLS-SIGALG"}

(* The generator writes both tables from one list; a name has one row, and  *)
(* has one in the builds modelled, those with OQS_KEM_ENCODERS.  OBJ_create *)
(* refuses an OID or a name that libcrypto's table has.                     *)
ASSUME InitAssumption ==
  /\ OidList \in Seq(Algs) /\ OidList # <<>> /\ NidNames \in Seq(Algs)
  /\ IsInjective(OidList) /\ IsInjective(NidNames)
  /\ Range(NidNames) = Algs
  /\ Kems \subseteq Algs /\ Enabled \subseteq Algs
  /\ \A t \in Preloaded :
       /\ t \in Seq(Range(t))
       /\ \A i, j \in DOMAIN t : t[i].oid = t[j].oid \/ t[i].sn = t[j].sn => i = j
  /\ DOMAIN DefaultOid = Algs
  /\ DOMAIN TlsNames = Capabilities
  /\ \A c \in Capabilities : IsInjective(TlsNames[c])
  /\ \A e \in Environments :
       /\ DOMAIN e.oid \subseteq Algs
       /\ DOMAIN e.code \subseteq DOMAIN DefaultCode

VARIABLES
  host,     \* the process: objects before any load, whether the core has the
            \* functions, is 3.1.0, is not the libcrypto the provider is
            \* linked with
  env,      \* the environment
  moved,    \* whether it changed after the first load began
  objs,     \* libcrypto's object tables: the core's, the provider's own copy
  sigids,   \* names the core takes as signature algorithms
  oid,      \* oqs_oid_alg_list
  code,     \* oqs_group_list[].group_id, oqs_sigalg_list[].code_point
  nid,      \* nid_names[].nid
  evpType,  \* evp_type of the decoders' descriptors
  load      \* the loads

process == <<host, env, moved>>
tables == <<objs, sigids, oid, code, nid>>
vars == <<process, tables, evpType, load>>

-----------------------------------------------------------------------------
(* libcrypto's object table.                                                *)
Txt2nid(t, o) == SelectInSeq(t, LAMBDA r : r.oid = o)
Sn2nid(t, a) == SelectInSeq(t, LAMBDA r : r.sn = a)

Creates(t, o, a) == Txt2nid(t, o) = 0 /\ Sn2nid(t, a) = 0
ObjCreate(t, o, a) == IF Creates(t, o, a) THEN Append(t, [oid |-> o, sn |-> a])
                      ELSE t

(* The table OBJ_create and OBJ_sn2nid of the provider reach.               *)
Own == IF host.ownCopy THEN "own" ELSE "core"

-----------------------------------------------------------------------------
(* The provider's tables.                                                   *)

(* oqs_group_list and oqs_sigalg_list as compiled.                          *)
CodesAsBuilt == [c \in Capabilities |->
                   [i \in DOMAIN TlsNames[c] |-> DefaultCode[TlsNames[c][i]]]]

(* Whatever the environment does not name stays as it is.                   *)
PatchOids(e, list) == [a \in Algs |-> IF a \in DOMAIN e THEN e[a] ELSE list[a]]

PatchCodes(e, lists) ==
  [c \in Capabilities |-> [i \in DOMAIN TlsNames[c] |->
     LET a == TlsNames[c][i] IN IF a \in DOMAIN e THEN e[a] ELSE lists[c][i]]]

(* The positions whose algorithm the build has.                             *)
Entries(c) == {i \in DOMAIN TlsNames[c] : TlsNames[c][i] \in Enabled}

(* A bug: the entries that the build has, in the rows of all.               *)
AnnouncedByRank(c) ==
  LET names == SelectSeq(TlsNames[c], LAMBDA a : a \in Enabled)
  IN {[name |-> names[i], code |-> code[c][i]] : i \in DOMAIN names}

(* What oqs_provider_get_capabilities tells: an entry names its row.        *)
Announced(c) ==
  {[name |-> TlsNames[c][i], code |-> code[c][i]] : i \in Entries(c)}

(* get_oqsname, get_keytype, get_secbits, get_oqsalg_idx: the first row.    *)
FirstWith(n) == LET i == SelectInSeq(NidNames, LAMBDA a : nid[a] = n)
                IN IF i = 0 THEN "none" ELSE NidNames[i]

(* oqsx_key_new_from_nid, for the OID of a key in a file.                   *)
OfOid(o) == FirstWith(Txt2nid(objs[Own], o))

Offers(operation) ==
  CASE operation = "SIGNATURE" -> Enabled \ Kems
    [] operation = "KEM" -> Enabled \cap Kems
    [] operation \in {"KEYMGMT", "ENCODER", "DECODER"} -> Enabled
    [] OTHER -> {}

-----------------------------------------------------------------------------
Running(l) == load[l].pc \notin {"new", "loaded", "failed", "unloaded"}
Alg(l) == OidList[load[l].i]

Idle == [pc |-> "new", i |-> 1, nid |-> 0, alone |-> TRUE, oom |-> FALSE, unseen |-> FALSE,
         biometh |-> "none", libctx |-> "none", provctx |-> "none"]

Init ==
  /\ host \in [pre : Preloaded, fns : BOOLEAN, is310 : BOOLEAN, ownCopy : BOOLEAN]
  /\ env \in Environments
  /\ moved = FALSE
  /\ objs = [lib \in {"core", "own"} |-> host.pre]
  /\ sigids = {}
  /\ oid = DefaultOid
  /\ code = CodesAsBuilt
  /\ nid = [a \in Algs |-> 0]
  /\ evpType = [a \in Algs |-> 0]
  /\ load = [l \in Loads |-> Idle]

(* setenv or unsetenv by the application.                                   *)
SetEnv ==
  /\ ~moved /\ \E l \in Loads : load[l].pc # "new"
  /\ env' \in Environments \ {env}
  /\ moved' = TRUE
  /\ UNCHANGED <<host, objs, sigids, oid, code, nid, evpType, load>>

Goto(l, pc) == load' = [load EXCEPT ![l].pc = pc]

(* An allocation fails: to the end, with what happened noted.               *)
OutOfMemory(l) ==
  /\ load' = [load EXCEPT ![l].pc = "end", ![l].oom = TRUE]
  /\ UNCHANGED tables

(* OSSL_provider_init up to the loop.  alone is a ghost: no other load ran  *)
(* while this one did.                                                      *)
Start(l) ==
  LET others == {m \in Loads \ {l} : Running(m)} IN
  /\ load[l].pc = "new"
  /\ oid' = PatchOids(env.oid, oid)
  /\ code' = PatchCodes(env.code, code)
  /\ load' = [m \in Loads |->
       CASE m = l -> [load[l] EXCEPT !.alone = others = {},
                                     !.pc = IF host.fns THEN "lookup" ELSE "end"]
         [] m \in others -> [load[m] EXCEPT !.alone = FALSE]
         [] OTHER -> load[m]]
  /\ UNCHANGED <<objs, sigids, nid, evpType>>

(* A bug: no look.                                                          *)
LookupNever(l) ==
  /\ load[l].pc = "lookup"
  /\ Goto(l, "create")
  /\ UNCHANGED tables

(* c_obj_create looks whether the OID is there, and creates it if not.  An  *)
(* OID that is another name's will do for it: a failure the provider does   *)
(* not see, if its own name is nowhere.                                     *)
Lookup(l) ==
  LET t == objs["core"]  n == Txt2nid(t, oid[Alg(l)]) IN
  /\ load[l].pc = "lookup"
  /\ load' = [load EXCEPT ![l].pc = IF n # 0 THEN "again" ELSE "create",
                          ![l].unseen = @ \/ (n # 0 /\ Sn2nid(t, Alg(l)) = 0)]
  /\ UNCHANGED tables

(* A bug: the OID the list had before it was patched.                       *)
CreateUnpatched(l) ==
  LET a == Alg(l) IN
  /\ load[l].pc = "create"
  /\ objs' = [objs EXCEPT !["core"] = ObjCreate(@, DefaultOid[a], a)]
  /\ Goto(l, IF Creates(objs["core"], DefaultOid[a], a) THEN "again" ELSE "end")
  /\ UNCHANGED <<sigids, oid, code, nid>>

Create(l) ==
  LET a == Alg(l) IN
  /\ load[l].pc = "create"
  /\ \/ /\ objs' = [objs EXCEPT !["core"] = ObjCreate(@, oid[a], a)]
        /\ Goto(l, IF Creates(objs["core"], oid[a], a) THEN "again" ELSE "end")
        /\ UNCHANGED <<sigids, oid, code, nid>>
     \/ OutOfMemory(l)

(* OBJ_create, its result ignored; not with core 3.1.0.                     *)
CreateAgain(l) ==
  LET a == Alg(l) IN
  /\ load[l].pc = "again"
  /\ \/ /\ objs' = IF host.is310 THEN objs
                   ELSE [objs EXCEPT ![Own] = ObjCreate(@, oid[a], a)]
        /\ Goto(l, "read")
     \/ /\ load' = [load EXCEPT ![l].pc = "read", ![l].oom = TRUE,
                                ![l].unseen = @ \/ host.ownCopy]
        /\ UNCHANGED objs
  /\ UNCHANGED <<sigids, oid, code, nid>>

(* A bug: only what was just created has a NID, as OBJ_create returns it.   *)
ReadNidCreated(l) ==
  LET n == Sn2nid(objs[Own], Alg(l)) IN
  /\ load[l].pc = "read"
  /\ load' = [load EXCEPT ![l].nid = IF n = Len(objs[Own]) THEN n ELSE 0,
                          ![l].pc = "set"]
  /\ UNCHANGED tables

(* oqs_set_nid is called with an OBJ_sn2nid from before.                    *)
ReadNid(l) ==
  /\ load[l].pc = "read"
  /\ load' = [load EXCEPT ![l].nid = Sn2nid(objs[Own], Alg(l)), ![l].pc = "set"]
  /\ UNCHANGED tables

(* A bug: the row at the place the algorithm has in the other list.         *)
SetNidByPosition(l) ==
  /\ load[l].pc = "set"
  /\ nid' = [nid EXCEPT ![NidNames[load[l].i]] = load[l].nid]
  /\ Goto(l, "sigid")
  /\ UNCHANGED <<objs, sigids, oid, code>>

SetNid(l) ==
  LET a == Alg(l) IN
  /\ load[l].pc = "set"
  /\ nid' = IF a \in Range(NidNames) THEN [nid EXCEPT ![a] = load[l].nid] ELSE nid
  /\ Goto(l, IF a \in Range(NidNames) THEN "sigid" ELSE "end")
  /\ UNCHANGED <<objs, sigids, oid, code>>

AddSigid(l) ==
  LET known == Sn2nid(objs["core"], Alg(l)) # 0 IN
  /\ load[l].pc = "sigid"
  /\ \/ /\ sigids' = IF known THEN sigids \cup {Alg(l)} ELSE sigids
        /\ Goto(l, IF known THEN "check" ELSE "end")
        /\ UNCHANGED <<objs, oid, code, nid>>
     \/ OutOfMemory(l)

CheckNid(l) ==
  LET found == Sn2nid(objs[Own], Alg(l)) # 0
      last == load[l].i = Len(OidList) IN
  /\ load[l].pc = "check"
  /\ load' = [load EXCEPT
       ![l].pc = IF ~found THEN "end" ELSE IF last THEN "biometh" ELSE "lookup",
       ![l].i = IF found /\ ~last THEN @ + 1 ELSE @]
  /\ UNCHANGED tables

(* The method, the child context and the provider context, in this order.   *)
NewBioMeth(l) ==
  /\ load[l].pc = "biometh"
  /\ \/ /\ load' = [load EXCEPT ![l].biometh = "live", ![l].pc = "libctx"]
        /\ UNCHANGED tables
     \/ OutOfMemory(l)

NewLibctx(l) ==
  /\ load[l].pc = "libctx"
  /\ \/ /\ load' = [load EXCEPT ![l].libctx = "live", ![l].pc = "provctx"]
        /\ UNCHANGED tables
     \/ OutOfMemory(l)

NewProvctx(l) ==
  /\ load[l].pc = "provctx"
  /\ \/ /\ load' = [load EXCEPT ![l].provctx = "live", ![l].pc = "loaded"]
        /\ UNCHANGED tables
     \/ OutOfMemory(l)

(* Freeing NULL does nothing.                                               *)
Free(h) == CASE h = "live" -> "freed" [] h = "freed" -> "twice" [] OTHER -> h

FreeProvctx(d) == [d EXCEPT !.libctx = Free(@), !.biometh = Free(@),
                            !.provctx = Free(@)]

(* A bug: all that may have been made is freed, the child context by both.  *)
CleanupBoth(d) == FreeProvctx([d EXCEPT !.libctx = Free(@)])

Cleanup(d) == LET e == [d EXCEPT !.libctx = Free(@)]
              IN IF d.provctx # "none" THEN FreeProvctx(e) ELSE e

EndInit(l) ==
  /\ load[l].pc = "end"
  /\ load' = [load EXCEPT ![l] = [Cleanup(@) EXCEPT !.pc = "failed"]]
  /\ UNCHANGED tables

Teardown(l) ==
  /\ load[l].pc = "loaded"
  /\ load' = [load EXCEPT ![l] = [FreeProvctx(@) EXCEPT !.pc = "unloaded"]]
  /\ UNCHANGED tables

(* A bug: the NID of the row at the place the algorithm has in the other    *)
(* list.                                                                    *)
NewDecoderByPosition(l, a) ==
  /\ load[l].pc = "loaded" /\ a \in Offers("DECODER") /\ evpType[a] = 0
  /\ evpType' = [evpType EXCEPT ![a] = nid[NidNames[SelectInSeq(OidList, LAMBDA b : b = a)]]]
  /\ UNCHANGED <<objs, sigids, oid, code, nid, load>>

(* der2key_newctx: the first decoder of an algorithm in the process, in any *)
(* library context, finds the type that all later ones compare OIDs with.   *)
NewDecoder(l, a) ==
  /\ load[l].pc = "loaded" /\ a \in Offers("DECODER") /\ evpType[a] = 0
  /\ evpType' = [evpType EXCEPT ![a] = Sn2nid(objs[Own], a)]
  /\ UNCHANGED <<objs, sigids, oid, code, nid, load>>

Next ==
  \/ SetEnv
  \/ \E l \in Loads :
       /\ \/ Start(l)
          \/ /\ \/ Lookup(l) \/ Create(l) \/ CreateAgain(l) \/ ReadNid(l)
                \/ SetNid(l) \/ AddSigid(l) \/ CheckNid(l)
                \/ NewBioMeth(l) \/ NewLibctx(l) \/ NewProvctx(l)
                \/ EndInit(l) \/ Teardown(l)
             /\ UNCHANGED evpType
          \/ \E a \in Algs : NewDecoder(l, a)
       /\ UNCHANGED process

Spec == Init /\ [][Next]_vars

-----------------------------------------------------------------------------
(* No name or OID of the list stands in the way of another, or of a row.    *)
Registrable(rows) ==
  /\ IsInjective(oid)
  /\ \A r \in rows, a \in Algs : r.oid = oid[a] <=> r.sn = a

(* An object was not created and the provider went on: a load then sets     *)
(* NID 0, over the NID another load has set since.                          *)
NothingUnseen == \A l \in Loads : ~load[l].unseen

(* Where the provider is loaded, whatever loads ran before or run beside    *)
(* it, each algorithm it decodes keys of or offers at all is found by its   *)
(* NID, is no other's, and the core takes it as a signature name.           *)
LoadedKnowsAlgorithms ==
  \A l \in Loads : load[l].pc = "loaded" /\ NothingUnseen =>
    \A a \in Offers("KEYMGMT") \cup Offers("DECODER") :
      /\ nid[a] # 0
      /\ nid[a] = Sn2nid(objs[Own], a)
      /\ FirstWith(nid[a]) = a
      /\ a \in sigids

(* The type a decoder's descriptor has kept since its first use, in another *)
(* load perhaps, is that of its algorithm: the decoder takes the key files  *)
(* of this algorithm and of no other, as long as the process lives.         *)
DecodersKnowTheirType ==
  NothingUnseen => \A a \in Algs : evpType[a] # 0 =>
    evpType[a] = nid[a] /\ FirstWith(evpType[a]) = a

(* The OID that a loaded provider writes into key files leads back to the   *)
(* algorithm, whatever the environment became since; it is the one the list *)
(* and the environment have if they never changed and could be registered.  *)
OidsLeadToAlgorithms ==
  \A l \in Loads : load[l].pc = "loaded" /\ NothingUnseen =>
    \A a \in Enabled :
      /\ OfOid(objs[Own][nid[a]].oid) = a
      /\ ~moved /\ Registrable(Range(host.pre)) => OfOid(oid[a]) = a

(* A load that no other load overlaps fails, where no allocation does and   *)
(* the core has what it needs, only because of names or OIDs that conflict  *)
(* with the objects the process began with; if the environment has changed, *)
(* with objects registered since.  What earlier loads registered by the     *)
(* same list, those included that failed half way, is never in its way.     *)
LoneLoadsSucceed ==
  [][\A l \in Loads :
       load[l].pc = "end" /\ load'[l].pc = "failed" /\ load[l].alone /\ ~load[l].oom
         => \/ ~host.fns
            \/ host.is310 /\ host.ownCopy
            \/ ~Registrable(Range(IF moved THEN objs["core"] ELSE host.pre))]_vars

(* A provider that is loaded holds its three resources, one that is         *)
(* unloaded none; a load that failed holds at most the BIO method, and that *)
(* only if an allocation after it failed; nothing is freed twice.           *)
ResourcesFollowTheLoad ==
  \A l \in Loads :
    /\ load[l].pc = "loaded" =>
         \A h \in {load[l].biometh, load[l].libctx, load[l].provctx} : h = "live"
    /\ load[l].pc \in {"failed", "unloaded"} =>
         /\ load[l].libctx # "live"
         /\ load[l].provctx # "live"
         /\ load[l].biometh = "live" => load[l].pc = "failed" /\ load[l].oom
    /\ "twice" \notin {load[l].biometh, load[l].libctx, load[l].provctx}

(* TLS is told each algorithm the build has, and no other, with the code    *)
(* point of its own variable or row, however many loads patched the rows    *)
(* and whichever algorithms the build leaves out.                           *)
OwnCodePoints ==
  ~moved => \A l \in Loads : load[l].pc = "loaded" =>
    \A c \in Capabilities :
      Announced(c) = {[name |-> a, code |-> IF a \in DOMAIN env.code THEN env.code[a]
                                            ELSE DefaultCode[a]] :
                        a \in Range(TlsNames[c]) \cap Enabled}

(* A NID, once set, stays: keys and contexts of a loaded provider go on to  *)
(* find their algorithm while others load, fail to, or unload.              *)
NidsStick ==
  [][NothingUnseen => \A a \in Algs : nid[a] # 0 => nid'[a] = nid[a]]_vars

=============================================================================
