--------------------------- MODULE OqsProv_proofs ---------------------------
(****************************************************************************)
(* Proofs about the provider proper: its loads and unloads (OqsProvInit),   *)
(* for any number of loads, any tables and environments; and, in the last   *)
(* part, its encoders and decoders (OqsCodec), for any set of algorithms    *)
(* and of ciphers and both NOPUBKEY_IN_PRIVKEY builds.                      *)
(****************************************************************************)
EXTENDS OqsProvInit, OqsCodec, SequenceTheorems, TLAPS

LEMMA AlgsKnown ==
  /\ Len(OidList) \in Nat \ {0}
  /\ \A i \in 1 .. Len(OidList) : OidList[i] \in Algs
  /\ \A a \in Algs : \E i \in 1 .. Len(OidList) : OidList[i] = a
<1>1. OidList \in Seq(Algs) /\ OidList # <<>>  BY InitAssumption
<1>2. DOMAIN OidList = 1 .. Len(OidList) /\ Len(OidList) \in Nat  BY <1>1
<1>3. Len(OidList) # 0  BY <1>1
<1>4. QED  BY <1>1, <1>2, <1>3 DEF Algs, Range

-----------------------------------------------------------------------------
(* libcrypto's object table.                                                *)

\* A table in which no OID and no name is twice.
Table(t) ==
  /\ t \in Seq(Range(t))
  /\ \A i, j \in 1 .. Len(t) : t[i].oid = t[j].oid \/ t[i].sn = t[j].sn => i = j

\* Where at most one element passes, SelectInSeq is its position.
LEMMA TheOneSelected ==
  ASSUME NEW t, Table(t), NEW a
  PROVE  /\ Sn2nid(t, a) \in 0 .. Len(t)
         /\ Sn2nid(t, a) # 0 => t[Sn2nid(t, a)].sn = a
         /\ \A i \in 1 .. Len(t) : t[i].sn = a => Sn2nid(t, a) = i
         /\ Txt2nid(t, a) \in 0 .. Len(t)
         /\ Txt2nid(t, a) # 0 => t[Txt2nid(t, a)].oid = a
         /\ \A i \in 1 .. Len(t) : t[i].oid = a => Txt2nid(t, a) = i
<1>0. Len(t) \in Nat  BY DEF Table
<1>1. /\ Sn2nid(t, a) \in 0 .. Len(t)
      /\ Sn2nid(t, a) # 0 => t[Sn2nid(t, a)].sn = a
      /\ \A i \in 1 .. Len(t) : t[i].sn = a => Sn2nid(t, a) = i
  <2> DEFINE I == {i \in 1 .. Len(t) : t[i].sn = a}
  <2>1. Sn2nid(t, a) = IF I # {} THEN Min(I) ELSE 0
    BY DEF Sn2nid, SelectInSeq
  <2>2. CASE I = {}
    BY <2>1, <2>2, <1>0
  <2>3. ASSUME NEW i \in I PROVE I = {i} /\ i \in 1 .. Len(t)
    BY DEF Table
  <2>4. \A i \in I : Min(I) = i
    BY <2>3 DEF Min
  <2>5. QED  BY <2>1, <2>2, <2>3, <2>4, <1>0
<1>2. /\ Txt2nid(t, a) \in 0 .. Len(t)
      /\ Txt2nid(t, a) # 0 => t[Txt2nid(t, a)].oid = a
      /\ \A i \in 1 .. Len(t) : t[i].oid = a => Txt2nid(t, a) = i
  <2> DEFINE I == {i \in 1 .. Len(t) : t[i].oid = a}
  <2>1. Txt2nid(t, a) = IF I # {} THEN Min(I) ELSE 0
    BY DEF Txt2nid, SelectInSeq
  <2>2. CASE I = {}
    BY <2>1, <2>2, <1>0
  <2>3. ASSUME NEW i \in I PROVE I = {i} /\ i \in 1 .. Len(t)
    BY DEF Table
  <2>4. \A i \in I : Min(I) = i
    BY <2>3 DEF Min
  <2>5. QED  BY <2>1, <2>2, <2>3, <2>4, <1>0
<1>3. QED  BY <1>1, <1>2

\* A table only grows: what it has keeps its place, and one row more at most
\* is there after a creation.
LEMMA CreateGrows ==
  ASSUME NEW t, Table(t), NEW o, NEW a, NEW u, u = ObjCreate(t, o, a)
  PROVE  /\ Table(u) /\ Len(t) \leq Len(u)
         /\ \A i \in 1 .. Len(t) : u[i] = t[i]
         /\ \A i \in 1 .. Len(u) : i > Len(t) => u[i].oid = o /\ u[i].sn = a
         /\ Creates(t, o, a) => Sn2nid(u, a) = Len(t) + 1
         /\ ~Creates(t, o, a) => u = t
<1>1. Len(t) \in Nat /\ t \in Seq(Range(t))  BY DEF Table
<1>2. CASE ~Creates(t, o, a)
  <2>1. u = t  BY <1>2 DEF ObjCreate
  <2>2. QED  BY <2>1, <1>1, <1>2
<1>3. CASE Creates(t, o, a)
  <2> DEFINE r == [oid |-> o, sn |-> a]
  <2>1. u = Append(t, r)  BY <1>3 DEF ObjCreate
  <2>2. u \in Seq(Range(t) \cup {r})  BY <1>1, <2>1
  <2>3. Len(u) = Len(t) + 1 /\ u[Len(t) + 1] = r /\ \A i \in 1 .. Len(t) : u[i] = t[i]
    BY <1>1, <2>1
  <2>4. \A i \in 1 .. Len(t) : t[i].oid # o /\ t[i].sn # a
    BY <1>1, <1>3, TheOneSelected DEF Creates
  <2>5. r.oid = o /\ r.sn = a  OBVIOUS
  <2> HIDE DEF r
  <2>6. \A i, j \in 1 .. Len(u) : u[i].oid = u[j].oid \/ u[i].sn = u[j].sn => i = j
    <3> SUFFICES ASSUME NEW i \in 1 .. Len(u), NEW j \in 1 .. Len(u),
                        u[i].oid = u[j].oid \/ u[i].sn = u[j].sn
                 PROVE  i = j
      OBVIOUS
    <3>1. CASE i \in 1 .. Len(t) /\ j \in 1 .. Len(t)
      BY <3>1, <2>3 DEF Table
    <3>2. CASE i = Len(t) + 1 \/ j = Len(t) + 1
      BY <3>2, <2>3, <2>4, <2>5, <1>1
    <3>3. QED  BY <3>1, <3>2, <2>3, <1>1
  <2>7. u \in Seq(Range(u))
    <3>1. DOMAIN u = 1 .. Len(u)  BY <2>2
    <3>2. \A i \in 1 .. Len(u) : u[i] \in Range(u)  BY <3>1 DEF Range
    <3>3. u \in [1 .. Len(u) -> Range(u)] /\ Len(u) \in Nat
      BY <2>2, <3>1, <3>2
    <3>4. u \in UNION {[1 .. n -> Range(u)] : n \in Nat}  BY <3>3
    <3>5. QED  BY <3>4, SeqDef, Zenon
  <2>8. Table(u)  BY <2>6, <2>7 DEF Table
  <2>9. Sn2nid(u, a) = Len(t) + 1
    BY <2>3, <2>5, <2>8, TheOneSelected, <1>1
  <2>10. QED  BY <2>3, <2>5, <2>8, <2>9, <1>1, <1>3
<1>4. QED  BY <1>2, <1>3

-----------------------------------------------------------------------------
(* The inductive invariant.                                                 *)

Libs == {"core", "own"}
Working == {"lookup", "create", "again", "read", "set", "sigid", "check"}
Making == {"biometh", "libctx", "provctx"}
Pcs == {"new", "end", "loaded", "failed", "unloaded"} \cup Working \cup Making

LoadRecords ==
  [pc : Pcs, i : 1 .. Len(OidList), nid : Nat, alone : BOOLEAN, oom : BOOLEAN, unseen : BOOLEAN,
   biometh : {"none", "live", "freed"}, libctx : {"none", "live", "freed"},
   provctx : {"none", "live", "freed"}]

TypeInv ==
  /\ host \in [pre : Preloaded, fns : BOOLEAN, is310 : BOOLEAN, ownCopy : BOOLEAN]
  /\ moved \in BOOLEAN
  /\ objs = [lib \in Libs |-> objs[lib]]
  /\ nid \in [Algs -> Nat] /\ evpType \in [Algs -> Nat]
  /\ load \in [Loads -> LoadRecords]

\* What each load has of its three resources.
Resources(d) == <<d.biometh, d.libctx, d.provctx>>
ResInv(d) ==
  /\ d.pc \in {"new"} \cup Working \cup {"biometh"} => Resources(d) = <<"none", "none", "none">>
  /\ d.pc = "libctx" => Resources(d) = <<"live", "none", "none">>
  /\ d.pc = "provctx" => Resources(d) = <<"live", "live", "none">>
  /\ d.pc = "loaded" => Resources(d) = <<"live", "live", "live">>
  /\ d.pc = "end" => d.provctx = "none" /\ d.libctx \in {"none", "live"}
                     /\ d.biometh \in {"none", "live"} /\ (d.biometh = "live" => d.oom)
  /\ d.pc \in {"failed", "unloaded"} =>
       /\ d.libctx # "live" /\ d.provctx # "live"
       /\ d.biometh = "live" => d.pc = "failed" /\ d.oom

\* Some load has read the environment.
Begun == \E l \in Loads : load[l].pc # "new"

\* The list will not change any more.
Settled == moved /\ oid = PatchOids(env.oid, oid)

\* What was registered after the process began is as the list has it now.
ByTheList ==
  \A lib \in Libs : \A i \in 1 .. Len(objs[lib]) :
    i > Len(host.pre) => objs[lib][i].oid = oid[objs[lib][i].sn]

TablesInv ==
  /\ \A lib \in Libs :
       /\ Table(objs[lib]) /\ Len(host.pre) \leq Len(objs[lib])
       /\ \A i \in 1 .. Len(host.pre) : objs[lib][i] = host.pre[i]
       /\ \A i \in 1 .. Len(objs[lib]) : i > Len(host.pre) => objs[lib][i].sn \in Algs
  /\ ByTheList \/ Settled
  /\ ~Begun => \A lib \in Libs : Len(objs[lib]) = Len(host.pre)
  /\ Begun /\ ~moved => oid = PatchOids(env.oid, oid)

\* A NID that was read or kept is the one libcrypto knows the name by.
NidInv ==
  /\ \A a \in Algs : nid[a] # 0 => nid[a] = Sn2nid(objs[Own], a)
  /\ \A a \in Algs : evpType[a] # 0 => evpType[a] = Sn2nid(objs[Own], a)
  /\ \A l \in Loads : load[l].pc = "set" /\ load[l].nid # 0 =>
       load[l].nid = Sn2nid(objs[Own], Alg(l))

\* The provider's own copy of libcrypto will never have this name: no load
\* gets past it.
Doomed(a) ==
  /\ host.ownCopy /\ Sn2nid(objs["own"], a) = 0
  /\ host.is310 \/ (Settled /\ Txt2nid(objs["own"], oid[a]) # 0)

\* Algorithms this load is done with.
Passed(l) == {OidList[j] : j \in {j \in 1 .. Len(OidList) :
                j < load[l].i \/ load[l].pc \in Making \cup {"loaded"}}}

\* How far a load that missed nothing is.
SeenLoad(l) ==
  /\ load[l].pc \in Working \ {"lookup", "create"} => Sn2nid(objs["core"], Alg(l)) # 0
  /\ load[l].pc = "read" => Sn2nid(objs[Own], Alg(l)) # 0 \/ Doomed(Alg(l))
  /\ load[l].pc = "set" => load[l].nid # 0 \/ Doomed(Alg(l))
  /\ load[l].pc \in {"sigid", "check"} => nid[Alg(l)] # 0 \/ Doomed(Alg(l))
  /\ \A a \in Passed(l) : nid[a] # 0

OwnInCore == \A a \in Algs : Sn2nid(objs["own"], a) # 0 => Sn2nid(objs["core"], a) # 0

SeenInv ==
  /\ OwnInCore
  /\ \A a \in Algs : evpType[a] # 0 => nid[a] # 0
  /\ \A l \in Loads : SeenLoad(l)

SigidLoad(l) ==
  /\ load[l].pc = "check" => Alg(l) \in sigids
  /\ \A a \in Passed(l) : a \in sigids

\* The rows of the TLS capabilities, while the environment is what it was.
CodesInv ==
  /\ ~Begun => code = CodesAsBuilt
  /\ Begun /\ ~moved => code = PatchCodes(env.code, CodesAsBuilt)

IInv ==
  /\ TypeInv /\ TablesInv /\ NidInv /\ CodesInv
  /\ \A l \in Loads : ResInv(load[l]) /\ SigidLoad(l)
  /\ NothingUnseen => SeenInv

-----------------------------------------------------------------------------
(* The tables as they grow.                                                 *)

LEMMA SnStays ==
  ASSUME NEW t, NEW u, Table(t), Table(u), Len(t) \leq Len(u), \A i \in 1 .. Len(t) : u[i] = t[i],
         NEW a
  PROVE  /\ Sn2nid(t, a) # 0 => Sn2nid(u, a) = Sn2nid(t, a)
         /\ Txt2nid(t, a) # 0 => Txt2nid(u, a) = Txt2nid(t, a)
<1>1. Len(t) \in Nat /\ Len(u) \in Nat  BY DEF Table
<1>2. /\ Sn2nid(t, a) \in 0 .. Len(t) /\ (Sn2nid(t, a) # 0 => t[Sn2nid(t, a)].sn = a)
      /\ \A i \in 1 .. Len(u) : u[i].sn = a => Sn2nid(u, a) = i
      /\ Txt2nid(t, a) \in 0 .. Len(t) /\ (Txt2nid(t, a) # 0 => t[Txt2nid(t, a)].oid = a)
      /\ \A i \in 1 .. Len(u) : u[i].oid = a => Txt2nid(u, a) = i
  BY TheOneSelected
<1>3. Sn2nid(t, a) # 0 => Sn2nid(u, a) = Sn2nid(t, a)
  <2> DEFINE n == Sn2nid(t, a)
  <2>1. n # 0 => n \in 1 .. Len(t) /\ n \in 1 .. Len(u) /\ u[n].sn = a  BY <1>1, <1>2
  <2>2. QED  BY <2>1, <1>2
<1>4. Txt2nid(t, a) # 0 => Txt2nid(u, a) = Txt2nid(t, a)
  <2> DEFINE n == Txt2nid(t, a)
  <2>1. n # 0 => n \in 1 .. Len(t) /\ n \in 1 .. Len(u) /\ u[n].oid = a  BY <1>1, <1>2
  <2>2. QED  BY <2>1, <1>2
<1>5. QED  BY <1>3, <1>4

\* What of the tables a step keeps.
TablesGrow ==
  \A lib \in Libs : \A a :
    /\ Sn2nid(objs[lib], a) # 0 => Sn2nid(objs'[lib], a) = Sn2nid(objs[lib], a)
    /\ Txt2nid(objs[lib], a) # 0 => Txt2nid(objs'[lib], a) = Txt2nid(objs[lib], a)

\* The object of an algorithm is created in one of the tables.
LEMMA CreateStep ==
  ASSUME TypeInv, TablesInv, Begun, NEW lib \in Libs, NEW a \in Algs,
         objs' = [objs EXCEPT ![lib] = ObjCreate(@, oid[a], a)],
         UNCHANGED <<host, env, moved, oid>>, Begun'
  PROVE  /\ TablesInv' /\ objs' = [x \in Libs |-> objs'[x]] /\ TablesGrow
         /\ \A x \in Libs \ {lib} : objs'[x] = objs[x]
         /\ objs'[lib] = ObjCreate(objs[lib], oid[a], a)
<1> DEFINE t == objs[lib]
           u == objs'[lib]
<1>1. /\ u = ObjCreate(t, oid[a], a) /\ \A x \in Libs \ {lib} : objs'[x] = objs[x]
      /\ objs' = [x \in Libs |-> objs'[x]]
  BY DEF TypeInv
<1>2. /\ Table(t) /\ Len(host.pre) \leq Len(t)
      /\ \A i \in 1 .. Len(host.pre) : t[i] = host.pre[i]
      /\ \A i \in 1 .. Len(t) : i > Len(host.pre) => t[i].sn \in Algs
  BY DEF TablesInv
<1>3. Len(host.pre) \in Nat
  BY InitAssumption DEF TypeInv
<1> HIDE DEF t, u
<1>4. /\ Table(u) /\ Len(t) \leq Len(u) /\ \A i \in 1 .. Len(t) : u[i] = t[i]
      /\ \A i \in 1 .. Len(u) : i > Len(t) => u[i].oid = oid[a] /\ u[i].sn = a
  BY <1>1, <1>2, CreateGrows
<1>5. Len(t) \in Nat /\ Len(u) \in Nat
  BY <1>2, <1>4 DEF Table
<1>6. /\ Len(host.pre) \leq Len(u)
      /\ \A i \in 1 .. Len(host.pre) : u[i] = host.pre[i]
      /\ \A i \in 1 .. Len(u) : i > Len(host.pre) => u[i].sn \in Algs
  BY <1>2, <1>3, <1>4, <1>5
<1>7. \A i \in 1 .. Len(u) : i > Len(host.pre) =>
        u[i].oid = oid[u[i].sn] \/ (i \in 1 .. Len(t) /\ u[i] = t[i])
  BY <1>3, <1>4, <1>5
<1>8. ByTheList' \/ Settled'
  <2>1. CASE Settled
    BY <2>1 DEF Settled
  <2>2. CASE ByTheList
    <3> SUFFICES ASSUME NEW x \in Libs, NEW i \in 1 .. Len(objs'[x]), i > Len(host.pre)
                 PROVE  objs'[x][i].oid = oid[objs'[x][i].sn]
      BY DEF ByTheList
    <3>1. CASE x = lib
      BY <3>1, <2>2, <1>7 DEF ByTheList, u, t
    <3>2. CASE x # lib
      BY <3>2, <2>2, <1>1 DEF ByTheList
    <3>3. QED  BY <3>1, <3>2
  <2>3. QED  BY <2>1, <2>2 DEF TablesInv
<1>9. TablesInv'
  <2>1. /\ (Table(objs[lib]))' /\ Len(host'.pre) \leq Len(objs'[lib])
        /\ \A i \in 1 .. Len(host'.pre) : objs'[lib][i] = host'.pre[i]
        /\ \A i \in 1 .. Len(objs'[lib]) : i > Len(host'.pre) => objs'[lib][i].sn \in Algs
    BY <1>4, <1>6 DEF u
  <2>2. QED  BY <1>1, <1>8, <2>1 DEF TablesInv
<1>10. TablesGrow
  <2> SUFFICES ASSUME NEW x \in Libs, NEW b
               PROVE  /\ Sn2nid(objs[x], b) # 0 => Sn2nid(objs'[x], b) = Sn2nid(objs[x], b)
                      /\ Txt2nid(objs[x], b) # 0 => Txt2nid(objs'[x], b) = Txt2nid(objs[x], b)
    BY DEF TablesGrow
  <2>1. CASE x = lib
    BY <2>1, <1>2, <1>4, SnStays DEF t, u
  <2>2. CASE x # lib
    BY <2>2, <1>1
  <2>3. QED  BY <2>1, <2>2
<1>11. QED  BY <1>1, <1>9, <1>10 DEF t, u

-----------------------------------------------------------------------------
(* One step of one load.                                                    *)

\* A step of load l within its run.
Step(l) ==
  /\ load' \in [Loads -> LoadRecords] /\ \A m \in Loads \ {l} : load'[m] = load[m]
  /\ load[l].pc # "new" /\ load'[l].pc # "new"
  /\ load[l].unseen => load'[l].unseen
  /\ UNCHANGED <<host, env, moved, oid, code, evpType>>

DoomedStays == \A a \in Algs : Doomed(a) => (Doomed(a))'

LEMMA PassedAlgs ==
  ASSUME NEW l PROVE Passed(l) \subseteq Algs
BY AlgsKnown DEF Passed

\* What a step has to bring about for the invariant to hold after it.
LEMMA StepKeeps ==
  ASSUME IInv, NEW l \in Loads, Step(l),
         TablesInv', TablesGrow, objs' = [x \in Libs |-> objs'[x]], DoomedStays,
         nid' \in [Algs -> Nat],
         \A a \in Algs : nid'[a] # 0 => nid'[a] = nid[a] \/ nid'[a] = Sn2nid(objs'[Own], a),
         load'[l].pc = "set" /\ load'[l].nid # 0 => load'[l].nid = Sn2nid(objs'[Own], OidList[load'[l].i]),
         sigids \subseteq sigids', SigidLoad(l)',
         ResInv(load'[l]),
         NothingUnseen => \A a \in Algs : nid[a] # 0 => nid'[a] = nid[a],
         NothingUnseen /\ NothingUnseen' => SeenLoad(l)' /\ OwnInCore'
  PROVE  IInv'
<1>1. /\ Own' = Own /\ Own \in Libs /\ Begun /\ Begun' /\ host' = host
      /\ \A m \in Loads \ {l} : load'[m] = load[m]
  BY DEF Step, Own, Libs, Begun
<1>2. TypeInv'
  BY DEF IInv, TypeInv, Step
<1>3. \A m \in Loads \ {l} : Passed(m)' = Passed(m) /\ (Alg(m))' = Alg(m)
  BY <1>1 DEF Passed, Alg
<1>4. \A m \in Loads : Alg(m) \in Algs
  BY AlgsKnown DEF Alg, IInv, TypeInv, LoadRecords
<1>5. NidInv'
  <2>1. \A a \in Algs : nid'[a] # 0 => nid'[a] = Sn2nid(objs'[Own], a)
    BY <1>1 DEF IInv, NidInv, TablesGrow
  <2>2. \A a \in Algs : evpType'[a] # 0 => evpType'[a] = Sn2nid(objs'[Own], a)
    BY <1>1 DEF IInv, NidInv, TablesGrow, Step
  <2>3. ASSUME NEW m \in Loads, load'[m].pc = "set", load'[m].nid # 0
        PROVE  load'[m].nid = Sn2nid(objs'[Own], OidList[load'[m].i])
    <3>1. CASE m = l
      BY <3>1, <2>3
    <3>2. CASE m # l
      BY <3>2, <2>3, <1>1 DEF IInv, NidInv, TablesGrow, Alg
    <3>3. QED  BY <3>1, <3>2
  <2>4. QED  BY <1>1, <2>1, <2>2, <2>3 DEF NidInv, Alg
<1>6. CodesInv'
  BY <1>1 DEF IInv, CodesInv, Step
<1>7. \A m \in Loads : ResInv(load'[m]) /\ SigidLoad(m)'
  BY <1>1, <1>3 DEF IInv, SigidLoad
<1>8. ASSUME NothingUnseen' PROVE SeenInv'
  <2>1. NothingUnseen /\ SeenInv
    BY <1>1, <1>8 DEF NothingUnseen, Step, IInv
  <2>2. \A a \in Algs : nid[a] # 0 => nid'[a] # 0
    BY <2>1
  <2>3. ASSUME NEW m \in Loads \ {l} PROVE SeenLoad(m)'
    <3>1. SeenLoad(m) /\ load'[m] = load[m] /\ Alg(m) \in Algs /\ (Alg(m))' = Alg(m) /\ Passed(m)' = Passed(m)
      BY <1>1, <1>3, <1>4, <2>1 DEF SeenInv
    <3>2. /\ \A lib \in Libs : Sn2nid(objs[lib], Alg(m)) # 0 => Sn2nid(objs'[lib], Alg(m)) # 0
          /\ (Doomed(Alg(m)) => (Doomed(Alg(m)))')
      <4>1. Doomed(Alg(m)) => (Doomed(Alg(m)))'
        BY <3>1 DEF DoomedStays, Doomed
      <4>2. QED  BY <4>1 DEF TablesGrow
    <3>3. Passed(m) \subseteq Algs  BY PassedAlgs
    <3>4. QED  BY <1>1, <2>2, <3>1, <3>2, <3>3 DEF SeenLoad, Libs
  <2>4. \A a \in Algs : evpType'[a] # 0 => nid'[a] # 0
    BY <2>1, <2>2 DEF SeenInv, Step
  <2>5. QED  BY <1>8, <2>1, <2>3, <2>4 DEF SeenInv
<1>9. QED  BY <1>2, <1>5, <1>6, <1>7, <1>8 DEF IInv

\* A step that leaves objects and NIDs alone.
LEMMA QuietStep ==
  ASSUME IInv, NEW l \in Loads, Step(l), objs' = objs, nid' = nid, sigids \subseteq sigids',
         load'[l].pc = "set" /\ load'[l].nid # 0 => load'[l].nid = Sn2nid(objs[Own], OidList[load'[l].i]),
         SigidLoad(l)', ResInv(load'[l]),
         NothingUnseen /\ NothingUnseen' => SeenLoad(l)'
  PROVE  IInv'
<1>1. Begun /\ Begun' /\ host' = host /\ Own' = Own
  BY DEF Step, Begun, Own
<1>2. TablesInv'
  BY <1>1 DEF IInv, TablesInv, Step, Settled, ByTheList
<1>3. TablesGrow  BY DEF TablesGrow
<1>4. DoomedStays
  BY DEF DoomedStays, Doomed, Step, Settled
<1>5. NothingUnseen /\ NothingUnseen' => OwnInCore'
  BY DEF IInv, SeenInv, OwnInCore
<1>6. objs' = [x \in Libs |-> objs'[x]] /\ nid' \in [Algs -> Nat]
  BY DEF IInv, TypeInv
<1>7. \A a \in Algs : nid'[a] = nid[a]  OBVIOUS
<1>8. QED  BY <1>1, <1>2, <1>3, <1>4, <1>5, <1>6, <1>7, StepKeeps

\* Inside the loop, and out of it to the end, a load is done with the same
\* algorithms as long as it counts none.
LEMMA SamePassed ==
  ASSUME NEW l, load'[l].i = load[l].i, load[l].pc \notin Making \cup {"loaded"},
         load'[l].pc \notin Making \cup {"loaded"}
  PROVE  Passed(l)' = Passed(l) /\ (Alg(l))' = Alg(l)
BY DEF Passed, Alg

\* A step within one run of the loop that changes the pc and some of the notes.
NotesOnly(l) ==
  /\ load' \in [Loads -> LoadRecords] /\ \A m \in Loads \ {l} : load'[m] = load[m]
  /\ load'[l].i = load[l].i /\ Resources(load'[l]) = Resources(load[l])
  /\ load[l].unseen => load'[l].unseen

LEMMA LoopStep ==
  ASSUME IInv, NEW l \in Loads, load[l].pc \in Working, load'[l].pc \in Working \cup {"end"},
         NotesOnly(l), process' = process, code' = code, oid' = oid, evpType' = evpType
  PROVE  /\ Step(l) /\ ResInv(load'[l]) /\ Passed(l)' = Passed(l) /\ (Alg(l))' = Alg(l)
         /\ Alg(l) \in Algs
<1>1. load[l] \in LoadRecords /\ load \in [Loads -> LoadRecords]  BY DEF IInv, TypeInv
<1>2. Step(l)
  BY DEF Step, NotesOnly, process, Working
<1>3. ResInv(load'[l])
  <2>1. ResInv(load[l]) /\ Resources(load[l]) = <<"none", "none", "none">>
    BY DEF IInv, ResInv
  <2>2. load'[l].biometh = "none" /\ load'[l].libctx = "none" /\ load'[l].provctx = "none"
    BY <2>1 DEF NotesOnly, Resources
  <2>3. QED  BY <2>1, <2>2 DEF ResInv, Resources, NotesOnly, Working
<1>4. Passed(l)' = Passed(l) /\ (Alg(l))' = Alg(l)
  BY SamePassed DEF NotesOnly, Working, Making
<1>5. Alg(l) \in Algs
  BY <1>1, AlgsKnown DEF Alg, LoadRecords
<1>6. QED  BY <1>2, <1>3, <1>4, <1>5

\* One such step, as an assignment.
LEMMA Noted ==
  ASSUME IInv, NEW l \in Loads, NEW d \in LoadRecords, load' = [load EXCEPT ![l] = d],
         d.i = load[l].i, load[l].unseen => d.unseen,
         d.biometh = load[l].biometh, d.libctx = load[l].libctx, d.provctx = load[l].provctx
  PROVE  NotesOnly(l) /\ load'[l] = d
<1>1. load \in [Loads -> LoadRecords]  BY DEF IInv, TypeInv
<1>2. /\ load'[l] = d /\ load' \in [Loads -> LoadRecords]
      /\ \A m \in Loads \ {l} : load'[m] = load[m]
  BY <1>1
<1>3. QED  BY <1>2 DEF NotesOnly, Resources

LEMMA LookupKeeps ==
  ASSUME IInv, NEW l \in Loads, Lookup(l), process' = process, evpType' = evpType
  PROVE  IInv'
<1> DEFINE t == objs["core"]
           n == Txt2nid(t, oid[Alg(l)])
           p == IF n # 0 THEN "again" ELSE "create"
           un == load[l].unseen \/ (n # 0 /\ Sn2nid(t, Alg(l)) = 0)
           d == [load[l] EXCEPT !.pc = p, !.nid = load[l].nid, !.oom = load[l].oom, !.unseen = un]
<1>1. load[l] \in LoadRecords /\ load \in [Loads -> LoadRecords]  BY DEF IInv, TypeInv
<1>2. load' = [load EXCEPT ![l] = d]
  BY <1>1 DEF Lookup, LoadRecords
<1>3. /\ load[l].pc = "lookup" /\ objs' = objs /\ nid' = nid /\ sigids' = sigids
      /\ code' = code /\ oid' = oid
  BY DEF Lookup, tables
<1>4. /\ p \in Working /\ p \in Pcs /\ p \in {"create", "again"}
      /\ un \in BOOLEAN /\ load[l].nid \in Nat /\ load[l].oom \in BOOLEAN
      /\ load[l].unseen => un
  BY <1>1 DEF LoadRecords, Working, Pcs
<1>5. p = "again" /\ ~un => Sn2nid(objs["core"], Alg(l)) # 0
  OBVIOUS
<1> HIDE DEF p, un
<1>a. /\ d \in LoadRecords /\ d.pc = p /\ d.unseen = un /\ d.i = load[l].i
      /\ d.biometh = load[l].biometh /\ d.libctx = load[l].libctx /\ d.provctx = load[l].provctx
  BY <1>1, <1>4 DEF LoadRecords
<1> HIDE DEF d
<1>6. NotesOnly(l) /\ load'[l].pc = p /\ load'[l].unseen = un
  BY <1>2, <1>4, <1>a, Noted
<1>7. Step(l) /\ ResInv(load'[l]) /\ Passed(l)' = Passed(l) /\ (Alg(l))' = Alg(l)
  BY <1>3, <1>4, <1>6, LoopStep DEF Working
<1>8. SigidLoad(l)'
  BY <1>3, <1>4, <1>6, <1>7 DEF IInv, SigidLoad
<1>9. NothingUnseen /\ NothingUnseen' => SeenLoad(l)'
  <2> SUFFICES ASSUME NothingUnseen, NothingUnseen' PROVE SeenLoad(l)'
    OBVIOUS
  <2>1. SeenLoad(l) /\ ~un
    BY <1>6 DEF IInv, SeenInv, NothingUnseen
  <2>2. QED  BY <1>3, <1>4, <1>5, <1>6, <1>7, <2>1 DEF SeenLoad
<1>10. load'[l].pc # "set"
  BY <1>4, <1>6
<1>11. QED  BY <1>3, <1>7, <1>8, <1>9, <1>10, QuietStep

LEMMA OutOfMemoryKeeps ==
  ASSUME IInv, NEW l \in Loads, load[l].pc \in Working \cup Making, OutOfMemory(l),
         process' = process, evpType' = evpType
  PROVE  IInv'
<1> DEFINE d == [load[l] EXCEPT !.pc = "end", !.oom = TRUE]
<1>1. load[l] \in LoadRecords /\ load \in [Loads -> LoadRecords]  BY DEF IInv, TypeInv
<1>2. load' = [load EXCEPT ![l] = d]
  BY <1>1 DEF OutOfMemory, LoadRecords
<1>3. objs' = objs /\ nid' = nid /\ sigids' = sigids /\ code' = code /\ oid' = oid
  BY DEF OutOfMemory, tables
<1>4. /\ d \in LoadRecords /\ d.pc = "end" /\ d.oom = TRUE /\ d.unseen = load[l].unseen
      /\ d.i = load[l].i
      /\ d.biometh = load[l].biometh /\ d.libctx = load[l].libctx /\ d.provctx = load[l].provctx
  BY <1>1 DEF LoadRecords, Pcs
<1> HIDE DEF d
<1>5. NotesOnly(l) /\ load'[l] = d
  BY <1>2, <1>4, Noted
<1>6. Step(l)
  BY <1>3, <1>4, <1>5 DEF Step, NotesOnly, process, Working, Making
<1>7. ResInv(d)
  <2>1. ResInv(load[l])  BY DEF IInv
  <2>2. d.biometh \in {"none", "live"} /\ d.libctx \in {"none", "live"} /\ d.provctx = "none"
    BY <2>1, <1>4 DEF ResInv, Resources, Working, Making
  <2>3. QED  BY <1>4, <2>2 DEF ResInv, Working
<1>8. Passed(l)' \subseteq Passed(l)
  BY <1>4, <1>5 DEF Passed, Making
<1>9. SigidLoad(l)'
  BY <1>3, <1>4, <1>5, <1>8 DEF IInv, SigidLoad
<1>10. NothingUnseen /\ NothingUnseen' => SeenLoad(l)'
  BY <1>3, <1>4, <1>5, <1>8 DEF IInv, SeenInv, SeenLoad, Working
<1>11. QED  BY <1>3, <1>4, <1>5, <1>6, <1>7, <1>9, <1>10, QuietStep

LEMMA CreateKeeps ==
  ASSUME IInv, NEW l \in Loads, Create(l), process' = process, evpType' = evpType
  PROVE  IInv'
<1> DEFINE a == Alg(l)
           t == objs["core"]
           p == IF Creates(t, oid[a], a) THEN "again" ELSE "end"
           d == [load[l] EXCEPT !.pc = p]
<1>1. load[l] \in LoadRecords /\ load \in [Loads -> LoadRecords] /\ load[l].pc = "create"
      /\ TypeInv /\ TablesInv
  BY DEF IInv, TypeInv, Create
<1>2. CASE OutOfMemory(l)
  BY <1>1, <1>2, OutOfMemoryKeeps DEF Working
<1>3. CASE /\ objs' = [objs EXCEPT !["core"] = ObjCreate(@, oid[a], a)]
           /\ Goto(l, p) /\ UNCHANGED <<sigids, oid, code, nid>>
  <2>1. load' = [load EXCEPT ![l] = d]
    BY <1>1, <1>3 DEF Goto, LoadRecords
  <2>2. p \in {"again", "end"} /\ p \in Pcs /\ (p = "again" => Creates(t, oid[a], a))
    BY DEF Pcs, Working
  <2> HIDE DEF p
  <2>3. /\ d \in LoadRecords /\ d.pc = p /\ d.unseen = load[l].unseen /\ d.i = load[l].i
        /\ d.biometh = load[l].biometh /\ d.libctx = load[l].libctx /\ d.provctx = load[l].provctx
    BY <1>1, <2>2 DEF LoadRecords
  <2> HIDE DEF d
  <2>4. NotesOnly(l) /\ load'[l] = d
    BY <2>1, <2>3, Noted
  <2>5. /\ Step(l) /\ ResInv(load'[l]) /\ Passed(l)' = Passed(l) /\ (Alg(l))' = a /\ a \in Algs
    BY <1>1, <1>3, <2>2, <2>3, <2>4, LoopStep DEF Working
  <2>6. /\ TablesInv' /\ objs' = [x \in Libs |-> objs'[x]] /\ TablesGrow
        /\ \A x \in Libs \ {"core"} : objs'[x] = objs[x]
        /\ objs'["core"] = ObjCreate(t, oid[a], a)
    <3>1. Begun /\ Begun'
      BY <1>1, <2>2, <2>3, <2>4 DEF Begun
    <3>2. "core" \in Libs /\ UNCHANGED <<host, env, moved, oid>>
      BY <1>3 DEF Libs, process
    <3> HIDE DEF a
    <3>3. objs' = [objs EXCEPT !["core"] = ObjCreate(@, oid[a], a)]
      BY <1>3
    <3>4. QED  BY <1>1, <2>5, <3>1, <3>2, <3>3, CreateStep
  <2>7. DoomedStays
    BY <1>3, <2>6 DEF DoomedStays, Doomed, Settled, process, Libs
  <2>8. Table(t) /\ "core" \in Libs
    BY <1>1 DEF TablesInv, Libs
  <2>9. p = "again" => Sn2nid(objs'["core"], a) # 0
    <3>1. Len(t) \in Nat  BY <2>8 DEF Table
    <3>2. p = "again" => Sn2nid(objs'["core"], a) = Len(t) + 1
      BY <2>2, <2>6, <2>8, CreateGrows
    <3>3. QED  BY <3>1, <3>2
  <2>10. SigidLoad(l)'
    BY <1>3, <2>2, <2>3, <2>4, <2>5 DEF IInv, SigidLoad
  <2>11. NothingUnseen /\ NothingUnseen' => SeenLoad(l)' /\ OwnInCore'
    <3> SUFFICES ASSUME NothingUnseen PROVE SeenLoad(l)' /\ OwnInCore'
      OBVIOUS
    <3>1. SeenLoad(l) /\ OwnInCore
      BY DEF IInv, SeenInv
    <3>2. SeenLoad(l)'
      BY <1>3, <2>2, <2>3, <2>4, <2>5, <2>9, <3>1 DEF SeenLoad, Working
    <3>3. OwnInCore'
      BY <2>6, <2>8, <3>1 DEF OwnInCore, TablesGrow, Libs
    <3>4. QED  BY <3>2, <3>3
  <2>12. nid' = nid /\ nid' \in [Algs -> Nat] /\ sigids' = sigids /\ load'[l].pc # "set"
    BY <1>1, <1>3, <2>2, <2>3, <2>4 DEF TypeInv
  <2>13. QED  BY <2>5, <2>6, <2>7, <2>10, <2>11, <2>12, StepKeeps
<1>4. QED  BY <1>2, <1>3 DEF Create

\* A creation that fails leaves the table with the name, or with the OID for
\* another name.
LEMMA CreatedOrNot ==
  ASSUME NEW t, Table(t), NEW o, NEW a, NEW u, u = ObjCreate(t, o, a)
  PROVE  /\ Sn2nid(u, a) # 0 \/ (u = t /\ Sn2nid(t, a) = 0 /\ Txt2nid(t, o) # 0)
         /\ \A b : Sn2nid(t, b) = 0 /\ Sn2nid(u, b) # 0 => b = a /\ Creates(t, o, a)
<1>1. /\ Table(u) /\ Len(t) \in Nat /\ Len(u) \in Nat /\ Len(t) \leq Len(u)
      /\ \A i \in 1 .. Len(t) : u[i] = t[i]
      /\ \A i \in 1 .. Len(u) : i > Len(t) => u[i].oid = o /\ u[i].sn = a
      /\ Creates(t, o, a) => Sn2nid(u, a) = Len(t) + 1
      /\ ~Creates(t, o, a) => u = t
  BY CreateGrows DEF Table
<1>2. Sn2nid(u, a) # 0 \/ (u = t /\ Sn2nid(t, a) = 0 /\ Txt2nid(t, o) # 0)
  BY <1>1 DEF Creates
<1>3. ASSUME NEW b, Sn2nid(t, b) = 0, Sn2nid(u, b) # 0
      PROVE  b = a /\ Creates(t, o, a)
  <2>1. PICK k \in 1 .. Len(u) : u[k].sn = b
    BY <1>1, <1>3, TheOneSelected
  <2>2. k \notin 1 .. Len(t)
    BY <1>1, <1>3, <2>1, TheOneSelected
  <2>3. b = a
    BY <1>1, <2>1, <2>2
  <2>4. u # t
    BY <1>1, <2>1, <2>2
  <2>5. QED  BY <1>1, <2>3, <2>4
<1>4. QED  BY <1>2, <1>3

\* A name that the core has and the copy cannot get: what has its OID in the
\* copy stands there from another list, or from before the process began.
LEMMA ConflictSettled ==
  ASSUME TypeInv, TablesInv, OwnInCore, NEW a \in Algs, Sn2nid(objs["core"], a) # 0,
         Sn2nid(objs["own"], a) = 0, Txt2nid(objs["own"], oid[a]) # 0
  PROVE  Settled
<1> DEFINE t == objs["core"]
           u == objs["own"]
           n == Len(host.pre)
<1>1. /\ Table(t) /\ Table(u) /\ n \in Nat /\ Len(t) \in Nat /\ Len(u) \in Nat
      /\ n \leq Len(t) /\ n \leq Len(u)
      /\ \A i \in 1 .. n : t[i] = u[i]
      /\ \A i \in 1 .. Len(u) : i > n => u[i].sn \in Algs
  BY InitAssumption DEF TypeInv, TablesInv, Libs, Table
<1>2. SUFFICES ASSUME ByTheList PROVE FALSE
  BY DEF TablesInv
<1>3. /\ \A i \in 1 .. Len(t) : i > n => t[i].oid = oid[t[i].sn]
      /\ \A i \in 1 .. Len(u) : i > n => u[i].oid = oid[u[i].sn]
  BY <1>2 DEF ByTheList, Libs
<1> HIDE DEF t, u, n
<1>4. PICK j \in 1 .. Len(t) : t[j].sn = a
  BY <1>1, TheOneSelected DEF t
<1>5. PICK k \in 1 .. Len(u) : u[k].oid = oid[a]
  BY <1>1, TheOneSelected DEF u
<1>6. \A i \in 1 .. Len(u) : u[i].sn # a
  <2>1. \A i \in 1 .. Len(u) : u[i].sn = a => Sn2nid(u, a) = i
    BY <1>1, TheOneSelected
  <2>2. QED  BY <1>1, <2>1 DEF u
<1>7. j > n
  BY <1>1, <1>4, <1>6
<1>8. t[j].oid = oid[a]
  BY <1>3, <1>4, <1>7
<1>9. k > n
  <2>1. SUFFICES ASSUME k \leq n PROVE FALSE
    BY <1>1
  <2>2. t[k].oid = oid[a] /\ k \in 1 .. Len(t)
    BY <1>1, <1>5, <2>1
  <2>3. QED  BY <1>1, <1>4, <1>7, <1>8, <2>1, <2>2 DEF Table
<1> DEFINE b == u[k].sn
<1>10. b \in Algs /\ oid[b] = oid[a] /\ b # a
  BY <1>1, <1>3, <1>5, <1>6, <1>9
<1>11. Sn2nid(u, b) = k /\ k # 0
  BY <1>1, TheOneSelected
<1>12. PICK m \in 1 .. Len(t) : t[m].sn = b
  <2>1. Sn2nid(t, b) # 0
    BY <1>10, <1>11 DEF OwnInCore, t, u
  <2>2. QED  BY <1>1, <2>1, TheOneSelected
<1>13. m > n
  <2>1. SUFFICES ASSUME m \leq n PROVE FALSE
    BY <1>1
  <2>2. u[m].sn = b /\ m \in 1 .. Len(u)
    BY <1>1, <1>12, <2>1
  <2>3. QED  BY <1>1, <1>9, <2>1, <2>2 DEF Table
<1>14. t[m].oid = t[j].oid
  BY <1>3, <1>8, <1>10, <1>12, <1>13
<1>15. QED  BY <1>1, <1>4, <1>10, <1>12, <1>14 DEF Table

LEMMA CreateAgainKeeps ==
  ASSUME IInv, NEW l \in Loads, CreateAgain(l), process' = process, evpType' = evpType
  PROVE  IInv'
<1> DEFINE a == Alg(l)
           made == [objs EXCEPT ![Own] = ObjCreate(@, oid[a], a)]
<1>1. /\ load[l] \in LoadRecords /\ load \in [Loads -> LoadRecords] /\ load[l].pc = "again"
      /\ TypeInv /\ TablesInv /\ Begun /\ a \in Algs /\ host' = host /\ Own' = Own /\ Own \in Libs
      /\ sigids' = sigids /\ oid' = oid /\ code' = code /\ nid' = nid
      /\ env' = env /\ moved' = moved
  BY AlgsKnown DEF IInv, TypeInv, CreateAgain, Begun, process, Own, Libs, Alg, LoadRecords
<1>2. CASE /\ load' = [load EXCEPT ![l].pc = "read", ![l].oom = TRUE,
                                    ![l].unseen = @ \/ host.ownCopy]
           /\ objs' = objs
  <2> DEFINE d == [load[l] EXCEPT !.pc = "read", !.oom = TRUE,
                                  !.unseen = load[l].unseen \/ host.ownCopy]
  <2>1. load' = [load EXCEPT ![l] = d] /\ objs' = objs
    BY <1>1, <1>2 DEF LoadRecords
  <2>2. host.ownCopy \in BOOLEAN
    BY <1>1 DEF TypeInv
  <2>3. /\ d \in LoadRecords /\ d.pc = "read" /\ d.unseen = (load[l].unseen \/ host.ownCopy)
        /\ d.i = load[l].i
        /\ d.biometh = load[l].biometh /\ d.libctx = load[l].libctx /\ d.provctx = load[l].provctx
    BY <1>1, <2>2 DEF LoadRecords, Pcs, Working
  <2> HIDE DEF d
  <2>4. NotesOnly(l) /\ load'[l] = d
    BY <2>1, <2>3, Noted
  <2>5. Step(l) /\ ResInv(load'[l]) /\ Passed(l)' = Passed(l) /\ (Alg(l))' = a
    BY <1>1, <2>3, <2>4, LoopStep DEF Working
  <2>6. SigidLoad(l)'
    BY <1>1, <2>3, <2>4, <2>5 DEF IInv, SigidLoad
  <2>7. NothingUnseen /\ NothingUnseen' => SeenLoad(l)'
    <3> SUFFICES ASSUME NothingUnseen, NothingUnseen' PROVE SeenLoad(l)'
      OBVIOUS
    <3>1. SeenLoad(l) /\ Own = "core"
      BY <2>3, <2>4 DEF IInv, SeenInv, NothingUnseen, Own
    <3>2. Sn2nid(objs["core"], a) # 0
      BY <1>1, <3>1 DEF SeenLoad, Working
    <3>3. QED  BY <1>1, <2>1, <2>3, <2>4, <2>5, <3>1, <3>2 DEF SeenLoad
  <2>8. QED  BY <1>1, <2>1, <2>3, <2>4, <2>5, <2>6, <2>7, QuietStep
<1>3. CASE \/ ~host.is310 /\ objs' = made /\ Goto(l, "read")
           \/ host.is310 /\ objs' = objs /\ Goto(l, "read")
  <2> DEFINE d == [load[l] EXCEPT !.pc = "read"]
             t == objs[Own]
             u == objs'[Own]
  <2>1. load' = [load EXCEPT ![l] = d]
    BY <1>1, <1>3 DEF Goto, LoadRecords
  <2>2. /\ d \in LoadRecords /\ d.pc = "read" /\ d.unseen = load[l].unseen /\ d.i = load[l].i
        /\ d.biometh = load[l].biometh /\ d.libctx = load[l].libctx /\ d.provctx = load[l].provctx
    BY <1>1 DEF LoadRecords, Pcs, Working
  <2> HIDE DEF d
  <2>3. NotesOnly(l) /\ load'[l] = d
    BY <2>1, <2>2, Noted
  <2>4. Step(l) /\ ResInv(load'[l]) /\ Passed(l)' = Passed(l) /\ (Alg(l))' = a
    BY <1>1, <2>2, <2>3, LoopStep DEF Working
  <2>5. Begun'
    BY <2>2, <2>3 DEF Begun
  <2>6. SigidLoad(l)'
    BY <1>1, <2>2, <2>3, <2>4 DEF IInv, SigidLoad
  <2>7. CASE host.is310
    <3>1. objs' = objs
      BY <1>3, <2>7
    <3>2. NothingUnseen => SeenLoad(l)'
      <4> SUFFICES ASSUME NothingUnseen PROVE SeenLoad(l)'
        OBVIOUS
      <4>1. SeenLoad(l) /\ Sn2nid(objs["core"], a) # 0
        BY <1>1 DEF IInv, SeenInv, SeenLoad, Working
      <4>2. Sn2nid(objs[Own], a) # 0 \/ (Doomed(a))'
        BY <1>1, <2>4, <2>7, <3>1, <4>1 DEF Doomed, Own
      <4>3. QED  BY <1>1, <2>2, <2>3, <2>4, <3>1, <4>1, <4>2 DEF SeenLoad
    <3>3. QED  BY <1>1, <2>2, <2>3, <2>4, <2>6, <3>1, <3>2, QuietStep
  <2>8. CASE ~host.is310
    <3>1. objs' = [objs EXCEPT ![Own] = ObjCreate(@, oid[a], a)]
      BY <1>3, <2>8
    <3>2. /\ TablesInv' /\ objs' = [x \in Libs |-> objs'[x]] /\ TablesGrow
          /\ \A x \in Libs \ {Own} : objs'[x] = objs[x]
          /\ u = ObjCreate(t, oid[a], a)
      <4> HIDE DEF a
      <4>1. QED  BY <1>1, <2>5, <3>1, CreateStep
    <3>3. Table(t) /\ "own" \in Libs /\ "core" \in Libs
      BY <1>1 DEF TablesInv, Libs
    <3>4. /\ Sn2nid(u, a) # 0 \/ (u = t /\ Sn2nid(t, a) = 0 /\ Txt2nid(t, oid[a]) # 0)
          /\ \A b : Sn2nid(t, b) = 0 /\ Sn2nid(u, b) # 0 => b = a /\ Creates(t, oid[a], a)
      <4> HIDE DEF t, u
      <4>1. QED  BY <3>2, <3>3, CreatedOrNot
    <3>5. DoomedStays
      <4> SUFFICES ASSUME NEW b \in Algs, Doomed(b) PROVE (Doomed(b))'
        BY DEF DoomedStays
      <4>1. /\ host.ownCopy /\ Own = "own" /\ Sn2nid(t, b) = 0
            /\ Settled /\ Settled' /\ Txt2nid(t, oid[b]) # 0
        BY <1>1, <2>8 DEF Doomed, Own, Settled
      <4>2. Sn2nid(u, b) = 0
        BY <3>4, <4>1 DEF Creates
      <4>3. Txt2nid(u, oid[b]) # 0
        BY <1>1, <3>2, <4>1 DEF TablesGrow
      <4>4. QED  BY <1>1, <4>1, <4>2, <4>3 DEF Doomed
    <3>6. NothingUnseen => SeenLoad(l)' /\ OwnInCore'
      <4> SUFFICES ASSUME NothingUnseen PROVE SeenLoad(l)' /\ OwnInCore'
        OBVIOUS
      <4>1. SeenLoad(l) /\ OwnInCore /\ Sn2nid(objs["core"], a) # 0
        BY <1>1 DEF IInv, SeenInv, SeenLoad, Working
      <4>2. Sn2nid(objs'["core"], a) # 0
        BY <3>2, <3>3, <4>1 DEF TablesGrow
      <4>3. Sn2nid(u, a) # 0 \/ (Doomed(a))'
        <5>1. SUFFICES ASSUME Sn2nid(u, a) = 0 PROVE (Doomed(a))'
          OBVIOUS
        <5>2. u = t /\ Sn2nid(t, a) = 0 /\ Txt2nid(t, oid[a]) # 0
          BY <3>4, <5>1
        <5>3. Own = "own" /\ host.ownCopy
          BY <1>1, <4>1, <5>2 DEF Own
        <5>4. Settled
          BY <1>1, <4>1, <5>2, <5>3, ConflictSettled
        <5>5. QED  BY <1>1, <2>4, <5>2, <5>3, <5>4 DEF Doomed, Settled
      <4>4. OwnInCore'
        <5> SUFFICES ASSUME NEW b \in Algs, Sn2nid(objs'["own"], b) # 0
                     PROVE  Sn2nid(objs'["core"], b) # 0
          BY DEF OwnInCore
        <5>1. CASE b = a
          BY <4>2, <5>1
        <5>2. CASE b # a
          <6>1. Sn2nid(objs["own"], b) # 0
            BY <3>2, <3>3, <3>4, <5>2
          <6>2. QED  BY <3>2, <3>3, <4>1, <6>1 DEF OwnInCore, TablesGrow
        <5>3. QED  BY <5>1, <5>2
      <4>5. SeenLoad(l)'
        BY <1>1, <2>2, <2>3, <2>4, <4>1, <4>2, <4>3 DEF SeenLoad
      <4>6. QED  BY <4>4, <4>5
    <3>7. nid' \in [Algs -> Nat] /\ load'[l].pc # "set"
      BY <1>1, <2>2, <2>3 DEF TypeInv
    <3>8. QED  BY <1>1, <2>4, <2>6, <3>2, <3>5, <3>6, <3>7, StepKeeps
  <2>9. QED  BY <2>7, <2>8
<1>4. CASE objs' = (IF host.is310 THEN objs ELSE made) /\ Goto(l, "read")
  <2> HIDE DEF made
  <2>0. host.is310 \in BOOLEAN  BY <1>1 DEF TypeInv
  <2>1. CASE host.is310  BY <1>3, <1>4, <2>1
  <2>2. CASE ~host.is310
    <3>1. objs' = made /\ Goto(l, "read")  BY <1>4, <2>0, <2>2
    <3>2. QED  BY <1>3, <2>2, <3>1
  <2>3. QED  BY <2>1, <2>2
<1>5. QED  BY <1>2, <1>4 DEF CreateAgain

LEMMA ReadNidKeeps ==
  ASSUME IInv, NEW l \in Loads, ReadNid(l), process' = process, evpType' = evpType
  PROVE  IInv'
<1> DEFINE n == Sn2nid(objs[Own], Alg(l))
           d == [load[l] EXCEPT !.pc = "set", !.nid = n]
<1>1. /\ load[l] \in LoadRecords /\ load \in [Loads -> LoadRecords] /\ load[l].pc = "read"
      /\ Own \in Libs /\ TablesInv
  BY DEF IInv, TypeInv, ReadNid, Own, Libs
<1>2. objs' = objs /\ nid' = nid /\ sigids' = sigids /\ oid' = oid /\ code' = code
      /\ host' = host /\ moved' = moved /\ env' = env
  BY DEF ReadNid, tables, process
<1>3. load' = [load EXCEPT ![l] = d]
  BY <1>1 DEF ReadNid, LoadRecords
<1>4. n \in Nat
  <2>1. Table(objs[Own])  BY <1>1 DEF TablesInv
  <2>2. n \in 0 .. Len(objs[Own]) /\ Len(objs[Own]) \in Nat
    BY <2>1, TheOneSelected DEF Table
  <2>3. QED  BY <2>2
<1>5. /\ d \in LoadRecords /\ d.pc = "set" /\ d.nid = n /\ d.unseen = load[l].unseen
      /\ d.i = load[l].i
      /\ d.biometh = load[l].biometh /\ d.libctx = load[l].libctx /\ d.provctx = load[l].provctx
  BY <1>1, <1>4 DEF LoadRecords, Pcs, Working
<1> HIDE DEF d
<1>6. NotesOnly(l) /\ load'[l] = d
  BY <1>3, <1>5, Noted
<1>7. Step(l) /\ ResInv(load'[l]) /\ Passed(l)' = Passed(l) /\ (Alg(l))' = Alg(l)
  BY <1>1, <1>2, <1>5, <1>6, LoopStep DEF Working
<1>8. SigidLoad(l)'
  BY <1>1, <1>2, <1>5, <1>6, <1>7 DEF IInv, SigidLoad
<1>9. NothingUnseen => SeenLoad(l)'
  <2> SUFFICES ASSUME NothingUnseen PROVE SeenLoad(l)'
    OBVIOUS
  <2>1. /\ SeenLoad(l) /\ Sn2nid(objs["core"], Alg(l)) # 0
        /\ n # 0 \/ Doomed(Alg(l))
    BY <1>1 DEF IInv, SeenInv, SeenLoad, Working
  <2>2. n # 0 \/ (Doomed(Alg(l)))'
    BY <1>2, <1>7, <2>1 DEF Doomed, Settled
  <2>3. QED  BY <1>1, <1>2, <1>5, <1>6, <1>7, <2>1, <2>2 DEF SeenLoad
<1>10. load'[l].nid = Sn2nid(objs[Own], OidList[load'[l].i])
  BY <1>5, <1>6 DEF Alg
<1>11. QED  BY <1>2, <1>7, <1>8, <1>9, <1>10, QuietStep

\* A load that saw everything does not overwrite a NID: it has read the same,
\* or would not get here.
LEMMA SetNidSticks ==
  ASSUME IInv, NEW l \in Loads, SetNid(l), NothingUnseen, NEW b \in Algs, nid[b] # 0
  PROVE  nid'[b] = nid[b]
<1> DEFINE a == Alg(l)
           n == load[l].nid
<1>1. /\ load[l] \in LoadRecords /\ load[l].pc = "set"
      /\ nid \in [Algs -> Nat] /\ n \in Nat /\ a \in Algs
  BY AlgsKnown DEF IInv, TypeInv, SetNid, LoadRecords, Alg
<1>2. nid' = [nid EXCEPT ![a] = n]
  <2>1. a \in Range(NidNames)
    BY <1>1, InitAssumption
  <2>2. QED  BY <1>1, <2>1 DEF SetNid
<1>3. n # 0 => n = Sn2nid(objs[Own], a)
  BY <1>1 DEF IInv, NidInv
<1>4. n # 0 \/ Doomed(a)
  BY <1>1 DEF IInv, SeenInv, SeenLoad
<1>5. CASE b # a
  BY <1>1, <1>2, <1>5
<1>6. CASE b = a
  <2>1. nid[a] = Sn2nid(objs[Own], a) /\ Sn2nid(objs[Own], a) # 0
    BY <1>1, <1>6 DEF IInv, NidInv
  <2>2. ~Doomed(a)
    BY <2>1 DEF Doomed, Own
  <2>3. QED  BY <1>1, <1>2, <1>3, <1>4, <1>6, <2>1, <2>2
<1>7. QED  BY <1>5, <1>6

LEMMA SetNidKeeps ==
  ASSUME IInv, NEW l \in Loads, SetNid(l), process' = process, evpType' = evpType
  PROVE  IInv'
<1> DEFINE a == Alg(l)
           n == load[l].nid
           d == [load[l] EXCEPT !.pc = "sigid"]
<1>1. /\ load[l] \in LoadRecords /\ load \in [Loads -> LoadRecords] /\ load[l].pc = "set"
      /\ nid \in [Algs -> Nat] /\ n \in Nat /\ a \in Algs
  BY AlgsKnown DEF IInv, TypeInv, SetNid, LoadRecords, Alg
<1>2. /\ objs' = objs /\ sigids' = sigids /\ oid' = oid /\ code' = code
      /\ host' = host /\ moved' = moved /\ env' = env /\ Own' = Own
  BY DEF SetNid, process, Own
<1>3. nid' = [nid EXCEPT ![a] = n] /\ load' = [load EXCEPT ![l] = d]
  <2>1. a \in Range(NidNames)
    BY <1>1, InitAssumption
  <2>2. QED  BY <1>1, <2>1 DEF SetNid, Goto, LoadRecords
<1>4. /\ d \in LoadRecords /\ d.pc = "sigid" /\ d.unseen = load[l].unseen /\ d.i = load[l].i
      /\ d.biometh = load[l].biometh /\ d.libctx = load[l].libctx /\ d.provctx = load[l].provctx
  BY <1>1 DEF LoadRecords, Pcs, Working
<1> HIDE DEF d
<1>5. NotesOnly(l) /\ load'[l] = d
  BY <1>3, <1>4, Noted
<1>6. Step(l) /\ ResInv(load'[l]) /\ Passed(l)' = Passed(l) /\ (Alg(l))' = a
  BY <1>1, <1>2, <1>4, <1>5, LoopStep DEF Working
<1>7. SigidLoad(l)'
  BY <1>1, <1>2, <1>4, <1>5, <1>6 DEF IInv, SigidLoad
<1>8. n # 0 => n = Sn2nid(objs[Own], a)
  BY <1>1 DEF IInv, NidInv
<1>9. \A b \in Algs : nid'[b] # 0 => nid'[b] = nid[b] \/ nid'[b] = Sn2nid(objs'[Own], b)
  BY <1>1, <1>2, <1>3, <1>8
<1>10. nid' \in [Algs -> Nat] /\ nid'[a] = n
  BY <1>1, <1>3
<1>11. NothingUnseen => (n # 0 \/ Doomed(a)) /\ SeenLoad(l)
  BY <1>1 DEF IInv, SeenInv, SeenLoad
<1>12. NothingUnseen => \A b \in Algs : nid[b] # 0 => nid'[b] = nid[b]
  BY SetNidSticks
<1>13. NothingUnseen => SeenLoad(l)' /\ OwnInCore'
  <2> SUFFICES ASSUME NothingUnseen PROVE SeenLoad(l)' /\ OwnInCore'
    OBVIOUS
  <2>1. SeenLoad(l) /\ Sn2nid(objs["core"], a) # 0 /\ OwnInCore
    BY <1>1 DEF IInv, SeenInv, SeenLoad, Working
  <2>2. nid'[a] # 0 \/ (Doomed(a))'
    BY <1>2, <1>6, <1>10, <1>11 DEF Doomed, Settled
  <2>3. \A b \in Passed(l) : nid'[b] # 0
    BY <1>12, <2>1, PassedAlgs DEF SeenLoad
  <2>4. SeenLoad(l)'
    BY <1>1, <1>2, <1>4, <1>5, <1>6, <2>1, <2>2, <2>3 DEF SeenLoad
  <2>5. QED  BY <1>2, <2>1, <2>4 DEF OwnInCore
<1>14. TablesInv' /\ TablesGrow /\ objs' = [x \in Libs |-> objs'[x]]
  <2>1. Begun /\ Begun'
    BY <1>1, <1>4, <1>5 DEF Begun
  <2>2. QED  BY <1>2, <2>1 DEF IInv, TypeInv, TablesInv, Settled, ByTheList, TablesGrow
<1>15. DoomedStays
  BY <1>2 DEF DoomedStays, Doomed, Settled
<1>16. load'[l].pc # "set"
  BY <1>4, <1>5
<1>17. QED  BY <1>2, <1>6, <1>7, <1>9, <1>10, <1>12, <1>13, <1>14, <1>15, <1>16, StepKeeps

LEMMA AddSigidKeeps ==
  ASSUME IInv, NEW l \in Loads, AddSigid(l), process' = process, evpType' = evpType
  PROVE  IInv'
<1> DEFINE known == Sn2nid(objs["core"], Alg(l)) # 0
           p == IF known THEN "check" ELSE "end"
           d == [load[l] EXCEPT !.pc = p]
<1>1. load[l] \in LoadRecords /\ load \in [Loads -> LoadRecords] /\ load[l].pc = "sigid"
  BY DEF IInv, TypeInv, AddSigid
<1>2. CASE OutOfMemory(l)
  BY <1>1, <1>2, OutOfMemoryKeeps DEF Working
<1>3. CASE /\ sigids' = IF known THEN sigids \cup {Alg(l)} ELSE sigids
           /\ Goto(l, p) /\ UNCHANGED <<objs, oid, code, nid>>
  <2>1. load' = [load EXCEPT ![l] = d]
    BY <1>1, <1>3 DEF Goto, LoadRecords
  <2>2. /\ objs' = objs /\ nid' = nid /\ oid' = oid /\ code' = code /\ sigids \subseteq sigids'
        /\ host' = host /\ moved' = moved /\ env' = env
    BY <1>3 DEF process
  <2>3. p \in {"check", "end"} /\ p \in Pcs /\ (p = "check" => Alg(l) \in sigids')
    BY <1>3 DEF Pcs, Working
  <2> HIDE DEF p
  <2>4. /\ d \in LoadRecords /\ d.pc = p /\ d.unseen = load[l].unseen /\ d.i = load[l].i
        /\ d.biometh = load[l].biometh /\ d.libctx = load[l].libctx /\ d.provctx = load[l].provctx
    BY <1>1, <2>3 DEF LoadRecords
  <2> HIDE DEF d
  <2>5. NotesOnly(l) /\ load'[l] = d
    BY <2>1, <2>4, Noted
  <2>6. Step(l) /\ ResInv(load'[l]) /\ Passed(l)' = Passed(l) /\ (Alg(l))' = Alg(l)
    BY <1>1, <2>2, <2>3, <2>4, <2>5, LoopStep DEF Working
  <2>7. SigidLoad(l)'
    BY <2>2, <2>3, <2>4, <2>5, <2>6 DEF IInv, SigidLoad
  <2>8. NothingUnseen => SeenLoad(l)'
    <3> SUFFICES ASSUME NothingUnseen PROVE SeenLoad(l)'
      OBVIOUS
    <3>1. /\ SeenLoad(l) /\ Sn2nid(objs["core"], Alg(l)) # 0
          /\ nid[Alg(l)] # 0 \/ Doomed(Alg(l))
      BY <1>1 DEF IInv, SeenInv, SeenLoad, Working
    <3>2. nid[Alg(l)] # 0 \/ (Doomed(Alg(l)))'
      BY <2>2, <2>6, <3>1 DEF Doomed, Settled
    <3>3. QED  BY <2>2, <2>3, <2>4, <2>5, <2>6, <3>1, <3>2 DEF SeenLoad
  <2>9. load'[l].pc # "set"
    BY <2>3, <2>4, <2>5
  <2>10. QED  BY <2>2, <2>6, <2>7, <2>8, <2>9, QuietStep
<1>4. QED  BY <1>2, <1>3 DEF AddSigid

\* The algorithms a load is done with grow by the one it checked.
LEMMA CheckNidKeeps ==
  ASSUME IInv, NEW l \in Loads, CheckNid(l), process' = process, evpType' = evpType
  PROVE  IInv'
<1> DEFINE a == Alg(l)
           found == Sn2nid(objs[Own], a) # 0
           last == load[l].i = Len(OidList)
           p == IF ~found THEN "end" ELSE IF last THEN "biometh" ELSE "lookup"
           q == IF found /\ ~last THEN load[l].i + 1 ELSE load[l].i
           d == [load[l] EXCEPT !.pc = p, !.i = q]
<1>1. /\ load[l] \in LoadRecords /\ load \in [Loads -> LoadRecords] /\ load[l].pc = "check"
      /\ load[l].i \in 1 .. Len(OidList) /\ Len(OidList) \in Nat
  BY AlgsKnown DEF IInv, TypeInv, CheckNid, LoadRecords
<1>2. objs' = objs /\ nid' = nid /\ sigids' = sigids /\ oid' = oid /\ code' = code
      /\ host' = host /\ moved' = moved /\ env' = env
  BY DEF CheckNid, tables, process
<1>3. load' = [load EXCEPT ![l] = d]
  BY <1>1 DEF CheckNid, LoadRecords
<1>4. /\ p \in {"end", "biometh", "lookup"} /\ p \in Pcs /\ q \in 1 .. Len(OidList)
      /\ p = "end" => q = load[l].i
      /\ p = "lookup" => found /\ q = load[l].i + 1
      /\ p = "biometh" => found /\ q = load[l].i /\ q = Len(OidList)
  BY <1>1 DEF Pcs, Working, Making
<1> HIDE DEF p, q
<1>5. /\ d \in LoadRecords /\ d.pc = p /\ d.unseen = load[l].unseen /\ d.i = q
      /\ d.biometh = load[l].biometh /\ d.libctx = load[l].libctx /\ d.provctx = load[l].provctx
  BY <1>1, <1>4 DEF LoadRecords
<1> HIDE DEF d
<1>6. /\ load'[l] = d /\ load' \in [Loads -> LoadRecords]
      /\ \A m \in Loads \ {l} : load'[m] = load[m]
  BY <1>1, <1>3, <1>5
<1>7. Step(l)
  BY <1>1, <1>2, <1>4, <1>5, <1>6 DEF Step
<1>8. ResInv(d)
  <2>1. ResInv(load[l]) /\ Resources(load[l]) = <<"none", "none", "none">>
    BY <1>1 DEF IInv, ResInv, Working
  <2>2. d.biometh = "none" /\ d.libctx = "none" /\ d.provctx = "none"
    BY <1>5, <2>1 DEF Resources
  <2>3. QED  BY <1>4, <1>5, <2>2 DEF ResInv, Resources, Working
<1>9. Passed(l) = {OidList[j] : j \in {j \in 1 .. Len(OidList) : j < load[l].i}}
  BY <1>1 DEF Passed, Making
<1>10. Passed(l)' \subseteq Passed(l) \cup {a}
  <2>1. CASE p = "biometh"
    <3>1. \A j \in 1 .. Len(OidList) : j = load[l].i \/ j < load[l].i
      BY <1>1, <1>4, <2>1
    <3>2. \A j \in 1 .. Len(OidList) : OidList[j] \in Passed(l) \cup {a}
      BY <1>9, <3>1 DEF Alg
    <3>3. QED  BY <3>2 DEF Passed
  <2>2. CASE p = "lookup"
    <3>1. Passed(l)' = {OidList[j] : j \in {j \in 1 .. Len(OidList) : j < load[l].i + 1}}
      BY <1>4, <1>5, <1>6, <2>2 DEF Passed, Making
    <3>2. \A j \in 1 .. Len(OidList) : j < load[l].i + 1 => j = load[l].i \/ j < load[l].i
      BY <1>1
    <3>3. QED  BY <1>9, <3>1, <3>2 DEF Alg
  <2>3. CASE p = "end"
    BY <1>4, <1>5, <1>6, <1>9, <2>3 DEF Passed, Making
  <2>4. QED  BY <1>4, <2>1, <2>2, <2>3
<1>11. p = "end" => Passed(l)' = Passed(l)
  BY <1>4, <1>5, <1>6, <1>9 DEF Passed, Making
<1>12. SigidLoad(l)'
  <2>1. a \in sigids /\ \A b \in Passed(l) : b \in sigids
    BY <1>1 DEF IInv, SigidLoad
  <2>2. QED  BY <1>2, <1>4, <1>5, <1>6, <1>10, <2>1 DEF SigidLoad
<1>13. NothingUnseen => SeenLoad(l)'
  <2> SUFFICES ASSUME NothingUnseen PROVE SeenLoad(l)'
    OBVIOUS
  <2>1. /\ SeenLoad(l) /\ \A b \in Passed(l) : nid[b] # 0
        /\ nid[a] # 0 \/ Doomed(a)
    BY <1>1 DEF IInv, SeenInv, SeenLoad, Working
  <2>2. found => nid[a] # 0
    BY <2>1 DEF Doomed, Own
  <2>3. \A b \in Passed(l)' : nid'[b] # 0
    BY <1>2, <1>4, <1>10, <1>11, <2>1, <2>2
  <2>4. QED  BY <1>4, <1>5, <1>6, <2>3 DEF SeenLoad, Working
<1>14. load'[l].pc # "set"
  BY <1>4, <1>5, <1>6
<1>15. QED  BY <1>2, <1>6, <1>7, <1>8, <1>12, <1>13, <1>14, QuietStep

\* A step after the loop that touches the resources only.
LEMMA AfterLoop ==
  ASSUME IInv, NEW l \in Loads, load[l].pc \in Making \cup {"end", "loaded"}, NEW d \in LoadRecords,
         d.pc \in Making \cup {"loaded", "failed", "unloaded"},
         d.pc \in Making \cup {"loaded"} => load[l].pc \in Making \cup {"loaded"},
         d.i = load[l].i, d.unseen = load[l].unseen, ResInv(d),
         load' = [load EXCEPT ![l] = d], UNCHANGED tables,
         process' = process, evpType' = evpType
  PROVE  IInv'
<1>1. load \in [Loads -> LoadRecords]
  BY DEF IInv, TypeInv
<1>2. objs' = objs /\ nid' = nid /\ sigids' = sigids /\ oid' = oid /\ code' = code
      /\ host' = host /\ moved' = moved /\ env' = env
  BY DEF tables, process
<1>3. /\ load'[l] = d /\ load' \in [Loads -> LoadRecords]
      /\ \A m \in Loads \ {l} : load'[m] = load[m]
  BY <1>1
<1>4. Step(l)
  BY <1>2, <1>3 DEF Step, Making
<1>5. Passed(l)' \subseteq Passed(l)
  BY <1>3 DEF Passed
<1>6. SigidLoad(l)'
  BY <1>2, <1>3, <1>5 DEF IInv, SigidLoad, Making
<1>7. NothingUnseen => SeenLoad(l)'
  BY <1>2, <1>3, <1>5 DEF IInv, SeenInv, SeenLoad, Making, Working
<1>8. load'[l].pc # "set"
  BY <1>3 DEF Making
<1>9. QED  BY <1>2, <1>3, <1>4, <1>6, <1>7, <1>8, QuietStep

LEMMA MakingKeeps ==
  ASSUME IInv, NEW l \in Loads, NewBioMeth(l) \/ NewLibctx(l) \/ NewProvctx(l),
         process' = process, evpType' = evpType
  PROVE  IInv'
<1>1. load[l] \in LoadRecords /\ load \in [Loads -> LoadRecords] /\ ResInv(load[l])
  BY DEF IInv, TypeInv
<1>2. CASE OutOfMemory(l)
  <2>1. load[l].pc \in Making
    BY DEF NewBioMeth, NewLibctx, NewProvctx, Making
  <2>2. QED  BY <1>2, <2>1, OutOfMemoryKeeps
<1>3. CASE ~OutOfMemory(l) /\ NewBioMeth(l)
  <2> DEFINE d == [load[l] EXCEPT !.biometh = "live", !.pc = "libctx"]
  <2>1. load' = [load EXCEPT ![l] = d] /\ load[l].pc = "biometh" /\ UNCHANGED tables
    BY <1>1, <1>3 DEF NewBioMeth, LoadRecords
  <2>2. /\ d \in LoadRecords /\ d.pc = "libctx" /\ d.unseen = load[l].unseen /\ d.i = load[l].i
        /\ d.biometh = "live" /\ d.libctx = load[l].libctx /\ d.provctx = load[l].provctx
    BY <1>1 DEF LoadRecords, Pcs, Making
  <2> HIDE DEF d
  <2>3. ResInv(d)
    BY <1>1, <2>1, <2>2 DEF ResInv, Resources, Working
  <2>4. QED  BY <2>1, <2>2, <2>3, AfterLoop DEF Making
<1>4. CASE ~OutOfMemory(l) /\ NewLibctx(l)
  <2> DEFINE d == [load[l] EXCEPT !.libctx = "live", !.pc = "provctx"]
  <2>1. load' = [load EXCEPT ![l] = d] /\ load[l].pc = "libctx" /\ UNCHANGED tables
    BY <1>1, <1>4 DEF NewLibctx, LoadRecords
  <2>2. /\ d \in LoadRecords /\ d.pc = "provctx" /\ d.unseen = load[l].unseen /\ d.i = load[l].i
        /\ d.biometh = load[l].biometh /\ d.libctx = "live" /\ d.provctx = load[l].provctx
    BY <1>1 DEF LoadRecords, Pcs, Making
  <2> HIDE DEF d
  <2>3. ResInv(d)
    BY <1>1, <2>1, <2>2 DEF ResInv, Resources, Working
  <2>4. QED  BY <2>1, <2>2, <2>3, AfterLoop DEF Making
<1>5. CASE ~OutOfMemory(l) /\ NewProvctx(l)
  <2> DEFINE d == [load[l] EXCEPT !.provctx = "live", !.pc = "loaded"]
  <2>1. load' = [load EXCEPT ![l] = d] /\ load[l].pc = "provctx" /\ UNCHANGED tables
    BY <1>1, <1>5 DEF NewProvctx, LoadRecords
  <2>2. /\ d \in LoadRecords /\ d.pc = "loaded" /\ d.unseen = load[l].unseen /\ d.i = load[l].i
        /\ d.biometh = load[l].biometh /\ d.libctx = load[l].libctx /\ d.provctx = "live"
    BY <1>1 DEF LoadRecords, Pcs, Making
  <2> HIDE DEF d
  <2>3. ResInv(d)
    BY <1>1, <2>1, <2>2 DEF ResInv, Resources, Working
  <2>4. QED  BY <2>1, <2>2, <2>3, AfterLoop DEF Making
<1>6. QED  BY <1>2, <1>3, <1>4, <1>5

\* Cleaning up frees what a failed load may have, but for the BIO method; a
\* teardown frees all three.
LEMMA EndKeeps ==
  ASSUME IInv, NEW l \in Loads, EndInit(l) \/ Teardown(l), process' = process, evpType' = evpType
  PROVE  IInv'
<1>1. load[l] \in LoadRecords /\ load \in [Loads -> LoadRecords] /\ ResInv(load[l])
  BY DEF IInv, TypeInv
<1>2. CASE EndInit(l)
  <2> DEFINE d == [load[l] EXCEPT !.libctx = Free(load[l].libctx), !.pc = "failed"]
  <2>1. /\ load[l].pc = "end" /\ UNCHANGED tables /\ load[l].provctx = "none"
        /\ load[l].libctx \in {"none", "live"} /\ load[l].biometh \in {"none", "live"}
        /\ load[l].biometh = "live" => load[l].oom
    BY <1>1, <1>2 DEF EndInit, ResInv
  <2>2. [Cleanup(load[l]) EXCEPT !.pc = "failed"] = d
    BY <1>1, <2>1 DEF Cleanup, LoadRecords
  <2>3. load' = [load EXCEPT ![l] = d]
    BY <1>2, <2>2 DEF EndInit
  <2>4. Free(load[l].libctx) \in {"none", "freed"}
    BY <2>1 DEF Free
  <2>5. /\ d \in LoadRecords /\ d.pc = "failed" /\ d.unseen = load[l].unseen /\ d.i = load[l].i
        /\ d.biometh = load[l].biometh /\ d.provctx = "none" /\ d.oom = load[l].oom
        /\ d.libctx \in {"none", "freed"}
    BY <1>1, <2>1, <2>4 DEF LoadRecords, Pcs
  <2> HIDE DEF d
  <2>6. ResInv(d)
    BY <2>1, <2>5 DEF ResInv, Working
  <2>7. QED  BY <2>1, <2>3, <2>5, <2>6, AfterLoop DEF Making
<1>3. CASE Teardown(l)
  <2> DEFINE d == [FreeProvctx(load[l]) EXCEPT !.pc = "unloaded"]
  <2>1. /\ load[l].pc = "loaded" /\ UNCHANGED tables /\ load[l].provctx = "live"
        /\ load[l].libctx = "live" /\ load[l].biometh = "live"
    BY <1>1, <1>3 DEF Teardown, ResInv, Resources
  <2>2. load' = [load EXCEPT ![l] = d]
    BY <1>3 DEF Teardown
  <2>3. d = [load[l] EXCEPT !.libctx = "freed", !.biometh = "freed", !.provctx = "freed",
                            !.pc = "unloaded"]
    BY <1>1, <2>1 DEF FreeProvctx, Free, LoadRecords
  <2> HIDE DEF d
  <2>4. /\ d \in LoadRecords /\ d.pc = "unloaded" /\ d.unseen = load[l].unseen /\ d.i = load[l].i
        /\ d.biometh = "freed" /\ d.provctx = "freed" /\ d.libctx = "freed"
    BY <1>1, <2>3 DEF LoadRecords, Pcs
  <2>5. ResInv(d)
    BY <2>4 DEF ResInv, Working
  <2>6. QED  BY <2>1, <2>2, <2>4, <2>5, AfterLoop DEF Making
<1>4. QED  BY <1>2, <1>3

-----------------------------------------------------------------------------
(* The steps that are not of one load's run.                                *)

LEMMA NewDecoderKeeps ==
  ASSUME IInv, NEW l \in Loads, NEW a \in Algs, NewDecoder(l, a), process' = process
  PROVE  IInv'
<1>1. /\ load[l].pc = "loaded" /\ evpType' = [evpType EXCEPT ![a] = Sn2nid(objs[Own], a)]
      /\ objs' = objs /\ nid' = nid /\ sigids' = sigids /\ oid' = oid /\ code' = code
      /\ host' = host /\ moved' = moved /\ env' = env /\ load' = load /\ Own' = Own
  BY DEF NewDecoder, process, Own
<1>2. Sn2nid(objs[Own], a) \in Nat
  <2>1. Table(objs[Own])  BY DEF IInv, TablesInv, Own, Libs
  <2>2. Sn2nid(objs[Own], a) \in 0 .. Len(objs[Own]) /\ Len(objs[Own]) \in Nat
    BY <2>1, TheOneSelected DEF Table
  <2>3. QED  BY <2>2
<1>3. TypeInv'
  BY <1>1, <1>2 DEF IInv, TypeInv
<1>4. TablesInv'
  BY <1>1 DEF IInv, TablesInv, Settled, ByTheList, Begun
<1>5. \A m \in Loads : Passed(m)' = Passed(m) /\ (Alg(m))' = Alg(m)
  BY <1>1 DEF Passed, Alg
<1>6. NidInv'
  <2>1. \A b \in Algs : evpType'[b] # 0 => evpType'[b] = Sn2nid(objs[Own], b)
    BY <1>1 DEF IInv, TypeInv, NidInv
  <2>2. QED  BY <1>1, <1>5, <2>1 DEF IInv, NidInv
<1>7. CodesInv'
  BY <1>1 DEF IInv, CodesInv, Begun
<1>8. \A m \in Loads : ResInv(load'[m]) /\ SigidLoad(m)'
  BY <1>1, <1>5 DEF IInv, SigidLoad
<1>9. ASSUME NothingUnseen' PROVE SeenInv'
  <2>1. SeenInv
    BY <1>1, <1>9 DEF NothingUnseen, IInv
  <2>2. a \in Passed(l)
    BY <1>1, AlgsKnown DEF Passed
  <2>3. nid[a] # 0
    BY <2>1, <2>2 DEF SeenInv, SeenLoad
  <2>4. \A b \in Algs : evpType'[b] # 0 => nid'[b] # 0
    BY <1>1, <2>1, <2>3 DEF SeenInv
  <2>5. \A m \in Loads : SeenLoad(m)'
    <3> SUFFICES ASSUME NEW m \in Loads PROVE SeenLoad(m)'
      OBVIOUS
    <3>1. SeenLoad(m) /\ (Alg(m))' = Alg(m) /\ Passed(m)' = Passed(m)
      BY <1>5, <2>1 DEF SeenInv
    <3>2. Doomed(Alg(m)) => (Doomed(Alg(m)))'
      BY <1>1, <3>1 DEF Doomed, Settled
    <3>3. QED  BY <1>1, <3>1, <3>2 DEF SeenLoad
  <2>6. QED  BY <1>1, <2>1, <2>4, <2>5 DEF SeenInv, OwnInCore
<1>10. QED  BY <1>3, <1>4, <1>6, <1>7, <1>8, <1>9 DEF IInv

LEMMA SetEnvKeeps ==
  ASSUME IInv, SetEnv
  PROVE  IInv'
<1>1. /\ ~moved /\ moved' = TRUE /\ Begun /\ Begun'
      /\ objs' = objs /\ nid' = nid /\ sigids' = sigids /\ oid' = oid /\ code' = code
      /\ host' = host /\ load' = load /\ evpType' = evpType /\ Own' = Own
  BY DEF SetEnv, Own, Begun
<1>2. TypeInv'
  BY <1>1 DEF IInv, TypeInv
<1>3. TablesInv'
  BY <1>1 DEF IInv, TablesInv, Settled, ByTheList
<1>4. \A m \in Loads : Passed(m)' = Passed(m) /\ (Alg(m))' = Alg(m)
  BY <1>1 DEF Passed, Alg
<1>5. NidInv'
  BY <1>1, <1>4 DEF IInv, NidInv
<1>6. CodesInv'
  BY <1>1 DEF IInv, CodesInv
<1>7. \A m \in Loads : ResInv(load'[m]) /\ SigidLoad(m)'
  BY <1>1, <1>4 DEF IInv, SigidLoad
<1>8. ASSUME NothingUnseen' PROVE SeenInv'
  <2>1. SeenInv
    BY <1>1, <1>8 DEF NothingUnseen, IInv
  <2>2. \A m \in Loads : SeenLoad(m)'
    <3> SUFFICES ASSUME NEW m \in Loads PROVE SeenLoad(m)'
      OBVIOUS
    <3>1. SeenLoad(m) /\ (Alg(m))' = Alg(m) /\ Passed(m)' = Passed(m)
      BY <1>4, <2>1 DEF SeenInv
    <3>2. Doomed(Alg(m)) => (Doomed(Alg(m)))'
      BY <1>1, <3>1 DEF Doomed, Settled
    <3>3. QED  BY <1>1, <3>1, <3>2 DEF SeenLoad
  <2>3. QED  BY <1>1, <2>1, <2>2 DEF SeenInv, OwnInCore
<1>9. QED  BY <1>2, <1>3, <1>5, <1>6, <1>7, <1>8 DEF IInv

\* What the environment names is the same after one patch and after two.
LEMMA PatchTwice ==
  /\ \A e, list : PatchOids(e, PatchOids(e, list)) = PatchOids(e, list)
  /\ \A e, lists : PatchCodes(e, PatchCodes(e, lists)) = PatchCodes(e, lists)
<1>1. ASSUME NEW e, NEW list
      PROVE  PatchOids(e, PatchOids(e, list)) = PatchOids(e, list)
  BY DEF PatchOids
<1>2. ASSUME NEW e, NEW lists
      PROVE  PatchCodes(e, PatchCodes(e, lists)) = PatchCodes(e, lists)
  BY DEF PatchCodes
<1>3. QED  BY <1>1, <1>2

\* The first load reads the environment; a later one finds the list as it was,
\* unless the environment has changed, and then the list is settled.
LEMMA StartKeeps ==
  ASSUME IInv, NEW l \in Loads, Start(l), process' = process
  PROVE  IInv'
<1> DEFINE others == {m \in Loads \ {l} : Running(m)}
           p == IF host.fns THEN "lookup" ELSE "end"
<1>1. /\ load[l].pc = "new" /\ load[l] \in LoadRecords /\ load \in [Loads -> LoadRecords]
      /\ oid' = PatchOids(env.oid, oid) /\ code' = PatchCodes(env.code, code)
      /\ objs' = objs /\ sigids' = sigids /\ nid' = nid /\ evpType' = evpType
      /\ host' = host /\ moved' = moved /\ env' = env /\ Own' = Own
      /\ TypeInv /\ TablesInv
  BY DEF Start, process, IInv, TypeInv, Own
<1>2. p \in {"lookup", "end"}
  OBVIOUS
<1>3. \A m \in Loads :
        /\ load'[m] \in LoadRecords /\ load'[m].i = load[m].i /\ load'[m].nid = load[m].nid
        /\ load'[m].oom = load[m].oom /\ load'[m].unseen = load[m].unseen
        /\ Resources(load'[m]) = Resources(load[m])
        /\ m # l => load'[m].pc = load[m].pc
        /\ m = l => load'[m].pc = p
  <2>1. load' = [m \in Loads |->
          CASE m = l -> [load[l] EXCEPT !.alone = (others = {}), !.pc = p]
            [] m \in others -> [load[m] EXCEPT !.alone = FALSE]
            [] OTHER -> load[m]]
    BY DEF Start
  <2>2. p \in Pcs /\ l \notin others
    BY <1>2 DEF Pcs, Working
  <2> HIDE DEF p, others
  <2> SUFFICES ASSUME NEW m \in Loads
               PROVE  /\ load'[m] \in LoadRecords /\ load'[m].i = load[m].i /\ load'[m].nid = load[m].nid
                      /\ load'[m].oom = load[m].oom /\ load'[m].unseen = load[m].unseen
                      /\ Resources(load'[m]) = Resources(load[m])
                      /\ m # l => load'[m].pc = load[m].pc
                      /\ m = l => load'[m].pc = p
    OBVIOUS
  <2>3. CASE m = l
    <3>1. load'[m] = [load[l] EXCEPT !.alone = (others = {}), !.pc = p]
      BY <2>1, <2>2, <2>3
    <3>2. (others = {}) \in BOOLEAN
      OBVIOUS
    <3>3. QED  BY <1>1, <2>2, <2>3, <3>1, <3>2 DEF LoadRecords, Resources
  <2>4. CASE m # l /\ m \in others
    <3>1. load'[m] = [load[m] EXCEPT !.alone = FALSE] /\ load[m] \in LoadRecords
      BY <1>1, <2>1, <2>4
    <3>2. QED  BY <2>4, <3>1 DEF LoadRecords, Resources
  <2>5. CASE m # l /\ m \notin others
    BY <1>1, <2>1, <2>5
  <2>6. QED  BY <2>3, <2>4, <2>5
<1>4. load' \in [Loads -> LoadRecords]
  <2>1. load' = [m \in Loads |-> load'[m]]
    BY DEF Start
  <2>2. QED  BY <1>3, <2>1
<1> HIDE DEF p, others
<1>5. Begun' /\ (Begun /\ ~moved => oid' = oid) /\ (Settled => oid' = oid)
  BY <1>1, <1>2, <1>3, PatchTwice DEF Begun, TablesInv, Settled
<1>6. oid' = PatchOids(env.oid, oid')
  BY <1>1, PatchTwice
<1>7. TypeInv'
  BY <1>1, <1>4 DEF TypeInv
<1>8. ByTheList' \/ Settled'
  <2>1. CASE moved
    BY <1>1, <1>6, <2>1 DEF Settled
  <2>2. CASE ~moved /\ Begun
    <3>1. ByTheList
      BY <1>1, <2>2 DEF TablesInv, Settled
    <3>2. QED  BY <1>1, <1>5, <2>2, <3>1 DEF ByTheList
  <2>3. CASE ~Begun
    <3>1. \A lib \in Libs : Len(objs[lib]) = Len(host.pre) /\ Len(host.pre) \in Nat
      BY <1>1, <2>3, InitAssumption DEF TablesInv, TypeInv
    <3>2. \A lib \in Libs : \A i \in 1 .. Len(objs[lib]) : ~(i > Len(host.pre))
      BY <3>1
    <3>3. QED  BY <1>1, <3>2 DEF ByTheList
  <2>4. QED  BY <2>1, <2>2, <2>3
<1>9. TablesInv'
  BY <1>1, <1>5, <1>6, <1>8 DEF TablesInv
<1>10. \A m \in Loads : Passed(m)' = Passed(m) /\ (Alg(m))' = Alg(m)
  BY <1>1, <1>2, <1>3 DEF Passed, Alg, Making
<1>11. NidInv'
  BY <1>1, <1>2, <1>3, <1>10 DEF IInv, NidInv
<1>12. CodesInv'
  <2>1. CASE moved
    BY <1>1, <1>5, <2>1 DEF CodesInv
  <2>2. CASE ~moved /\ Begun
    BY <1>1, <1>5, <2>2, PatchTwice DEF IInv, CodesInv
  <2>3. CASE ~Begun
    BY <1>1, <1>5, <2>3 DEF IInv, CodesInv
  <2>4. QED  BY <2>1, <2>2, <2>3
<1>13. \A m \in Loads : ResInv(load'[m]) /\ SigidLoad(m)'
  <2> SUFFICES ASSUME NEW m \in Loads PROVE ResInv(load'[m]) /\ SigidLoad(m)'
    OBVIOUS
  <2>1. ResInv(load[m]) /\ SigidLoad(m)
    BY DEF IInv
  <2>2. SigidLoad(m)'
    BY <1>1, <1>2, <1>3, <1>10, <2>1 DEF SigidLoad
  <2>3. /\ load'[m].biometh = load[m].biometh /\ load'[m].libctx = load[m].libctx
        /\ load'[m].provctx = load[m].provctx
    BY <1>3 DEF Resources
  <2>4. ResInv(load'[m])
    <3>1. CASE m = l
      <4>1. Resources(load[l]) = <<"none", "none", "none">>
        BY <1>1, <2>1, <3>1 DEF ResInv
      <4>2. load'[l].biometh = "none" /\ load'[l].libctx = "none" /\ load'[l].provctx = "none"
        BY <1>3, <4>1 DEF Resources
      <4>3. QED  BY <1>2, <1>3, <3>1, <4>2 DEF ResInv, Resources, Working
    <3>2. CASE m # l
      BY <1>3, <2>1, <2>3, <3>2 DEF ResInv
    <3>3. QED  BY <3>1, <3>2
  <2>5. QED  BY <2>2, <2>4
<1>14. ASSUME NothingUnseen' PROVE SeenInv'
  <2>1. SeenInv
    BY <1>3, <1>14 DEF NothingUnseen, IInv
  <2>2. \A m \in Loads : SeenLoad(m)'
    <3> SUFFICES ASSUME NEW m \in Loads PROVE SeenLoad(m)'
      OBVIOUS
    <3>1. SeenLoad(m) /\ (Alg(m))' = Alg(m) /\ Passed(m)' = Passed(m)
      BY <1>10, <2>1 DEF SeenInv
    <3>2. Doomed(Alg(m)) => (Doomed(Alg(m)))'
      BY <1>1, <1>5, <3>1 DEF Doomed, Settled
    <3>3. QED  BY <1>1, <1>2, <1>3, <3>1, <3>2 DEF SeenLoad, Working
  <2>3. QED  BY <1>1, <2>1, <2>2 DEF SeenInv, OwnInCore
<1>15. QED  BY <1>7, <1>9, <1>11, <1>12, <1>13, <1>14 DEF IInv

-----------------------------------------------------------------------------
(* The invariant, and what follows from it.                                 *)

LEMMA InitHolds == Init => IInv
<1> SUFFICES ASSUME Init PROVE IInv
  OBVIOUS
<1>1. /\ host \in [pre : Preloaded, fns : BOOLEAN, is310 : BOOLEAN, ownCopy : BOOLEAN]
      /\ moved = FALSE /\ code = CodesAsBuilt /\ sigids = {}
      /\ nid = [a \in Algs |-> 0] /\ evpType = [a \in Algs |-> 0]
      /\ load = [l \in Loads |-> Idle] /\ objs = [lib \in Libs |-> host.pre]
  BY DEF Init, Libs
<1>2. host.pre \in Preloaded /\ \A lib \in Libs : objs[lib] = host.pre
  BY <1>1
<1>3. Table(host.pre) /\ Len(host.pre) \in Nat
  BY <1>2, InitAssumption DEF Table
<1>4. Idle \in LoadRecords
  BY AlgsKnown DEF Idle, LoadRecords, Pcs
<1>5. ~Begun /\ \A l \in Loads : load[l].pc = "new" /\ load[l].i = 1
  BY <1>1 DEF Begun, Idle
<1>6. TypeInv
  BY <1>1, <1>4 DEF TypeInv
<1>7. TablesInv
  <2>1. \A i \in 1 .. Len(host.pre) : ~(i > Len(host.pre))
    BY <1>3
  <2>2. QED  BY <1>2, <1>3, <1>5, <2>1 DEF TablesInv, ByTheList
<1>8. \A l \in Loads : Passed(l) = {}
  BY <1>5, AlgsKnown DEF Passed, Making
<1>9. NidInv
  BY <1>1, <1>5 DEF NidInv
<1>10. CodesInv
  BY <1>1, <1>5 DEF CodesInv
<1>11. \A l \in Loads : ResInv(load[l]) /\ SigidLoad(l)
  BY <1>1, <1>8 DEF ResInv, Resources, Idle, Working, SigidLoad
<1>12. SeenInv
  BY <1>1, <1>2, <1>5, <1>8 DEF SeenInv, SeenLoad, OwnInCore, Working, Libs
<1>13. QED  BY <1>6, <1>7, <1>9, <1>10, <1>11, <1>12 DEF IInv

LEMMA StutterKeeps == ASSUME IInv, UNCHANGED vars PROVE IInv'
<1>1. /\ objs' = objs /\ nid' = nid /\ sigids' = sigids /\ oid' = oid /\ code' = code
      /\ host' = host /\ moved' = moved /\ env' = env /\ load' = load /\ evpType' = evpType
  BY DEF vars, process, tables
<1>2. TypeInv'  BY <1>1 DEF IInv, TypeInv
<1>3. TablesInv'  BY <1>1 DEF IInv, TablesInv, ByTheList, Settled, Begun
<1>4. NidInv'  BY <1>1 DEF IInv, NidInv, Own, Alg
<1>5. CodesInv'  BY <1>1 DEF IInv, CodesInv, Begun
<1>6. \A l \in Loads : ResInv(load'[l]) /\ SigidLoad(l)'
  BY <1>1 DEF IInv, SigidLoad, Alg, Passed
<1>7. NothingUnseen' => SeenInv'
  <2>1. NothingUnseen' = NothingUnseen
    BY <1>1 DEF NothingUnseen
  <2>2. \A l \in Loads : SeenLoad(l)' = SeenLoad(l)
    BY <1>1 DEF SeenLoad, Alg, Passed, Doomed, Settled, Own
  <2>3. QED  BY <1>1, <2>1, <2>2 DEF IInv, SeenInv, OwnInCore
<1>8. QED  BY <1>2, <1>3, <1>4, <1>5, <1>6, <1>7 DEF IInv

LEMMA NextKeeps == IInv /\ [Next]_vars => IInv'
<1> SUFFICES ASSUME IInv, [Next]_vars PROVE IInv'
  OBVIOUS
<1>1. CASE UNCHANGED vars
  BY <1>1, StutterKeeps
<1>2. CASE SetEnv
  BY <1>2, SetEnvKeeps
<1>3. ASSUME NEW l \in Loads, Start(l), UNCHANGED process PROVE IInv'
  BY <1>3, StartKeeps
<1>4. ASSUME NEW l \in Loads, UNCHANGED process, NEW a \in Algs, NewDecoder(l, a) PROVE IInv'
  BY <1>4, NewDecoderKeeps
<1>5. ASSUME NEW l \in Loads, UNCHANGED process, UNCHANGED evpType,
             \/ Lookup(l) \/ Create(l) \/ CreateAgain(l) \/ ReadNid(l)
             \/ SetNid(l) \/ AddSigid(l) \/ CheckNid(l)
             \/ NewBioMeth(l) \/ NewLibctx(l) \/ NewProvctx(l)
             \/ EndInit(l) \/ Teardown(l)
      PROVE  IInv'
  <2>1. CASE Lookup(l)  BY <1>5, <2>1, LookupKeeps
  <2>2. CASE Create(l)  BY <1>5, <2>2, CreateKeeps
  <2>3. CASE CreateAgain(l)  BY <1>5, <2>3, CreateAgainKeeps
  <2>4. CASE ReadNid(l)  BY <1>5, <2>4, ReadNidKeeps
  <2>5. CASE SetNid(l)  BY <1>5, <2>5, SetNidKeeps
  <2>6. CASE AddSigid(l)  BY <1>5, <2>6, AddSigidKeeps
  <2>7. CASE CheckNid(l)  BY <1>5, <2>7, CheckNidKeeps
  <2>8. CASE NewBioMeth(l) \/ NewLibctx(l) \/ NewProvctx(l)  BY <1>5, <2>8, MakingKeeps
  <2>9. CASE EndInit(l) \/ Teardown(l)  BY <1>5, <2>9, EndKeeps
  <2>10. QED  BY <1>5, <2>1, <2>2, <2>3, <2>4, <2>5, <2>6, <2>7, <2>8, <2>9
<1>6. QED  BY <1>1, <1>2, <1>3, <1>4, <1>5 DEF Next

\* The object tables, the NIDs read from them, the decoders' types, the code
\* points and the resources of each load are as the invariant says, whatever
\* loads run, fail and unload beside each other.
THEOREM InitInvariant == Spec => []IInv
<1>1. Init => IInv  BY InitHolds
<1>2. IInv /\ [Next]_vars => IInv'  BY NextKeeps
<1>3. QED  BY <1>1, <1>2, PTL DEF Spec

\* A loaded provider holds its three resources, one that is unloaded none, and
\* nothing is freed twice.
THEOREM ResourcesFollowTheLoadHolds == Spec => []ResourcesFollowTheLoad
<1>1. IInv => ResourcesFollowTheLoad
  <2> SUFFICES ASSUME IInv, NEW l \in Loads
               PROVE  /\ load[l].pc = "loaded" =>
                           \A h \in {load[l].biometh, load[l].libctx, load[l].provctx} : h = "live"
                      /\ load[l].pc \in {"failed", "unloaded"} =>
                           /\ load[l].libctx # "live"
                           /\ load[l].provctx # "live"
                           /\ load[l].biometh = "live" => load[l].pc = "failed" /\ load[l].oom
                      /\ "twice" \notin {load[l].biometh, load[l].libctx, load[l].provctx}
    BY DEF ResourcesFollowTheLoad
  <2>1. load[l] \in LoadRecords /\ ResInv(load[l])
    BY DEF IInv, TypeInv
  <2>2. load[l].pc = "loaded" =>
          load[l].biometh = "live" /\ load[l].libctx = "live" /\ load[l].provctx = "live"
    BY <2>1 DEF ResInv, Resources
  <2>3. "twice" \notin {load[l].biometh, load[l].libctx, load[l].provctx}
    BY <2>1 DEF LoadRecords
  <2>4. QED  BY <2>1, <2>2, <2>3 DEF ResInv
<1>2. QED  BY <1>1, InitInvariant, PTL

\* TLS is told the build's algorithms, each with the code point of its own
\* variable or row.
THEOREM OwnCodePointsHolds == Spec => []OwnCodePoints
<1>1. IInv => OwnCodePoints
  <2> SUFFICES ASSUME IInv, ~moved, NEW l \in Loads, load[l].pc = "loaded", NEW c \in Capabilities
               PROVE  Announced(c) =
                        {[name |-> a, code |-> IF a \in DOMAIN env.code THEN env.code[a]
                                               ELSE DefaultCode[a]] :
                           a \in Range(TlsNames[c]) \cap Enabled}
    BY DEF OwnCodePoints
  <2> DEFINE Point(a) == IF a \in DOMAIN env.code THEN env.code[a] ELSE DefaultCode[a]
  <2>1. code = PatchCodes(env.code, CodesAsBuilt)
    BY DEF IInv, CodesInv, Begun
  <2>2. \A i \in DOMAIN TlsNames[c] : code[c][i] = Point(TlsNames[c][i])
    BY <2>1 DEF PatchCodes, CodesAsBuilt
  <2> HIDE DEF Point
  <2>3. Announced(c) = {[name |-> TlsNames[c][i], code |-> Point(TlsNames[c][i])] : i \in Entries(c)}
    BY <2>2 DEF Announced, Entries
  <2>4. Range(TlsNames[c]) \cap Enabled = {TlsNames[c][i] : i \in Entries(c)}
    BY DEF Range, Entries
  <2>5. Announced(c) = {[name |-> a, code |-> Point(a)] : a \in Range(TlsNames[c]) \cap Enabled}
    BY <2>3, <2>4
  <2>6. QED  BY <2>5 DEF Point
<1>2. QED  BY <1>1, InitInvariant, PTL

\* A NID that is not 0 is one algorithm's.
LEMMA NidNamesOne ==
  ASSUME IInv, NEW a \in Algs, nid[a] # 0
  PROVE  FirstWith(nid[a]) = a /\ objs[Own][nid[a]].sn = a /\ nid[a] \in 1 .. Len(objs[Own])
         /\ Table(objs[Own])
<1> DEFINE n == nid[a]
           t == objs[Own]
           I == {i \in 1 .. Len(NidNames) : nid[NidNames[i]] = n}
<1>1. Table(t) /\ nid[a] = Sn2nid(t, a) /\ nid[a] \in Nat
  BY DEF IInv, TypeInv, NidInv, TablesInv, Own, Libs
<1>2. t[n].sn = a /\ n \in 1 .. Len(t)
  <2>1. n \in 0 .. Len(t) /\ t[n].sn = a /\ Len(t) \in Nat
    BY <1>1, TheOneSelected DEF Table
  <2>2. QED  BY <2>1
<1>3. ASSUME NEW b \in Algs, nid[b] = n PROVE b = a
  BY <1>1, <1>2, <1>3, TheOneSelected DEF IInv, NidInv
<1>4. /\ NidNames \in Seq(Algs) /\ Len(NidNames) \in Nat /\ DOMAIN NidNames = 1 .. Len(NidNames)
      /\ \A i \in 1 .. Len(NidNames) : NidNames[i] \in Algs
      /\ \A i, j \in 1 .. Len(NidNames) : NidNames[i] = NidNames[j] => i = j
  BY InitAssumption DEF IsInjective
<1>5. PICK k \in 1 .. Len(NidNames) : NidNames[k] = a
  BY <1>4, InitAssumption DEF Range
<1>6. I = {k}
  BY <1>3, <1>4, <1>5
<1>7. Min(I) = k
  BY <1>6 DEF Min
<1>8. SelectInSeq(NidNames, LAMBDA b : nid[b] = n) = k
  BY <1>6, <1>7 DEF SelectInSeq
<1>9. FirstWith(n) = a
  BY <1>5, <1>8 DEF FirstWith
<1>10. QED  BY <1>1, <1>2, <1>9

\* Where the provider is loaded, the core and the provider know each algorithm
\* of the build, and by a NID of its own.
THEOREM LoadedKnowsAlgorithmsHolds == Spec => []LoadedKnowsAlgorithms
<1>1. IInv => LoadedKnowsAlgorithms
  <2> SUFFICES ASSUME IInv, NEW l \in Loads, load[l].pc = "loaded", NothingUnseen,
                      NEW a \in Offers("KEYMGMT") \cup Offers("DECODER")
               PROVE  nid[a] # 0 /\ nid[a] = Sn2nid(objs[Own], a) /\ FirstWith(nid[a]) = a /\ a \in sigids
    BY DEF LoadedKnowsAlgorithms
  <2>1. a \in Algs
    BY InitAssumption DEF Offers
  <2>2. a \in Passed(l)
    BY <2>1, AlgsKnown DEF Passed
  <2>3. nid[a] # 0 /\ a \in sigids
    BY <2>2 DEF IInv, SeenInv, SeenLoad, SigidLoad
  <2>4. QED  BY <2>1, <2>3, NidNamesOne DEF IInv, NidInv
<1>2. QED  BY <1>1, InitInvariant, PTL

\* The type a decoder's descriptor keeps is its algorithm's as long as the
\* process lives.
THEOREM DecodersKnowTheirTypeHolds == Spec => []DecodersKnowTheirType
<1>1. IInv => DecodersKnowTheirType
  <2> SUFFICES ASSUME IInv, NothingUnseen, NEW a \in Algs, evpType[a] # 0
               PROVE  evpType[a] = nid[a] /\ FirstWith(evpType[a]) = a
    BY DEF DecodersKnowTheirType
  <2>1. nid[a] # 0
    BY DEF IInv, SeenInv
  <2>2. evpType[a] = nid[a]
    BY <2>1 DEF IInv, NidInv
  <2>3. QED  BY <2>1, <2>2, NidNamesOne
<1>2. QED  BY <1>1, InitInvariant, PTL

\* The OID in a key file leads back to the algorithm, and the one of the list
\* does where names and OIDs can be registered and never changed.
THEOREM OidsLeadToAlgorithmsHolds == Spec => []OidsLeadToAlgorithms
<1>1. IInv => OidsLeadToAlgorithms
  <2> SUFFICES ASSUME IInv, NEW l \in Loads, load[l].pc = "loaded", NothingUnseen, NEW a \in Enabled
               PROVE  /\ OfOid(objs[Own][nid[a]].oid) = a
                      /\ ~moved /\ Registrable(Range(host.pre)) => OfOid(oid[a]) = a
    BY DEF OidsLeadToAlgorithms
  <2> DEFINE t == objs[Own]
             n == nid[a]
  <2>1. a \in Algs
    BY InitAssumption
  <2>2. a \in Passed(l)
    BY <2>1, AlgsKnown DEF Passed
  <2>3. n # 0
    BY <2>2 DEF IInv, SeenInv, SeenLoad
  <2>4. FirstWith(n) = a /\ t[n].sn = a /\ n \in 1 .. Len(t) /\ Table(t)
    BY <2>1, <2>3, NidNamesOne
  <2> HIDE DEF t, n
  <2>5. Txt2nid(t, t[n].oid) = n
    BY <2>4, TheOneSelected
  <2>6. ASSUME ~moved, Registrable(Range(host.pre)) PROVE t[n].oid = oid[a]
    <3>1. /\ ByTheList /\ Own \in Libs /\ Len(host.pre) \in Nat
          /\ \A i \in 1 .. Len(host.pre) : t[i] = host.pre[i]
          /\ DOMAIN host.pre = 1 .. Len(host.pre)
      BY <2>6, InitAssumption DEF IInv, TypeInv, TablesInv, Settled, Own, Libs, t
    <3>2. CASE n > Len(host.pre)
      BY <2>4, <3>1, <3>2 DEF ByTheList, t
    <3>3. CASE n \in 1 .. Len(host.pre)
      <4>1. t[n] \in Range(host.pre)
        BY <3>1, <3>3 DEF Range
      <4>2. QED  BY <2>1, <2>4, <2>6, <4>1 DEF Registrable
    <3>4. QED  BY <2>4, <3>1, <3>2, <3>3
  <2>7. QED  BY <2>4, <2>5, <2>6 DEF OfOid, t, n
<1>2. QED  BY <1>1, InitInvariant, PTL

\* No load changes a NID that is set, whatever it finds.
THEOREM NidsStickHolds == Spec => NidsStick
<1>1. IInv /\ [Next]_vars =>
        [NothingUnseen => \A a \in Algs : nid[a] # 0 => nid'[a] = nid[a]]_vars
  <2> SUFFICES ASSUME IInv, Next, NothingUnseen, NEW a \in Algs, nid[a] # 0
               PROVE  nid'[a] = nid[a]
    OBVIOUS
  <2>1. (\E l \in Loads : SetNid(l)) \/ nid' = nid
    BY DEF Next, SetEnv, Start, Lookup, Create, CreateAgain, ReadNid, AddSigid, CheckNid,
           NewBioMeth, NewLibctx, NewProvctx, EndInit, Teardown, NewDecoder, OutOfMemory, tables
  <2>2. QED  BY <2>1, SetNidSticks
<1>2. QED  BY <1>1, InitInvariant, PTL DEF Spec, NidsStick

-----------------------------------------------------------------------------
(* A load that is alone: what is in its way was there before it.            *)

KnownInBoth(a) == Sn2nid(objs["core"], a) # 0 /\ Sn2nid(objs[Own], a) # 0

\* A row of the copy that is not by the list is a row of the core's table; and
\* what a load registered is registered with all that the list has before it.
RowsInv ==
  /\ DOMAIN oid = Algs
  /\ \A i \in 1 .. Len(objs["own"]) : i > Len(host.pre) =>
       \/ objs["own"][i].oid = oid[objs["own"][i].sn]
       \/ \E j \in 1 .. Len(objs["core"]) :
            objs["core"][j].oid = objs["own"][i].oid /\ objs["core"][j].sn = objs["own"][i].sn
  /\ Settled \/ OwnInCore
  /\ \A k \in 1 .. Len(OidList) : \A i \in 1 .. Len(objs["core"]) :
       i > Len(host.pre) /\ objs["core"][i].sn = OidList[k] =>
         \A j \in 1 .. Len(OidList) : j < k => KnownInBoth(OidList[j])

\* What a load that is alone may fail for.
Blamed ==
  \/ ~host.fns
  \/ host.is310 /\ host.ownCopy
  \/ ~Registrable(Range(IF moved THEN objs["core"] ELSE host.pre))

\* How far a load is with its algorithm; the last part if no other overlapped
\* it and no allocation failed.
SomeLoad(l) ==
  /\ \A a \in Passed(l) : KnownInBoth(a)
  /\ load[l].pc = "check" => Sn2nid(objs["core"], Alg(l)) # 0
  /\ load[l].pc = "again" => Settled \/ Txt2nid(objs["core"], oid[Alg(l)]) # 0
AloneRuns(l) == load[l].alone /\ Running(l) => \A m \in Loads \ {l} : ~Running(m)
LoneLoad(l) ==
  load[l].alone /\ ~load[l].oom =>
    /\ load[l].pc = "create" => Txt2nid(objs["core"], oid[Alg(l)]) = 0
    /\ load[l].pc \in {"again", "read", "set", "sigid"} => Txt2nid(objs["core"], oid[Alg(l)]) # 0
    /\ load[l].pc \in {"read", "set", "sigid", "check"} /\ host.ownCopy /\ ~host.is310 =>
         Sn2nid(objs["own"], Alg(l)) # 0 \/ Txt2nid(objs["own"], oid[Alg(l)]) # 0
    /\ load[l].pc = "end" => Blamed

LInv == RowsInv /\ \A l \in Loads : SomeLoad(l) /\ AloneRuns(l) /\ LoneLoad(l)

LEMMA IsRunning == ASSUME NEW l, load[l].pc \in Pcs
  PROVE Running(l) <=> load[l].pc \in Working \cup Making \cup {"end"}
BY DEF Running, Pcs, Working, Making

\* The rows behind a name and an OID.
LEMMA RowsOf ==
  ASSUME IInv, NEW lib \in Libs, NEW a
  PROVE  /\ Table(objs[lib]) /\ Len(host.pre) \in Nat /\ Len(objs[lib]) \in Nat
         /\ Len(host.pre) \leq Len(objs[lib])
         /\ DOMAIN host.pre = 1 .. Len(host.pre) /\ DOMAIN objs[lib] = 1 .. Len(objs[lib])
         /\ \A i \in 1 .. Len(host.pre) : objs[lib][i] = host.pre[i]
         /\ \A i \in 1 .. Len(objs[lib]) : i > Len(host.pre) => objs[lib][i].sn \in Algs
         /\ ~moved => \A i \in 1 .. Len(objs[lib]) :
              i > Len(host.pre) => objs[lib][i].oid = oid[objs[lib][i].sn]
         /\ Sn2nid(objs[lib], a) # 0 => \E i \in 1 .. Len(objs[lib]) : objs[lib][i].sn = a
         /\ Txt2nid(objs[lib], a) # 0 => \E i \in 1 .. Len(objs[lib]) : objs[lib][i].oid = a
         /\ \A i \in 1 .. Len(objs[lib]) : objs[lib][i].sn = a => Sn2nid(objs[lib], a) = i
         /\ \A i \in 1 .. Len(objs[lib]) : objs[lib][i].oid = a => Txt2nid(objs[lib], a) = i
<1>1. /\ Table(objs[lib]) /\ Len(host.pre) \leq Len(objs[lib])
      /\ \A i \in 1 .. Len(host.pre) : objs[lib][i] = host.pre[i]
      /\ \A i \in 1 .. Len(objs[lib]) : i > Len(host.pre) => objs[lib][i].sn \in Algs
  BY DEF IInv, TablesInv
<1>2. Len(host.pre) \in Nat /\ Len(objs[lib]) \in Nat
      /\ DOMAIN host.pre = 1 .. Len(host.pre) /\ DOMAIN objs[lib] = 1 .. Len(objs[lib])
  BY <1>1, InitAssumption DEF IInv, TypeInv, Table
<1>3. ~moved => \A i \in 1 .. Len(objs[lib]) :
        i > Len(host.pre) => objs[lib][i].oid = oid[objs[lib][i].sn]
  BY DEF IInv, TablesInv, Settled, ByTheList
<1>4. Sn2nid(objs[lib], a) # 0 => \E i \in 1 .. Len(objs[lib]) : objs[lib][i].sn = a
  <2>1. /\ Sn2nid(objs[lib], a) \in 0 .. Len(objs[lib])
        /\ Sn2nid(objs[lib], a) # 0 => objs[lib][Sn2nid(objs[lib], a)].sn = a
    BY <1>1, TheOneSelected
  <2>2. QED  BY <1>2, <2>1
<1>5. Txt2nid(objs[lib], a) # 0 => \E i \in 1 .. Len(objs[lib]) : objs[lib][i].oid = a
  <2>1. /\ Txt2nid(objs[lib], a) \in 0 .. Len(objs[lib])
        /\ Txt2nid(objs[lib], a) # 0 => objs[lib][Txt2nid(objs[lib], a)].oid = a
    BY <1>1, TheOneSelected
  <2>2. QED  BY <1>2, <2>1
<1>6. /\ \A i \in 1 .. Len(objs[lib]) : objs[lib][i].sn = a => Sn2nid(objs[lib], a) = i
      /\ \A i \in 1 .. Len(objs[lib]) : objs[lib][i].oid = a => Txt2nid(objs[lib], a) = i
  BY <1>1, TheOneSelected
<1>7. QED  BY <1>1, <1>2, <1>3, <1>4, <1>5, <1>6

\* A row of a table, not by the list, is in the way where it was before the
\* process began, or where the environment has changed.
LEMMA InTheWay ==
  ASSUME IInv, RowsInv, NEW k \in 1 .. Len(objs["core"]), NEW a \in Algs,
         \/ objs["core"][k].sn = a /\ objs["core"][k].oid # oid[a]
         \/ objs["core"][k].sn # a /\ objs["core"][k].oid = oid[a]
  PROVE  Blamed
<1> DEFINE t == objs["core"]
           n == Len(host.pre)
<1>1. /\ n \in Nat /\ n \leq Len(t) /\ Len(t) \in Nat
      /\ DOMAIN host.pre = 1 .. n /\ DOMAIN t = 1 .. Len(t)
      /\ \A i \in 1 .. n : t[i] = host.pre[i]
      /\ \A i \in 1 .. Len(t) : i > n => t[i].sn \in Algs
      /\ ~moved => \A i \in 1 .. Len(t) : i > n => t[i].oid = oid[t[i].sn]
  BY RowsOf DEF Libs
<1> HIDE DEF t, n
<1>2. t[k] \in Range(t) /\ (k \in 1 .. n => t[k] \in Range(host.pre))
  BY <1>1 DEF Range, t
<1>3. \A rows : t[k] \in rows => ~Registrable(rows)
  BY DEF Registrable, t
<1>4. CASE moved
  BY <1>2, <1>3, <1>4 DEF Blamed, t
<1>5. CASE ~moved /\ k \in 1 .. n
  BY <1>2, <1>3, <1>5 DEF Blamed, t
<1>6. CASE ~moved /\ k > n
  <2>1. t[k].oid = oid[t[k].sn] /\ t[k].sn \in Algs
    BY <1>1, <1>6 DEF t
  <2>2. t[k].sn # a /\ oid[t[k].sn] = oid[a]
    BY <2>1 DEF t
  <2>3. ~IsInjective(oid)
    BY <2>1, <2>2 DEF IsInjective, RowsInv
  <2>4. QED  BY <2>3 DEF Registrable, Blamed
<1>7. QED  BY <1>1, <1>4, <1>5, <1>6 DEF t

LEMMA CreateBlamed ==
  ASSUME IInv, RowsInv, NEW a \in Algs, Txt2nid(objs["core"], oid[a]) = 0, Sn2nid(objs["core"], a) # 0
  PROVE  Blamed
<1>1. PICK k \in 1 .. Len(objs["core"]) : objs["core"][k].sn = a
  BY RowsOf DEF Libs
<1>2. objs["core"][k].oid # oid[a]
  <2>1. objs["core"][k].oid = oid[a] => Txt2nid(objs["core"], oid[a]) = k
    BY RowsOf DEF Libs
  <2>2. QED  BY <2>1
<1>3. QED  BY <1>1, <1>2, InTheWay

LEMMA SigidBlamed ==
  ASSUME IInv, RowsInv, NEW a \in Algs, Txt2nid(objs["core"], oid[a]) # 0, Sn2nid(objs["core"], a) = 0
  PROVE  Blamed
<1>1. PICK k \in 1 .. Len(objs["core"]) : objs["core"][k].oid = oid[a]
  BY RowsOf DEF Libs
<1>2. objs["core"][k].sn # a
  <2>1. objs["core"][k].sn = a => Sn2nid(objs["core"], a) = k
    BY RowsOf DEF Libs
  <2>2. QED  BY <2>1
<1>3. QED  BY <1>1, <1>2, InTheWay

LEMMA CheckBlamed ==
  ASSUME IInv, RowsInv, NEW a \in Algs, Txt2nid(objs["own"], oid[a]) # 0, Sn2nid(objs["own"], a) = 0
  PROVE  Blamed
<1> DEFINE u == objs["own"]
           t == objs["core"]
           n == Len(host.pre)
<1>1. PICK k \in 1 .. Len(u) : u[k].oid = oid[a]
  BY RowsOf DEF Libs
<1>2. u[k].sn # a
  <2>1. u[k].sn = a => Sn2nid(u, a) = k
    BY RowsOf DEF Libs
  <2>2. QED  BY <2>1
<1>3. /\ n \in Nat /\ n \leq Len(u) /\ Len(u) \in Nat
      /\ \A i \in 1 .. n : u[i] = host.pre[i]
      /\ \A i \in 1 .. Len(u) : i > n => u[i].sn \in Algs
  BY RowsOf DEF Libs
<1>4. /\ n \leq Len(t) /\ Len(t) \in Nat /\ \A i \in 1 .. n : t[i] = host.pre[i]
  BY RowsOf DEF Libs
<1>5. CASE k \in 1 .. n
  <2>1. k \in 1 .. Len(t) /\ t[k] = u[k]
    BY <1>3, <1>4, <1>5
  <2>2. QED  BY <1>1, <1>2, <2>1, InTheWay
<1>6. CASE k > n
  <2>1. CASE u[k].oid = oid[u[k].sn]
    <3>1. ~IsInjective(oid)
      BY <1>1, <1>2, <1>3, <1>6, <2>1 DEF IsInjective, RowsInv
    <3>2. QED  BY <3>1 DEF Registrable, Blamed
  <2>2. CASE \E j \in 1 .. Len(t) : t[j].oid = u[k].oid /\ t[j].sn = u[k].sn
    BY <1>1, <1>2, <2>2, InTheWay
  <2>3. QED  BY <1>6, <2>1, <2>2 DEF RowsInv
<1>7. QED  BY <1>3, <1>5, <1>6

\* The others do not notice a step of one load but for tables that grow.
LEMMA OthersKeep ==
  ASSUME IInv, LInv, NEW l \in Loads, Running(l), TablesGrow,
         \A m \in Loads \ {l} : load'[m] = load[m], UNCHANGED <<oid, host, env, moved>>,
         load'[l].alone = load[l].alone
  PROVE  /\ \A m \in Loads \ {l} : SomeLoad(m)' /\ AloneRuns(m)' /\ LoneLoad(m)'
         /\ AloneRuns(l)'
         /\ \A a : KnownInBoth(a) => KnownInBoth(a)'
<1>1. Own' = Own /\ Own \in Libs /\ "core" \in Libs /\ (Settled => Settled')
  BY DEF Own, Libs, Settled
<1>2. \A a : KnownInBoth(a) => KnownInBoth(a)'
  BY <1>1 DEF KnownInBoth, TablesGrow
<1>3. ASSUME NEW m \in Loads \ {l} PROVE SomeLoad(m)' /\ AloneRuns(m)' /\ LoneLoad(m)'
  <2>1. load'[m] = load[m] /\ Passed(m)' = Passed(m) /\ (Alg(m))' = Alg(m) /\ Running(m)' = Running(m)
    BY <1>3 DEF Passed, Alg, Running
  <2>2. SomeLoad(m)'
    BY <1>1, <1>2, <1>3, <2>1 DEF LInv, SomeLoad, TablesGrow
  <2>3. ~(load[m].alone /\ Running(m))
    BY <1>3 DEF LInv, AloneRuns
  <2>4. LoneLoad(m)'
    BY <2>1, <2>3 DEF LoneLoad, Running
  <2>5. QED  BY <2>1, <2>2, <2>3, <2>4 DEF AloneRuns
<1>4. AloneRuns(l)'
  <2>1. \A m \in Loads \ {l} : Running(m)' = Running(m)
    BY DEF Running
  <2>2. QED  BY <2>1 DEF LInv, AloneRuns
<1>5. QED  BY <1>2, <1>3, <1>4

\* A step of one load that leaves the objects alone.
LEMMA LoneQuiet ==
  ASSUME IInv, LInv, NEW l \in Loads, Running(l), objs' = objs,
         \A m \in Loads \ {l} : load'[m] = load[m], UNCHANGED <<oid, host, env, moved>>,
         load'[l].alone = load[l].alone,
         \A a \in Passed(l)' : KnownInBoth(a),
         load'[l].pc = "check" => Sn2nid(objs["core"], (Alg(l))') # 0,
         load'[l].pc = "again" => Settled \/ Txt2nid(objs["core"], oid[(Alg(l))']) # 0,
         load'[l].alone /\ ~load'[l].oom =>
           /\ load'[l].pc = "create" => Txt2nid(objs["core"], oid[(Alg(l))']) = 0
           /\ load'[l].pc \in {"again", "read", "set", "sigid"} =>
                Txt2nid(objs["core"], oid[(Alg(l))']) # 0
           /\ load'[l].pc \in {"read", "set", "sigid", "check"} /\ host.ownCopy /\ ~host.is310 =>
                Sn2nid(objs["own"], (Alg(l))') # 0 \/ Txt2nid(objs["own"], oid[(Alg(l))']) # 0
           /\ load'[l].pc = "end" => Blamed
  PROVE  LInv'
<1>1. TablesGrow  BY DEF TablesGrow
<1>2. /\ \A m \in Loads \ {l} : SomeLoad(m)' /\ AloneRuns(m)' /\ LoneLoad(m)'
      /\ AloneRuns(l)'
      /\ \A a : KnownInBoth(a) => KnownInBoth(a)'
  BY <1>1, OthersKeep
<1>3. RowsInv'
  BY DEF LInv, RowsInv, Settled, OwnInCore, KnownInBoth, Own
<1>4. SomeLoad(l)'
  BY <1>2 DEF SomeLoad, Settled
<1>5. Blamed => Blamed'
  BY DEF Blamed, Registrable
<1>6. LoneLoad(l)'
  BY <1>5 DEF LoneLoad
<1>7. QED  BY <1>2, <1>3, <1>4, <1>6 DEF LInv

\* What l's own record says after a step that sets its pc and some notes.
LEMMA LoneLookup ==
  ASSUME IInv, LInv, NEW l \in Loads, Lookup(l), process' = process
  PROVE  LInv'
<1> DEFINE n == Txt2nid(objs["core"], oid[Alg(l)])
           p == IF n # 0 THEN "again" ELSE "create"
<1>1. load[l] \in LoadRecords /\ load \in [Loads -> LoadRecords]  BY DEF IInv, TypeInv
<1>2. /\ load[l].pc = "lookup" /\ objs' = objs /\ UNCHANGED <<oid, host, env, moved>>
      /\ \A m \in Loads \ {l} : load'[m] = load[m]
      /\ load'[l].alone = load[l].alone /\ load'[l].pc = p /\ load'[l].i = load[l].i
      /\ load'[l].oom = load[l].oom
  BY <1>1 DEF Lookup, tables, process, LoadRecords
<1>3. Running(l) /\ p \in {"again", "create"} /\ (p = "again" <=> n # 0)
  BY <1>2 DEF Running
<1> HIDE DEF p
<1>4. Passed(l)' = Passed(l) /\ (Alg(l))' = Alg(l)
  BY <1>2, <1>3, SamePassed DEF Making
<1>5. \A a \in Passed(l) : KnownInBoth(a)
  BY DEF LInv, SomeLoad
<1>6. QED  BY <1>2, <1>3, <1>4, <1>5, LoneQuiet

LEMMA LoneOutOfMemory ==
  ASSUME IInv, LInv, NEW l \in Loads, load[l].pc \in Working \cup Making, OutOfMemory(l),
         process' = process
  PROVE  LInv'
<1>1. load[l] \in LoadRecords /\ load \in [Loads -> LoadRecords]  BY DEF IInv, TypeInv
<1>2. /\ objs' = objs /\ UNCHANGED <<oid, host, env, moved>>
      /\ \A m \in Loads \ {l} : load'[m] = load[m]
      /\ load'[l].alone = load[l].alone /\ load'[l].pc = "end" /\ load'[l].i = load[l].i
      /\ load'[l].oom = TRUE
  BY <1>1 DEF OutOfMemory, tables, process, LoadRecords
<1>3. Running(l)
  BY DEF Running, Working, Making
<1>4. Passed(l)' \subseteq Passed(l)
  BY <1>2 DEF Passed, Making
<1>5. \A a \in Passed(l)' : KnownInBoth(a)
  BY <1>4 DEF LInv, SomeLoad
<1>6. QED  BY <1>2, <1>3, <1>5, LoneQuiet

LEMMA LoneReadSet ==
  ASSUME IInv, LInv, NEW l \in Loads, ReadNid(l) \/ SetNid(l), process' = process
  PROVE  LInv'
<1>1. load[l] \in LoadRecords /\ load \in [Loads -> LoadRecords]  BY DEF IInv, TypeInv
<1>2. Alg(l) \in Range(NidNames)
  BY <1>1, AlgsKnown, InitAssumption DEF Alg, LoadRecords
<1>3. /\ load[l].pc \in {"read", "set"} /\ objs' = objs /\ UNCHANGED <<oid, host, env, moved>>
      /\ \A m \in Loads \ {l} : load'[m] = load[m]
      /\ load'[l].alone = load[l].alone /\ load'[l].pc \in {"set", "sigid"} /\ load'[l].i = load[l].i
      /\ load'[l].oom = load[l].oom
  <2>1. CASE ReadNid(l)
    BY <1>1, <2>1 DEF ReadNid, tables, process, LoadRecords
  <2>2. CASE SetNid(l)
    BY <1>1, <1>2, <2>2 DEF SetNid, Goto, process, LoadRecords
  <2>3. QED  BY <2>1, <2>2
<1>4. Running(l)
  BY <1>3 DEF Running
<1>5. Passed(l)' = Passed(l) /\ (Alg(l))' = Alg(l)
  BY <1>3, SamePassed DEF Making
<1>6. \A a \in Passed(l) : KnownInBoth(a)
  BY DEF LInv, SomeLoad
<1>7. LoneLoad(l)
  BY DEF LInv
<1>8. load'[l].alone /\ ~load'[l].oom =>
        /\ load'[l].pc \in {"again", "read", "set", "sigid"} => Txt2nid(objs["core"], oid[Alg(l)]) # 0
        /\ host.ownCopy /\ ~host.is310 =>
             Sn2nid(objs["own"], Alg(l)) # 0 \/ Txt2nid(objs["own"], oid[Alg(l)]) # 0
  BY <1>3, <1>7 DEF LoneLoad
<1>9. QED  BY <1>3, <1>4, <1>5, <1>6, <1>8, LoneQuiet

LEMMA LoneAddSigid ==
  ASSUME IInv, LInv, NEW l \in Loads, AddSigid(l), process' = process
  PROVE  LInv'
<1> DEFINE known == Sn2nid(objs["core"], Alg(l)) # 0
           p == IF known THEN "check" ELSE "end"
<1>1. load[l] \in LoadRecords /\ load \in [Loads -> LoadRecords] /\ load[l].pc = "sigid"
  BY DEF IInv, TypeInv, AddSigid
<1>2. CASE OutOfMemory(l)
  BY <1>1, <1>2, LoneOutOfMemory DEF Working
<1>3. CASE Goto(l, p) /\ UNCHANGED <<objs, oid, code, nid>>
  <2>1. /\ objs' = objs /\ UNCHANGED <<oid, host, env, moved>>
        /\ \A m \in Loads \ {l} : load'[m] = load[m]
        /\ load'[l].alone = load[l].alone /\ load'[l].pc = p /\ load'[l].i = load[l].i
        /\ load'[l].oom = load[l].oom
    BY <1>1, <1>3 DEF Goto, process, LoadRecords
  <2>2. Running(l) /\ p \in {"check", "end"} /\ (p = "check" <=> known)
    BY <1>1 DEF Running
  <2> HIDE DEF p
  <2>3. Passed(l)' = Passed(l) /\ (Alg(l))' = Alg(l)
    BY <1>1, <2>1, <2>2, SamePassed DEF Making
  <2>4. \A a \in Passed(l) : KnownInBoth(a)
    BY DEF LInv, SomeLoad
  <2>5. LoneLoad(l) /\ RowsInv /\ Alg(l) \in Algs
    BY <1>1, AlgsKnown DEF LInv, Alg, LoadRecords
  <2>6. load'[l].alone /\ ~load'[l].oom =>
          /\ Txt2nid(objs["core"], oid[Alg(l)]) # 0
          /\ host.ownCopy /\ ~host.is310 =>
               Sn2nid(objs["own"], Alg(l)) # 0 \/ Txt2nid(objs["own"], oid[Alg(l)]) # 0
    BY <1>1, <2>1, <2>5 DEF LoneLoad
  <2>7. load'[l].alone /\ ~load'[l].oom /\ ~known => Blamed
    BY <2>5, <2>6, SigidBlamed
  <2>8. QED  BY <2>1, <2>2, <2>3, <2>4, <2>6, <2>7, LoneQuiet
<1>4. QED  BY <1>2, <1>3 DEF AddSigid

LEMMA LoneCheckNid ==
  ASSUME IInv, LInv, NEW l \in Loads, CheckNid(l), process' = process
  PROVE  LInv'
<1> DEFINE a == Alg(l)
           found == Sn2nid(objs[Own], a) # 0
           last == load[l].i = Len(OidList)
           p == IF ~found THEN "end" ELSE IF last THEN "biometh" ELSE "lookup"
           q == IF found /\ ~last THEN load[l].i + 1 ELSE load[l].i
<1>1. /\ load[l] \in LoadRecords /\ load \in [Loads -> LoadRecords] /\ load[l].pc = "check"
      /\ load[l].i \in 1 .. Len(OidList) /\ Len(OidList) \in Nat
  BY AlgsKnown DEF IInv, TypeInv, CheckNid, LoadRecords
<1>2. /\ objs' = objs /\ UNCHANGED <<oid, host, env, moved>>
      /\ \A m \in Loads \ {l} : load'[m] = load[m]
      /\ load'[l].alone = load[l].alone /\ load'[l].pc = p /\ load'[l].i = q
      /\ load'[l].oom = load[l].oom
  BY <1>1 DEF CheckNid, tables, process, LoadRecords
<1>3. /\ p \in {"end", "biometh", "lookup"}
      /\ p = "end" => q = load[l].i /\ ~found
      /\ p = "lookup" => found /\ q = load[l].i + 1
      /\ p = "biometh" => found /\ q = load[l].i /\ q = Len(OidList)
  BY <1>1
<1> HIDE DEF p, q
<1>4. Passed(l) = {OidList[j] : j \in {j \in 1 .. Len(OidList) : j < load[l].i}}
  BY <1>1 DEF Passed, Making
<1>5. Passed(l)' \subseteq Passed(l) \cup {OidList[load[l].i]}
  <2>1. \A j \in 1 .. Len(OidList) :
          j < q \/ p = "biometh" => j < load[l].i \/ (j = load[l].i /\ p # "end")
    BY <1>1, <1>3
  <2>2. Passed(l)' = {OidList[j] : j \in {j \in 1 .. Len(OidList) : j < q \/ p = "biometh"}}
    BY <1>2, <1>3 DEF Passed, Making
  <2>3. QED  BY <1>4, <2>1, <2>2
<1>6. p = "end" => Passed(l)' = Passed(l)
  BY <1>2, <1>3, <1>4 DEF Passed, Making
<1>7. Running(l) /\ SomeLoad(l) /\ LoneLoad(l) /\ RowsInv /\ a \in Algs
  BY <1>1, AlgsKnown DEF Running, LInv, LoadRecords, Alg
<1>8. Sn2nid(objs["core"], a) # 0
  BY <1>1, <1>7 DEF SomeLoad
<1>9. \A b \in Passed(l)' : KnownInBoth(b)
  <2>1. \A b \in Passed(l) : KnownInBoth(b)
    BY <1>7 DEF SomeLoad
  <2>2. p # "end" => KnownInBoth(a)
    BY <1>3, <1>8 DEF KnownInBoth
  <2>3. QED  BY <1>5, <1>6, <2>1, <2>2 DEF Alg
<1>10. load'[l].alone /\ ~load'[l].oom /\ p = "end" => Blamed
  <2> SUFFICES ASSUME load'[l].alone, ~load'[l].oom, ~found PROVE Blamed
    BY <1>3
  <2>1. Own = "own" /\ host.ownCopy
    BY <1>8 DEF Own
  <2>2. CASE host.is310
    BY <2>1, <2>2 DEF Blamed
  <2>3. CASE ~host.is310
    <3>1. Txt2nid(objs["own"], oid[a]) # 0
      BY <1>1, <1>2, <1>7, <2>1, <2>3 DEF LoneLoad
    <3>2. QED  BY <1>7, <2>1, <3>1, CheckBlamed
  <2>4. QED  BY <2>2, <2>3
<1>11. QED  BY <1>2, <1>3, <1>7, <1>9, <1>10, LoneQuiet

\* What a load creates in the core's table comes after all that the list has
\* before it.
LEMMA CoreRows ==
  ASSUME IInv, LInv, NEW l \in Loads, load[l].pc \in {"create", "again"}, Begun',
         objs' = [objs EXCEPT !["core"] = ObjCreate(@, oid[Alg(l)], Alg(l))],
         UNCHANGED <<oid, host, env, moved>>
  PROVE  /\ RowsInv' /\ TablesGrow /\ objs'["own"] = objs["own"]
         /\ objs'["core"] = ObjCreate(objs["core"], oid[Alg(l)], Alg(l))
<1>1. Alg(l) \in Algs /\ load[l] \in LoadRecords /\ Begun /\ TypeInv /\ TablesInv
      /\ "core" \in Libs /\ "own" \in Libs /\ Own \in Libs /\ Own' = Own
  BY AlgsKnown DEF IInv, TypeInv, Alg, LoadRecords, Begun, Libs, Own
<1>2. PICK a \in Algs : a = Alg(l)
  BY <1>1
<1> DEFINE t == objs["core"]
           u == objs'["core"]
<1>3. /\ TablesGrow /\ objs'["own"] = objs["own"] /\ u = ObjCreate(t, oid[a], a)
  <2>1. objs' = [objs EXCEPT !["core"] = ObjCreate(@, oid[a], a)]
    BY <1>2
  <2>2. QED  BY <1>1, <2>1, CreateStep DEF Libs
<1>4. /\ Table(t) /\ Len(t) \in Nat /\ Len(u) \in Nat /\ Len(t) \leq Len(u)
      /\ \A i \in 1 .. Len(t) : u[i] = t[i]
      /\ \A i \in 1 .. Len(u) : i > Len(t) => u[i].oid = oid[a] /\ u[i].sn = a
  <2>1. Table(t)  BY <1>1 DEF TablesInv
  <2> HIDE DEF t, u
  <2>2. QED  BY <1>3, <2>1, CreateGrows DEF Table
<1>5. \A b : KnownInBoth(b) => KnownInBoth(b)'
  BY <1>1, <1>3 DEF KnownInBoth, TablesGrow
<1>6. RowsInv /\ SomeLoad(l)
  BY DEF LInv
<1>7. \A i \in 1 .. Len(objs["own"]) : i > Len(host.pre) =>
        \/ objs["own"][i].oid = oid[objs["own"][i].sn]
        \/ \E j \in 1 .. Len(u) : u[j].oid = objs["own"][i].oid /\ u[j].sn = objs["own"][i].sn
  <2> SUFFICES ASSUME NEW i \in 1 .. Len(objs["own"]), i > Len(host.pre),
                      NEW j \in 1 .. Len(t), t[j].oid = objs["own"][i].oid, t[j].sn = objs["own"][i].sn
               PROVE  \E k \in 1 .. Len(u) : u[k].oid = objs["own"][i].oid /\ u[k].sn = objs["own"][i].sn
    BY <1>6 DEF RowsInv
  <2>1. j \in 1 .. Len(u) /\ u[j] = t[j]
    BY <1>4
  <2>2. QED  BY <2>1
<1>8. Settled' \/ OwnInCore'
  BY <1>1, <1>3, <1>6 DEF RowsInv, Settled, OwnInCore, TablesGrow
<1>9. ASSUME NEW k \in 1 .. Len(OidList), NEW i \in 1 .. Len(u), i > Len(host.pre),
             u[i].sn = OidList[k], NEW j \in 1 .. Len(OidList), j < k
      PROVE  KnownInBoth(OidList[j])'
  <2>1. CASE i \in 1 .. Len(t)
    <3>1. t[i].sn = OidList[k]
      BY <1>4, <1>9, <2>1
    <3>2. KnownInBoth(OidList[j])
      BY <1>6, <1>9, <2>1, <3>1 DEF RowsInv
    <3>3. QED  BY <1>5, <3>2
  <2>2. CASE i > Len(t)
    <3>1. OidList[k] = a
      BY <1>4, <1>9, <2>2
    <3>2. k = load[l].i
      <4>1. DOMAIN OidList = 1 .. Len(OidList)
        BY InitAssumption
      <4>2. \A x, y \in 1 .. Len(OidList) : OidList[x] = OidList[y] => x = y
        BY <4>1, InitAssumption DEF IsInjective
      <4>3. load[l].i \in 1 .. Len(OidList) /\ OidList[load[l].i] = a
        BY <1>1, <1>2 DEF Alg, LoadRecords
      <4>4. QED  BY <3>1, <4>2, <4>3
    <3>3. OidList[j] \in Passed(l)
      BY <1>9, <3>2 DEF Passed
    <3>4. KnownInBoth(OidList[j])
      BY <1>6, <3>3 DEF SomeLoad
    <3>5. QED  BY <1>5, <3>4
  <2>3. QED  BY <1>4, <1>9, <2>1, <2>2
<1>10. \A k \in 1 .. Len(OidList) : \A i \in 1 .. Len(u) :
         i > Len(host.pre) /\ u[i].sn = OidList[k] =>
           \A j \in 1 .. Len(OidList) : j < k => KnownInBoth(OidList[j])'
  BY <1>9
<1>11. RowsInv'
  BY <1>3, <1>6, <1>7, <1>8, <1>10 DEF RowsInv
<1>12. QED  BY <1>2, <1>3, <1>11

LEMMA LoneCreate ==
  ASSUME IInv, LInv, NEW l \in Loads, Create(l), process' = process
  PROVE  LInv'
<1> DEFINE t == objs["core"]
           p == IF Creates(t, oid[Alg(l)], Alg(l)) THEN "again" ELSE "end"
<1>1. load[l] \in LoadRecords /\ load \in [Loads -> LoadRecords] /\ load[l].pc = "create"
  BY DEF IInv, TypeInv, Create
<1>2. CASE OutOfMemory(l)
  BY <1>1, <1>2, LoneOutOfMemory DEF Working
<1>3. CASE /\ objs' = [objs EXCEPT !["core"] = ObjCreate(@, oid[Alg(l)], Alg(l))]
           /\ Goto(l, p) /\ UNCHANGED <<sigids, oid, code, nid>>
  <2>1. /\ UNCHANGED <<oid, host, env, moved>>
        /\ \A m \in Loads \ {l} : load'[m] = load[m]
        /\ load'[l].alone = load[l].alone /\ load'[l].pc = p /\ load'[l].i = load[l].i
        /\ load'[l].oom = load[l].oom
    BY <1>1, <1>3 DEF Goto, process, LoadRecords
  <2>2. Running(l) /\ p \in {"again", "end"} /\ (p = "again" <=> Creates(t, oid[Alg(l)], Alg(l)))
    BY <1>1 DEF Running
  <2> HIDE DEF p
  <2>3. Passed(l)' = Passed(l) /\ (Alg(l))' = Alg(l) /\ Alg(l) \in Algs
    BY <1>1, <2>1, <2>2, SamePassed, AlgsKnown DEF Making, Alg, LoadRecords
  <2>4. PICK a \in Algs : a = Alg(l)
    BY <2>3
  <2>5. /\ RowsInv' /\ TablesGrow /\ objs'["own"] = objs["own"]
        /\ objs'["core"] = ObjCreate(t, oid[a], a)
    <3>1. Begun'
      BY <2>1, <2>2 DEF Begun
    <3>2. QED  BY <1>1, <1>3, <2>1, <2>4, <3>1, CoreRows
  <2>6. /\ \A m \in Loads \ {l} : SomeLoad(m)' /\ AloneRuns(m)' /\ LoneLoad(m)'
        /\ AloneRuns(l)'
        /\ \A b : KnownInBoth(b) => KnownInBoth(b)'
    BY <2>1, <2>2, <2>5, OthersKeep
  <2>7. p = "again" => Txt2nid(objs'["core"], oid[a]) # 0
    <3> SUFFICES ASSUME Creates(t, oid[a], a) PROVE Txt2nid(objs'["core"], oid[a]) # 0
      BY <2>2, <2>4
    <3> DEFINE u == objs'["core"]
    <3>1. Table(t)
      BY DEF IInv, TablesInv, Libs
    <3>2. u = ObjCreate(t, oid[a], a)
      BY <2>5
    <3> HIDE DEF t, u
    <3>3. /\ Table(u) /\ Len(t) \in Nat /\ Len(u) \in Nat /\ Len(t) \leq Len(u)
          /\ \A i \in 1 .. Len(u) : i > Len(t) => u[i].oid = oid[a]
          /\ Sn2nid(u, a) = Len(t) + 1
      BY <3>1, <3>2, CreateGrows DEF Table
    <3>4. Sn2nid(u, a) \in 0 .. Len(u)
      BY <3>3, TheOneSelected
    <3>5. Len(t) + 1 \in 1 .. Len(u) /\ u[Len(t) + 1].oid = oid[a]
      BY <3>3, <3>4
    <3>6. Txt2nid(u, oid[a]) = Len(t) + 1
      BY <3>3, <3>5, TheOneSelected
    <3>7. QED  BY <3>3, <3>6 DEF u
  <2>8. SomeLoad(l)'
    <3>1. SomeLoad(l)
      BY DEF LInv
    <3>2. QED  BY <2>1, <2>2, <2>3, <2>4, <2>6, <2>7, <3>1 DEF SomeLoad
  <2>9. LoneLoad(l)'
    <3> SUFFICES ASSUME load[l].alone, ~load[l].oom, p = "end" PROVE Blamed'
      BY <2>1, <2>2, <2>3, <2>4, <2>7 DEF LoneLoad
    <3>1. Txt2nid(t, oid[a]) = 0
      BY <1>1, <2>4 DEF LInv, LoneLoad
    <3>2. Sn2nid(t, a) # 0
      BY <2>2, <2>4, <3>1 DEF Creates
    <3>3. Blamed
      BY <3>1, <3>2, CreateBlamed DEF LInv
    <3>4. objs'["core"] = t
      BY <2>2, <2>4, <2>5 DEF ObjCreate
    <3>5. QED  BY <2>1, <3>3, <3>4 DEF Blamed, Registrable
  <2>10. QED  BY <2>5, <2>6, <2>8, <2>9 DEF LInv
<1>4. QED  BY <1>2, <1>3 DEF Create

\* As long as the list has not changed, the copy gets no name the core lacks:
\* the row in the core with its OID would be of an algorithm before it, which
\* the copy then has under this OID, or of one after it, which comes later.
LEMMA KnownFirst ==
  ASSUME IInv, LInv, NEW l \in Loads, load[l].pc = "again", host.ownCopy, ~Settled,
         Creates(objs["own"], oid[Alg(l)], Alg(l))
  PROVE  Sn2nid(objs["core"], Alg(l)) # 0
<1> DEFINE a == Alg(l)
           t == objs["core"]
           u == objs["own"]
           n == Len(host.pre)
<1>1. /\ load[l] \in LoadRecords /\ a \in Algs /\ load[l].i \in 1 .. Len(OidList)
      /\ OidList[load[l].i] = a /\ Own = "own" /\ Len(OidList) \in Nat
  BY AlgsKnown DEF IInv, TypeInv, Alg, LoadRecords, Own
<1>2. SUFFICES ASSUME Sn2nid(t, a) = 0 PROVE FALSE
  OBVIOUS
<1>3. Txt2nid(t, oid[a]) # 0 /\ Txt2nid(u, oid[a]) = 0
  BY DEF LInv, SomeLoad, Creates
<1>4. PICK k \in 1 .. Len(t) : t[k].oid = oid[a]
  BY <1>3, RowsOf DEF Libs
<1>5. \A i \in 1 .. Len(u) : u[i].oid # oid[a]
  <2>1. \A i \in 1 .. Len(u) : u[i].oid = oid[a] => Txt2nid(u, oid[a]) = i
    BY RowsOf DEF Libs
  <2>2. Len(u) \in Nat  BY RowsOf DEF Libs
  <2>3. QED  BY <1>3, <2>1, <2>2
<1>6. \A i \in 1 .. Len(t) : t[i].sn # a
  <2>1. \A i \in 1 .. Len(t) : t[i].sn = a => Sn2nid(t, a) = i
    BY RowsOf DEF Libs
  <2>2. Len(t) \in Nat  BY RowsOf DEF Libs
  <2>3. QED  BY <1>2, <2>1, <2>2
<1>7. /\ n \in Nat /\ Len(t) \in Nat /\ Len(u) \in Nat /\ n \leq Len(t) /\ n \leq Len(u)
      /\ Table(t) /\ \A i \in 1 .. n : t[i] = u[i]
      /\ \A i \in 1 .. Len(t) : i > n => t[i].sn \in Algs
  BY RowsOf DEF Libs
<1>8. /\ \A i \in 1 .. Len(t) : i > n => t[i].oid = oid[t[i].sn]
      /\ \A i \in 1 .. Len(u) : i > n => u[i].oid = oid[u[i].sn]
  BY DEF IInv, TablesInv, ByTheList, Libs
<1> HIDE DEF t, u, n, a
<1>9. k > n
  <2>1. SUFFICES ASSUME k \leq n PROVE FALSE
    BY <1>7
  <2>2. k \in 1 .. Len(u) /\ u[k] = t[k]
    BY <1>7, <2>1
  <2>3. QED  BY <1>4, <1>5, <2>2
<1>10. PICK b \in Algs : b = t[k].sn
  BY <1>7, <1>9
<1>11. PICK kb \in 1 .. Len(OidList) : OidList[kb] = b
  BY AlgsKnown
<1>12. oid[b] = oid[a] /\ b # a
  BY <1>4, <1>6, <1>8, <1>9, <1>10
<1>13. CASE kb < load[l].i
  <2>1. b \in Passed(l)
    BY <1>11, <1>13 DEF Passed
  <2>2. Sn2nid(u, b) # 0
    BY <1>1, <2>1 DEF LInv, SomeLoad, KnownInBoth, u
  <2>3. PICK j \in 1 .. Len(u) : u[j].sn = b
    BY <2>2, RowsOf DEF Libs, u
  <2>4. CASE j > n
    BY <1>5, <1>8, <1>12, <2>3, <2>4
  <2>5. CASE j \leq n
    <3>1. j \in 1 .. Len(t) /\ t[j].sn = b
      BY <1>7, <2>3, <2>5
    <3>2. j = k
      BY <1>7, <1>10, <3>1 DEF Table
    <3>3. QED  BY <1>7, <1>9, <2>5, <3>2
  <2>6. QED  BY <1>7, <2>4, <2>5
<1>14. CASE kb > load[l].i
  <2>1. \A x \in 1 .. Len(OidList) : x < kb => KnownInBoth(OidList[x])
    <3>1. t[k].sn = OidList[kb]
      BY <1>10, <1>11
    <3>2. k \in 1 .. Len(objs["core"]) /\ k > Len(host.pre) /\ objs["core"][k].sn = OidList[kb]
      BY <1>9, <3>1 DEF t, n
    <3>3. RowsInv
      BY DEF LInv
    <3>4. QED  BY <3>2, <3>3 DEF RowsInv
  <2>2. KnownInBoth(a)
    BY <1>1, <1>14, <2>1
  <2>3. QED  BY <1>2, <2>2 DEF KnownInBoth, t
<1>15. CASE kb = load[l].i
  BY <1>1, <1>11, <1>12, <1>15
<1>16. QED  BY <1>1, <1>13, <1>14, <1>15

LEMMA OwnRows ==
  ASSUME IInv, LInv, NEW l \in Loads, load[l].pc = "again", Begun', host.ownCopy,
         objs' = [objs EXCEPT !["own"] = ObjCreate(@, oid[Alg(l)], Alg(l))],
         UNCHANGED <<oid, host, env, moved>>
  PROVE  /\ RowsInv' /\ TablesGrow /\ objs'["core"] = objs["core"]
         /\ objs'["own"] = ObjCreate(objs["own"], oid[Alg(l)], Alg(l))
<1>1. Alg(l) \in Algs /\ load[l] \in LoadRecords /\ Begun /\ TypeInv /\ TablesInv
      /\ "core" \in Libs /\ "own" \in Libs /\ Own = "own" /\ Own' = Own
  BY AlgsKnown DEF IInv, TypeInv, Alg, LoadRecords, Begun, Libs, Own
<1>2. PICK a \in Algs : a = Alg(l)
  BY <1>1
<1> DEFINE t == objs["own"]
           u == objs'["own"]
<1>3. /\ TablesGrow /\ objs'["core"] = objs["core"] /\ u = ObjCreate(t, oid[a], a)
  <2>1. objs' = [objs EXCEPT !["own"] = ObjCreate(@, oid[a], a)]
    BY <1>2
  <2>2. QED  BY <1>1, <2>1, CreateStep DEF Libs
<1>4. /\ Table(t) /\ Len(t) \in Nat /\ Len(u) \in Nat /\ Len(t) \leq Len(u)
      /\ \A i \in 1 .. Len(t) : u[i] = t[i]
      /\ \A i \in 1 .. Len(u) : i > Len(t) => u[i].oid = oid[a] /\ u[i].sn = a
  <2>1. Table(t)  BY <1>1 DEF TablesInv
  <2> HIDE DEF t, u
  <2>2. QED  BY <1>3, <2>1, CreateGrows DEF Table
<1>5. \A b : KnownInBoth(b) => KnownInBoth(b)'
  BY <1>1, <1>3 DEF KnownInBoth, TablesGrow
<1>6. RowsInv
  BY DEF LInv
<1>7. ASSUME NEW i \in 1 .. Len(u), i > Len(host.pre)
      PROVE  \/ u[i].oid = oid[u[i].sn]
             \/ \E j \in 1 .. Len(objs["core"]) :
                  objs["core"][j].oid = u[i].oid /\ objs["core"][j].sn = u[i].sn
  <2>1. CASE i > Len(t)
    BY <1>4, <2>1
  <2>2. CASE i \in 1 .. Len(t)
    <3>1. u[i] = t[i]
      BY <1>4, <2>2
    <3>2. QED  BY <1>6, <1>7, <2>2, <3>1 DEF RowsInv
  <2>3. QED  BY <1>4, <2>1, <2>2
<1>8. Settled' \/ OwnInCore'
  <2>1. CASE Settled
    BY <2>1 DEF Settled
  <2>2. CASE ~Settled
    <3>1. OwnInCore
      BY <1>6, <2>2 DEF RowsInv
    <3>2. \A b : Sn2nid(t, b) = 0 /\ Sn2nid(u, b) # 0 => b = a /\ Creates(t, oid[a], a)
      <4> HIDE DEF t, u
      <4>1. QED  BY <1>3, <1>4, CreatedOrNot
    <3>3. Creates(t, oid[a], a) => Sn2nid(objs["core"], a) # 0
      BY <1>2, <2>2, KnownFirst
    <3>4. QED  BY <1>3, <3>1, <3>2, <3>3 DEF OwnInCore
  <2>3. QED  BY <2>1, <2>2
<1>9. \A k \in 1 .. Len(OidList) : \A i \in 1 .. Len(objs["core"]) :
        i > Len(host.pre) /\ objs["core"][i].sn = OidList[k] =>
          \A j \in 1 .. Len(OidList) : j < k => KnownInBoth(OidList[j])'
  BY <1>5, <1>6 DEF RowsInv
<1>10. \A i \in 1 .. Len(u) : i > Len(host.pre) =>
         \/ u[i].oid = oid[u[i].sn]
         \/ \E j \in 1 .. Len(objs["core"]) :
              objs["core"][j].oid = u[i].oid /\ objs["core"][j].sn = u[i].sn
  BY <1>7
<1>11. RowsInv'
  BY <1>3, <1>6, <1>8, <1>9, <1>10 DEF RowsInv
<1>12. QED  BY <1>2, <1>3, <1>11

LEMMA LoneCreateAgain ==
  ASSUME IInv, LInv, NEW l \in Loads, CreateAgain(l), process' = process
  PROVE  LInv'
<1> DEFINE t == objs[Own]
           made == [objs EXCEPT ![Own] = ObjCreate(@, oid[Alg(l)], Alg(l))]
<1>1. /\ load[l] \in LoadRecords /\ load \in [Loads -> LoadRecords] /\ load[l].pc = "again"
      /\ host.is310 \in BOOLEAN /\ Alg(l) \in Algs
      /\ UNCHANGED <<oid, host, env, moved>>
  BY AlgsKnown DEF IInv, TypeInv, CreateAgain, process, Alg, LoadRecords
<1>2. /\ \A m \in Loads \ {l} : load'[m] = load[m]
      /\ load'[l].alone = load[l].alone /\ load'[l].pc = "read" /\ load'[l].i = load[l].i
      /\ \/ load'[l].oom = TRUE /\ objs' = objs
         \/ load'[l].oom = load[l].oom /\ objs' = IF host.is310 THEN objs ELSE made
  <2>1. CASE /\ load' = [load EXCEPT ![l].pc = "read", ![l].oom = TRUE,
                                     ![l].unseen = @ \/ host.ownCopy]
             /\ objs' = objs
    BY <1>1, <2>1 DEF LoadRecords
  <2>2. CASE objs' = (IF host.is310 THEN objs ELSE made) /\ Goto(l, "read")
    <3> HIDE DEF made
    <3>1. QED  BY <1>1, <2>2 DEF Goto, LoadRecords
  <2>3. QED  BY <2>1, <2>2 DEF CreateAgain
<1>3. Running(l) /\ Passed(l)' = Passed(l) /\ (Alg(l))' = Alg(l) /\ Begun'
  BY <1>1, <1>2, SamePassed DEF Making, Running, Begun
<1>4. SomeLoad(l) /\ LoneLoad(l) /\ RowsInv
  BY DEF LInv
<1>5. \A a \in Passed(l) : KnownInBoth(a)
  BY <1>4 DEF SomeLoad
<1>6. load[l].alone /\ ~load[l].oom => Txt2nid(objs["core"], oid[Alg(l)]) # 0
  BY <1>1, <1>4 DEF LoneLoad
<1>7. CASE objs' = objs /\ (load'[l].oom = TRUE \/ (host.is310 /\ load'[l].oom = load[l].oom))
  BY <1>1, <1>2, <1>3, <1>5, <1>6, <1>7, LoneQuiet
<1>8. CASE ~host.is310 /\ objs' = made /\ load'[l].oom = load[l].oom
  <2>1. PICK a \in Algs : a = Alg(l)
    BY <1>1
  <2>2. /\ RowsInv' /\ TablesGrow
        /\ host.ownCopy => objs'["own"] = ObjCreate(objs["own"], oid[a], a)
    <3>1. CASE host.ownCopy
      <4>1. objs' = [objs EXCEPT !["own"] = ObjCreate(@, oid[Alg(l)], Alg(l))]
        BY <1>8, <3>1 DEF Own
      <4>2. QED  BY <1>1, <1>3, <2>1, <3>1, <4>1, OwnRows
    <3>2. CASE ~host.ownCopy
      <4>1. objs' = [objs EXCEPT !["core"] = ObjCreate(@, oid[Alg(l)], Alg(l))]
        BY <1>8, <3>2 DEF Own
      <4>2. QED  BY <1>1, <1>3, <3>2, <4>1, CoreRows
    <3>3. QED  BY <3>1, <3>2
  <2>3. /\ \A m \in Loads \ {l} : SomeLoad(m)' /\ AloneRuns(m)' /\ LoneLoad(m)'
        /\ AloneRuns(l)'
        /\ \A b : KnownInBoth(b) => KnownInBoth(b)'
    BY <1>1, <1>2, <1>3, <2>2, OthersKeep
  <2>4. SomeLoad(l)'
    BY <1>2, <1>3, <1>5, <2>3 DEF SomeLoad
  <2>5. LoneLoad(l)'
    <3> SUFFICES ASSUME load[l].alone, ~load[l].oom
                 PROVE  /\ Txt2nid(objs'["core"], oid[a]) # 0
                        /\ host.ownCopy => Sn2nid(objs'["own"], a) # 0 \/ Txt2nid(objs'["own"], oid[a]) # 0
      BY <1>1, <1>2, <1>3, <1>8, <2>1 DEF LoneLoad
    <3>1. Txt2nid(objs'["core"], oid[a]) # 0
      BY <1>6, <2>1, <2>2 DEF TablesGrow, Libs
    <3>2. ASSUME host.ownCopy
          PROVE  Sn2nid(objs'["own"], a) # 0 \/ Txt2nid(objs'["own"], oid[a]) # 0
      <4>1. Table(objs["own"])
        BY DEF IInv, TablesInv, Libs
      <4> DEFINE v == objs["own"]
                 w == objs'["own"]
      <4>2. w = ObjCreate(v, oid[a], a) /\ Table(v)
        BY <2>2, <3>2, <4>1
      <4> HIDE DEF v, w
      <4>3. Sn2nid(w, a) # 0 \/ (w = v /\ Txt2nid(v, oid[a]) # 0)
        BY <4>2, CreatedOrNot
      <4>4. QED  BY <4>3 DEF w
    <3>3. QED  BY <3>1, <3>2
  <2>6. QED  BY <2>2, <2>3, <2>4, <2>5 DEF LInv
<1>9. QED
  <2>1. CASE host.is310  BY <1>2, <1>7, <2>1
  <2>2. CASE ~host.is310
    <3> HIDE DEF made
    <3>1. QED  BY <1>1, <1>2, <1>7, <1>8, <2>2
  <2>3. QED  BY <2>1, <2>2

LEMMA LoneAfterLoop ==
  ASSUME IInv, LInv, NEW l \in Loads,
         NewBioMeth(l) \/ NewLibctx(l) \/ NewProvctx(l) \/ EndInit(l), process' = process
  PROVE  LInv'
<1>1. load[l] \in LoadRecords /\ load \in [Loads -> LoadRecords]  BY DEF IInv, TypeInv
<1>2. CASE OutOfMemory(l) /\ ~EndInit(l)
  <2>1. load[l].pc \in Making
    BY <1>2 DEF NewBioMeth, NewLibctx, NewProvctx, Making
  <2>2. QED  BY <1>2, <2>1, LoneOutOfMemory
<1>3. CASE ~OutOfMemory(l) \/ EndInit(l)
  <2>1. /\ load[l].pc \in Making \cup {"end"} /\ objs' = objs /\ UNCHANGED <<oid, host, env, moved>>
        /\ \A m \in Loads \ {l} : load'[m] = load[m]
        /\ load'[l].alone = load[l].alone /\ load'[l].i = load[l].i
        /\ \/ load[l].pc \in Making /\ load'[l].pc \in Making \cup {"loaded"}
           \/ load'[l].pc = "failed"
    <3>1. CASE NewBioMeth(l) \/ NewLibctx(l) \/ NewProvctx(l)
      <4>1. ~EndInit(l)
        BY <3>1 DEF NewBioMeth, NewLibctx, NewProvctx, EndInit
      <4>2. QED  BY <1>1, <1>3, <3>1, <4>1
                 DEF NewBioMeth, NewLibctx, NewProvctx, tables, process, LoadRecords, Making
    <3>2. CASE EndInit(l)
      <4> DEFINE d == [Cleanup(load[l]) EXCEPT !.pc = "failed"]
      <4>1. load' = [load EXCEPT ![l] = d] /\ load[l].pc = "end" /\ UNCHANGED tables
        BY <3>2 DEF EndInit
      <4>2. load[l].provctx = "none"
        BY <4>1 DEF IInv, ResInv
      <4>3. d = [load[l] EXCEPT !.libctx = Free(load[l].libctx), !.pc = "failed"]
        BY <1>1, <4>2 DEF Cleanup, LoadRecords
      <4>4. d.alone = load[l].alone /\ d.i = load[l].i /\ d.pc = "failed"
        BY <1>1, <4>3 DEF LoadRecords
      <4> HIDE DEF d
      <4>5. QED  BY <1>1, <4>1, <4>4 DEF tables, process
    <3>3. QED  BY <3>1, <3>2
  <2>2. Running(l)
    BY <2>1 DEF Running, Making
  <2>3. Passed(l)' \subseteq Passed(l)
    BY <2>1 DEF Passed, Making
  <2>4. \A a \in Passed(l)' : KnownInBoth(a)
    BY <2>3 DEF LInv, SomeLoad
  <2>5. load'[l].pc \in Making \cup {"loaded", "failed"}
    BY <2>1
  <2>6. QED  BY <2>1, <2>2, <2>4, <2>5, LoneQuiet DEF Making
<1>4. QED  BY <1>2, <1>3

\* A step that no load's run takes part in.
LEMMA LoneStill ==
  ASSUME IInv, LInv, objs' = objs, UNCHANGED <<oid, host>>, Settled => Settled', Blamed => Blamed',
         \A l \in Loads : load'[l].alone = load[l].alone /\ Running(l)' = Running(l)
           /\ (Alg(l))' = Alg(l) /\ Passed(l)' \subseteq Passed(l)
           /\ (load'[l] = load[l] \/ ~Running(l))
  PROVE  LInv'
<1>1. RowsInv'
  BY DEF LInv, RowsInv, OwnInCore, KnownInBoth, Own
<1>2. ASSUME NEW l \in Loads PROVE SomeLoad(l)' /\ AloneRuns(l)' /\ LoneLoad(l)'
  <2>1. \A a : KnownInBoth(a)' = KnownInBoth(a)
    BY DEF KnownInBoth, Own
  <2>2. CASE load'[l] = load[l]
    BY <1>2, <2>1, <2>2 DEF LInv, SomeLoad, AloneRuns, LoneLoad
  <2>3. CASE ~Running(l)
    <3>1. ~Running(l)'
      BY <2>3
    <3>2. load'[l].pc \notin {"create", "again", "read", "set", "sigid", "check", "end"}
      BY <3>1 DEF Running
    <3>3. QED  BY <1>2, <2>1, <3>1, <3>2 DEF LInv, SomeLoad, AloneRuns, LoneLoad
  <2>4. QED  BY <2>2, <2>3
<1>3. QED  BY <1>1, <1>2 DEF LInv

LEMMA LoneTeardown ==
  ASSUME IInv, LInv, NEW l \in Loads, Teardown(l), process' = process
  PROVE  LInv'
<1> DEFINE d == [FreeProvctx(load[l]) EXCEPT !.pc = "unloaded"]
<1>1. load[l] \in LoadRecords /\ load \in [Loads -> LoadRecords] /\ load[l].pc = "loaded"
      /\ load' = [load EXCEPT ![l] = d] /\ objs' = objs /\ UNCHANGED <<oid, host, env, moved>>
  BY DEF IInv, TypeInv, Teardown, tables, process
<1>2. d.pc = "unloaded" /\ d.i = load[l].i /\ d.alone = load[l].alone
  BY <1>1 DEF FreeProvctx, LoadRecords
<1> HIDE DEF d
<1>3. ASSUME NEW m \in Loads
      PROVE  /\ load'[m].alone = load[m].alone /\ Running(m)' = Running(m)
             /\ (Alg(m))' = Alg(m) /\ Passed(m)' \subseteq Passed(m)
             /\ (load'[m] = load[m] \/ ~Running(m))
  BY <1>1, <1>2 DEF Running, Alg, Passed, Making
<1>4. QED  BY <1>1, <1>3, LoneStill DEF Settled, Blamed, Registrable

LEMMA LoneSetEnv == ASSUME IInv, LInv, SetEnv PROVE LInv'
<1>1. objs' = objs /\ UNCHANGED <<oid, host, load>> /\ ~moved /\ moved'
  BY DEF SetEnv
<1>2. Range(host.pre) \subseteq Range(objs["core"])
  <2>1. /\ DOMAIN host.pre = 1 .. Len(host.pre) /\ DOMAIN objs["core"] = 1 .. Len(objs["core"])
        /\ Len(host.pre) \in Nat /\ Len(objs["core"]) \in Nat /\ Len(host.pre) \leq Len(objs["core"])
        /\ \A i \in 1 .. Len(host.pre) : objs["core"][i] = host.pre[i]
    BY RowsOf DEF Libs
  <2>2. \A i \in 1 .. Len(host.pre) : i \in DOMAIN objs["core"] /\ objs["core"][i] = host.pre[i]
    BY <2>1
  <2>3. QED  BY <2>1, <2>2 DEF Range
<1>3. Blamed => Blamed'
  BY <1>1, <1>2 DEF Blamed, Registrable
<1>4. \A l \in Loads : Running(l)' = Running(l) /\ (Alg(l))' = Alg(l) /\ Passed(l)' = Passed(l)
  BY <1>1 DEF Running, Alg, Passed
<1>5. Settled => Settled'
  BY <1>1 DEF Settled
<1>6. QED  BY <1>1, <1>3, <1>4, <1>5, LoneStill

LEMMA LoneStart ==
  ASSUME IInv, LInv, NEW l \in Loads, Start(l), process' = process
  PROVE  LInv'
<1> DEFINE others == {m \in Loads \ {l} : Running(m)}
           p == IF host.fns THEN "lookup" ELSE "end"
<1>1. /\ load[l].pc = "new" /\ load \in [Loads -> LoadRecords]
      /\ oid' = PatchOids(env.oid, oid) /\ objs' = objs
      /\ host' = host /\ moved' = moved /\ env' = env /\ Own' = Own
  BY DEF Start, process, IInv, TypeInv, Own
<1>2. p \in {"lookup", "end"} /\ l \notin others /\ (p = "end" => Blamed')
  BY <1>1 DEF Blamed
<1>3. load' = [m \in Loads |->
        CASE m = l -> [load[l] EXCEPT !.alone = (others = {}), !.pc = p]
          [] m \in others -> [load[m] EXCEPT !.alone = FALSE]
          [] OTHER -> load[m]]
  BY DEF Start
<1>4. \A m \in Loads : m \in others <=> m # l /\ Running(m)
  OBVIOUS
<1> HIDE DEF p, others
<1>5. load'[l].pc = p /\ load'[l].alone = (others = {}) /\ load'[l].i = load[l].i
      /\ load'[l].oom = load[l].oom
  <2>1. load'[l] = [load[l] EXCEPT !.alone = (others = {}), !.pc = p]
    BY <1>2, <1>3
  <2>2. QED  BY <1>1, <2>1 DEF LoadRecords
<1>6. ASSUME NEW m \in Loads \ {l}
      PROVE  /\ load'[m].pc = load[m].pc /\ load'[m].i = load[m].i
             /\ IF Running(m) THEN load'[m].alone = FALSE ELSE load'[m] = load[m]
  <2>1. CASE Running(m)
    <3>1. load'[m] = [load[m] EXCEPT !.alone = FALSE]
      BY <1>3, <1>4, <1>6, <2>1
    <3>2. QED  BY <1>1, <1>6, <2>1, <3>1 DEF LoadRecords
  <2>2. CASE ~Running(m)
    <3>1. load'[m] = load[m]
      BY <1>3, <1>4, <1>6, <2>2
    <3>2. QED  BY <2>2, <3>1
  <2>3. QED  BY <2>1, <2>2
<1>7. \A m \in Loads : Passed(m)' = Passed(m) /\ (Alg(m))' = Alg(m)
  BY <1>1, <1>2, <1>5, <1>6 DEF Passed, Alg, Making
<1>8. \A a : KnownInBoth(a)' = KnownInBoth(a)
  BY <1>1 DEF KnownInBoth
<1>9. RowsInv /\ (Settled => Settled' /\ oid' = oid) /\ (moved => Settled')
      /\ (Begun /\ ~moved => oid' = oid)
  <2>1. oid' = PatchOids(env.oid, oid')
    BY <1>1, PatchTwice
  <2>2. QED  BY <1>1, <2>1 DEF LInv, Settled, IInv, TablesInv
<1>10. RowsInv'
  <2> DEFINE t == objs["core"]
             u == objs["own"]
             n == Len(host.pre)
  <2>1. ASSUME NEW i \in 1 .. Len(u), i > n
        PROVE  \/ u[i].oid = oid'[u[i].sn]
               \/ \E j \in 1 .. Len(t) : t[j].oid = u[i].oid /\ t[j].sn = u[i].sn
    <3>1. CASE Settled
      BY <1>9, <2>1, <3>1 DEF RowsInv
    <3>2. CASE ~Settled
      <4> DEFINE b == u[i].sn
      <4>1. ByTheList /\ OwnInCore /\ Table(u)
        BY <1>9, <3>2 DEF IInv, TablesInv, RowsInv, Libs
      <4>2. u[i].oid = oid[b] /\ b \in Algs
        BY <2>1, <4>1, RowsOf DEF ByTheList, Libs
      <4>3. Sn2nid(u, b) = i /\ i # 0
        BY <4>1, TheOneSelected
      <4>4. Sn2nid(t, b) # 0
        BY <4>1, <4>2, <4>3 DEF OwnInCore
      <4>5. PICK j \in 1 .. Len(t) : t[j].sn = b
        BY <4>4, RowsOf DEF Libs
      <4>6. CASE j > n
        BY <4>1, <4>2, <4>5, <4>6 DEF ByTheList, Libs
      <4>7. CASE j \leq n
        <5>1. /\ n \leq Len(u) /\ Len(u) \in Nat /\ n \in Nat /\ Len(t) \in Nat
              /\ \A x \in 1 .. n : t[x] = host.pre[x]
              /\ \A x \in 1 .. n : u[x] = host.pre[x]
          BY RowsOf DEF Libs
        <5>2. j \in 1 .. n /\ j \in 1 .. Len(u)
          BY <4>7, <5>1
        <5>3. u[j].sn = b
          BY <4>5, <5>1, <5>2
        <5>4. j = i
          BY <4>1, <5>2, <5>3 DEF Table
        <5>5. QED  BY <2>1, <4>7, <5>1, <5>4
      <4>8. j \in Nat /\ n \in Nat
        BY RowsOf DEF Libs
      <4>9. QED  BY <4>6, <4>7, <4>8
    <3>3. QED  BY <3>1, <3>2
  <2>2. DOMAIN oid' = Algs
    BY <1>1 DEF PatchOids
  <2>3. Settled' \/ OwnInCore'
    BY <1>1, <1>9 DEF RowsInv, OwnInCore
  <2>4. \A i \in 1 .. Len(u) : i > n =>
          \/ u[i].oid = oid'[u[i].sn]
          \/ \E j \in 1 .. Len(t) : t[j].oid = u[i].oid /\ t[j].sn = u[i].sn
    BY <2>1
  <2>5. QED  BY <1>1, <1>8, <1>9, <2>2, <2>3, <2>4 DEF RowsInv
<1>11. ASSUME NEW m \in Loads PROVE SomeLoad(m)'
  <2>1. SomeLoad(m)
    BY DEF LInv
  <2>2. load'[m].pc = "again" => m # l /\ load[m].pc = "again"
    BY <1>2, <1>5, <1>6
  <2>3. load'[m].pc = "again" => Settled' \/ oid' = oid
    BY <1>9, <2>2 DEF Begun
  <2>4. load'[m].pc = "check" => load[m].pc = "check"
    BY <1>2, <1>5, <1>6
  <2>5. QED  BY <1>1, <1>7, <1>8, <1>9, <2>1, <2>2, <2>3, <2>4 DEF SomeLoad
<1>12. ASSUME NEW m \in Loads PROVE AloneRuns(m)' /\ LoneLoad(m)'
  <2>1. CASE m = l
    <3>1. AloneRuns(l)'
      <4>1. \A k \in Loads \ {l} : Running(k)' = Running(k)
        BY <1>6 DEF Running
      <4>2. QED  BY <1>4, <1>5, <4>1 DEF AloneRuns
    <3>2. LoneLoad(l)'
      BY <1>2, <1>5 DEF LoneLoad
    <3>3. QED  BY <2>1, <3>1, <3>2
  <2>2. CASE m # l
    <3>1. Running(m)' = Running(m) /\ ~(load'[m].alone /\ Running(m)')
      BY <1>6, <2>2 DEF Running
    <3>2. QED  BY <3>1 DEF AloneRuns, LoneLoad, Running
  <2>3. QED  BY <2>1, <2>2
<1>13. QED  BY <1>10, <1>11, <1>12 DEF LInv

LEMMA LoneInit == Init => LInv
<1> SUFFICES ASSUME Init PROVE LInv
  OBVIOUS
<1>1. IInv
  BY InitHolds
<1>2. /\ oid = DefaultOid /\ load = [l \in Loads |-> Idle] /\ objs = [lib \in Libs |-> host.pre]
  BY DEF Init, Libs
<1>3. \A l \in Loads : load[l].pc = "new" /\ load[l].i = 1
  BY <1>2 DEF Idle
<1>4. objs["core"] = host.pre /\ objs["own"] = host.pre /\ Len(host.pre) \in Nat
  BY <1>1, <1>2, RowsOf DEF Libs
<1>5. RowsInv
  <2>1. \A i \in 1 .. Len(host.pre) : ~(i > Len(host.pre))
    BY <1>4
  <2>2. QED  BY <1>2, <1>4, <2>1, InitAssumption DEF RowsInv, OwnInCore
<1>6. \A l \in Loads : Passed(l) = {}
  BY <1>3, AlgsKnown DEF Passed, Making
<1>7. \A l \in Loads : SomeLoad(l) /\ AloneRuns(l) /\ LoneLoad(l)
  BY <1>3, <1>6 DEF SomeLoad, AloneRuns, LoneLoad, Running
<1>8. QED  BY <1>5, <1>7 DEF LInv

LEMMA LoneNext == IInv /\ LInv /\ [Next]_vars => LInv'
<1> SUFFICES ASSUME IInv, LInv, [Next]_vars PROVE LInv'
  OBVIOUS
<1>1. CASE UNCHANGED <<process, tables, load>>
  <2>1. /\ objs' = objs /\ UNCHANGED <<oid, host, env, moved, load>>
    BY <1>1 DEF process, tables
  <2>2. \A l \in Loads : Running(l)' = Running(l) /\ (Alg(l))' = Alg(l) /\ Passed(l)' = Passed(l)
    BY <2>1 DEF Running, Alg, Passed
  <2>3. (Settled => Settled') /\ (Blamed => Blamed')
    BY <2>1 DEF Settled, Blamed, Registrable
  <2>4. QED  BY <2>1, <2>2, <2>3, LoneStill
<1>2. CASE SetEnv
  BY <1>2, LoneSetEnv
<1>3. ASSUME NEW l \in Loads, Start(l), UNCHANGED process PROVE LInv'
  BY <1>3, LoneStart
<1>4. ASSUME NEW l \in Loads, UNCHANGED process, NEW a \in Algs, NewDecoder(l, a) PROVE LInv'
  BY <1>1, <1>4 DEF NewDecoder, tables
<1>5. ASSUME NEW l \in Loads, UNCHANGED process,
             \/ Lookup(l) \/ Create(l) \/ CreateAgain(l) \/ ReadNid(l)
             \/ SetNid(l) \/ AddSigid(l) \/ CheckNid(l)
             \/ NewBioMeth(l) \/ NewLibctx(l) \/ NewProvctx(l)
             \/ EndInit(l) \/ Teardown(l)
      PROVE  LInv'
  <2>1. CASE Lookup(l)  BY <1>5, <2>1, LoneLookup
  <2>2. CASE Create(l)  BY <1>5, <2>2, LoneCreate
  <2>3. CASE CreateAgain(l)  BY <1>5, <2>3, LoneCreateAgain
  <2>4. CASE ReadNid(l) \/ SetNid(l)  BY <1>5, <2>4, LoneReadSet
  <2>5. CASE AddSigid(l)  BY <1>5, <2>5, LoneAddSigid
  <2>6. CASE CheckNid(l)  BY <1>5, <2>6, LoneCheckNid
  <2>7. CASE NewBioMeth(l) \/ NewLibctx(l) \/ NewProvctx(l) \/ EndInit(l)
    BY <1>5, <2>7, LoneAfterLoop
  <2>8. CASE Teardown(l)  BY <1>5, <2>8, LoneTeardown
  <2>9. QED  BY <1>5, <2>1, <2>2, <2>3, <2>4, <2>5, <2>6, <2>7, <2>8
<1>6. QED  BY <1>1, <1>2, <1>3, <1>4, <1>5 DEF Next, vars

\* A load that no other overlapped fails, without a failed allocation, only for
\* what was in its way before.
THEOREM LoneLoadsSucceedHolds == Spec => LoneLoadsSucceed
<1> DEFINE Fails == \A l \in Loads :
             load[l].pc = "end" /\ load'[l].pc = "failed" /\ load[l].alone /\ ~load[l].oom
               => \/ ~host.fns
                  \/ host.is310 /\ host.ownCopy
                  \/ ~Registrable(Range(IF moved THEN objs["core"] ELSE host.pre))
<1>1. Init => IInv /\ LInv
  BY InitHolds, LoneInit
<1>2. IInv /\ LInv /\ [Next]_vars => (IInv /\ LInv)'
  BY NextKeeps, LoneNext
<1>3. IInv /\ LInv /\ [Next]_vars => [Fails]_vars
  BY DEF LInv, LoneLoad, Blamed
<1>4. QED  BY <1>1, <1>2, <1>3, PTL DEF Spec, LoneLoadsSucceed
-----------------------------------------------------------------------------
(* Encoders and decoders: the rest of the module is about OqsCodec.         *)

(* What a file carries follows from its structure, and a context has the    *)
(* intent to encrypt whenever its caller asked for it.                      *)
FileInv ==
  /\ file.structure \in {PKI, EPKI} => "priv" \in file.halves
  /\ file.structure = SPKI => file.halves = {"pub"}
  /\ file.asked => file.structure \in {EPKI, SPKI}

EncInv ==
  /\ enc.asked => enc.intent
  /\ enc # NoCtx => enc.structure \in Structures

\* A key that does not have the name of its algorithm was generated here,
\* and its type is right.
NameInv == key.of \in {key.name, key.type}

CodecInv ==
  /\ TypeOK
  /\ FileInv
  /\ EncInv
  /\ NameInv
  /\ FileSaysWhatItHolds
  /\ PrivateKeysKeepType
  /\ DecodedAsAsked
  /\ EncodedAsAsked
  /\ NoNullMethod

-----------------------------------------------------------------------------
(* Selections and structures.                                               *)

\* A level is the first half asked for; with a half of the mask asked for,
\* the check lets only the half of the mask through.
LEMMA LevelOfSelection ==
  ASSUME NEW sel \in Selections
  PROVE  /\ Level(sel) \in AllHalves \cup {"params", None}
         /\ Level(sel) \in AllHalves => Level(sel) \in sel
         /\ "priv" \in sel => Level(sel) = "priv"
         /\ "priv" \notin sel /\ "pub" \in sel => Level(sel) = "pub"
         /\ sel = {} => Level(sel) = None
BY DEF Level, Selections, AllHalves, None

\* The half a writer was asked for is among those its structure carries.
LEMMA WriterCarriesLevel ==
  ASSUME NEW sel \in Selections, NEW s \in Structures,
         CheckSelection(sel, Mask(s)), sel \cap Mask(s) # {}
  PROVE  Level(sel) \in DerHalves(s) /\ Level(sel) \in AllHalves
<1>1. sel # {} OBVIOUS
<1>2. Level(sel) \in Mask(s) BY <1>1 DEF CheckSelection
<1>3. QED BY <1>2 DEF Mask, DerHalves, PrivToDer, PubToDer, AllHalves

\* What is written: in the clear only without the intent, and with the halves
\* of its structure.
LEMMA WrittenFollowsIntent ==
  ASSUME NEW pwcb \in BOOLEAN, enc.structure \in Structures,
         NEW s \in Written(enc, pwcb)
  PROVE  /\ s \in Structures
         /\ s = SPKI <=> enc.structure = SPKI
         /\ s = PKI => ~enc.intent
BY DEF Written, Structures, PKI, EPKI, SPKI

-----------------------------------------------------------------------------
(* Decoders.                                                                *)

\* A private key comes from a file with the algorithm of the decoder only.
LEMMA PrivateKeyFits ==
  ASSUME CodecInv, NEW d \in Types, NEW s \in {PKI, SPKI}, NEW sel \in Selections,
         PrivateKeyOf(d, s, sel) # NoKey
  PROVE  /\ PrivateKeyOf(d, s, sel) = FileKey(d, sel)
         /\ file.oid = d /\ file.structure = PKI
         /\ "priv" \in file.halves
         /\ sel = {} \/ "priv" \in sel
BY DEF PrivateKeyOf, DecodeP8, Effective, CodecInv, FileInv

\* The public key method is called by descriptors that have one, and not
\* when a private key was asked for.
LEMMA PublicKeyFits ==
  ASSUME NEW d \in Types, NEW s \in {PKI, SPKI}, NEW sel \in Selections,
         TriesPublic(d, s, sel)
  PROVE  s = SPKI /\ (sel = {} \/ Level(sel) = "pub")
<1>1. "pub" \in Effective(sel, s) /\ ~GivesUp(d, s, sel)
  BY DEF TriesPublic
<1>2. s = SPKI
  <2>1. SUFFICES ASSUME s = PKI PROVE FALSE BY DEF PKI, SPKI
  <2>2. "priv" \in Effective(sel, s)
    BY <2>1 DEF TriesPublic, Mask, PKI, SPKI
  <2>3. sel = {} BY <1>1, <2>2 DEF GivesUp, TriesPublic
  <2>4. QED BY <1>1, <2>1, <2>3 DEF Effective, Mask, PKI, SPKI
<1>3. sel = {} \/ "priv" \notin sel
  BY <1>1 DEF GivesUp, TriesPublic, Effective
<1>4. sel # {} => "pub" \in sel BY <1>1 DEF Effective
<1>5. QED BY <1>2, <1>3, <1>4, LevelOfSelection

\* A decoder gives nothing, or the file's key with the half asked for; under
\* another algorithm's name at most a public key.
LEMMA DecodedKeyFits ==
  ASSUME CodecInv, NEW d \in Types, NEW s \in {PKI, SPKI}, NEW sel \in Selections
  PROVE  \/ DecodedKey(d, s, sel) = NoKey
         \/ /\ DecodedKey(d, s, sel) = FileKey(d, sel)
            /\ "priv" \in file.halves => file.oid = d
            /\ Level(sel) = None \/ Level(sel) \in file.halves
<1>1. CASE Effective(sel, s) \cap Mask(s) = {}
  BY <1>1 DEF DecodedKey
<1>2. CASE Effective(sel, s) \cap Mask(s) # {} /\ TriesPublic(d, s, sel)
  <2>1. DecodedKey(d, s, sel) = D2iPubkey(d, sel) BY <1>2 DEF DecodedKey
  <2>2. CASE file.structure # SPKI BY <2>1, <2>2 DEF D2iPubkey
  <2>3. CASE file.structure = SPKI
    <3>1. DecodedKey(d, s, sel) = FileKey(d, sel) BY <2>1, <2>3 DEF D2iPubkey
    <3>2. file.halves = {"pub"} BY <2>3 DEF CodecInv, FileInv
    <3>3. sel = {} \/ Level(sel) = "pub" BY <1>2, PublicKeyFits
    <3>4. QED BY <3>1, <3>2, <3>3, LevelOfSelection
  <2>4. QED BY <2>2, <2>3
<1>3. CASE Effective(sel, s) \cap Mask(s) # {} /\ ~TriesPublic(d, s, sel)
  <2>1. DecodedKey(d, s, sel) = PrivateKeyOf(d, s, sel) BY <1>3 DEF DecodedKey
  <2>2. CASE PrivateKeyOf(d, s, sel) = NoKey BY <2>1, <2>2
  <2>3. CASE PrivateKeyOf(d, s, sel) # NoKey
    BY <2>1, <2>3, PrivateKeyFits, LevelOfSelection
  <2>4. QED BY <2>2, <2>3
<1>4. QED BY <1>1, <1>2, <1>3

-----------------------------------------------------------------------------
(* The steps.                                                               *)

LEMMA CodecInitHolds == CodecInit => CodecInv
<1> SUFFICES ASSUME CodecInit PROVE CodecInv OBVIOUS
<1> USE DEF CodecInit, NoKey, NoCtx, NoFile
<1>1. TypeOK BY DEF TypeOK
<1>2. FileInv /\ EncInv /\ NameInv
  BY DEF FileInv, EncInv, NameInv, PKI, EPKI, SPKI, None
<1>3. QED
  BY <1>1, <1>2 DEF CodecInv, FileSaysWhatItHolds, PrivateKeysKeepType, DecodedAsAsked,
     EncodedAsAsked, NoNullMethod

\* Making or freeing a key object leaves contexts and files alone.
LEMMA KeySteps ==
  ASSUME CodecInv,
         \/ \E a \in Types, halves \in (SUBSET AllHalves) \ {{}} : NewKey(a, halves)
         \/ \E a, g \in Types : GenerateAs(a, g)
         \/ FreeKey
  PROVE  CodecInv'
<1>1. UNCHANGED <<enc, file, crashed>> BY DEF NewKey, GenerateAs, FreeKey
<1>2. /\ key' \in [type : Types \cup {None}, name : Types \cup {None}, of : Types \cup {None},
              halves : SUBSET AllHalves, level : AllHalves \cup {"params", None}]
      /\ key'.type = key'.of /\ key'.level = None
  BY DEF NewKey, GenerateAs, FreeKey, NoKey, AllHalves
<1>3. TypeOK' BY <1>1, <1>2 DEF CodecInv, TypeOK
<1>4. (FileInv /\ EncInv /\ FileSaysWhatItHolds /\ EncodedAsAsked /\ NoNullMethod)'
  BY <1>1 DEF CodecInv, FileInv, EncInv, FileSaysWhatItHolds, EncodedAsAsked, NoNullMethod
<1>5. (NameInv /\ PrivateKeysKeepType /\ DecodedAsAsked)'
  BY <1>2 DEF NameInv, PrivateKeysKeepType, DecodedAsAsked
<1>6. QED BY <1>3, <1>4, <1>5 DEF CodecInv

\* So does making, setting or freeing an encoder context with keys and files.
LEMMA CtxSteps ==
  ASSUME CodecInv,
         \/ \E s \in Structures : NewCtx(s)
         \/ FreeCtx
         \/ \E c \in Ciphers \cup {None}, fetched \in BOOLEAN : SetCtxParams(c, fetched)
  PROVE  CodecInv'
<1>1. UNCHANGED <<key, file, crashed>> BY DEF NewCtx, FreeCtx, SetCtxParams
<1>2. /\ enc' \in [type : Types \cup {None}, structure : Structures \cup {None},
              intent : BOOLEAN, cipher : Ciphers \cup {None}, asked : BOOLEAN]
      /\ enc'.cipher # None => enc'.intent
      /\ enc'.asked => enc'.intent
      /\ enc' # NoCtx => enc'.structure \in Structures
  <2>0. /\ enc # NoCtx => enc.structure \in Structures
        /\ key.type \in Types \cup {None}
        /\ enc \in [type : Types \cup {None}, structure : Structures \cup {None},
              intent : BOOLEAN, cipher : Ciphers \cup {None}, asked : BOOLEAN]
    BY DEF CodecInv, TypeOK, EncInv
  <2>1. CASE \E s \in Structures : NewCtx(s)
    BY <2>0, <2>1 DEF NewCtx, NoCtx
  <2>2. CASE FreeCtx
    BY <2>2 DEF FreeCtx, NoCtx
  <2>3. CASE \E c \in Ciphers \cup {None}, fetched \in BOOLEAN : SetCtxParams(c, fetched)
    BY <2>0, <2>3 DEF SetCtxParams
  <2>4. QED BY <2>1, <2>2, <2>3
<1>3. TypeOK' BY <1>1, <1>2 DEF CodecInv, TypeOK
<1>4. (FileInv /\ NameInv /\ FileSaysWhatItHolds /\ PrivateKeysKeepType
         /\ DecodedAsAsked /\ EncodedAsAsked /\ NoNullMethod)'
  BY <1>1 DEF CodecInv, FileInv, NameInv, FileSaysWhatItHolds, PrivateKeysKeepType,
     DecodedAsAsked, EncodedAsAsked, NoNullMethod
<1>5. EncInv' BY <1>2 DEF EncInv
<1>6. QED BY <1>3, <1>4, <1>5 DEF CodecInv

\* A step that writes a good file and changes nothing else.
LEMMA FileStep ==
  ASSUME CodecInv, UNCHANGED <<key, enc, crashed>>,
         file' \in [structure : Structures \cup {Text, None}, oid : Types \cup {None},
               of : Types \cup {None}, halves : SUBSET AllHalves, asked : BOOLEAN,
               level : AllHalves \cup {None}],
         FileInv', FileSaysWhatItHolds', EncodedAsAsked'
  PROVE  CodecInv'
<1>1. TypeOK' BY DEF CodecInv, TypeOK
<1>2. (EncInv /\ NameInv /\ PrivateKeysKeepType /\ DecodedAsAsked /\ NoNullMethod)'
  BY DEF CodecInv, EncInv, NameInv, PrivateKeysKeepType, DecodedAsAsked, NoNullMethod
<1>3. QED BY <1>1, <1>2 DEF CodecInv

LEMMA EncodeStep ==
  ASSUME CodecInv, NEW sel \in Selections, NEW pwcb \in BOOLEAN, Encode(sel, pwcb)
  PROVE  CodecInv'
<1>1. PICK s \in Written(enc, pwcb) :
        file' = [structure |-> s, oid |-> enc.type, of |-> key.of,
                 halves |-> DerHalves(enc.structure), asked |-> enc.asked,
                 level |-> Level(sel)]
  BY DEF Encode
<1>2. /\ key.of = enc.type
      /\ CheckSelection(sel, Mask(enc.structure))
      /\ sel \cap Mask(enc.structure) # {}
      /\ UNCHANGED <<key, enc, crashed>>
      /\ enc # NoCtx
  BY DEF Encode, PrepareParams, CodecInv, NameInv
<1>3. /\ enc.type \in Types \cup {None} /\ enc.asked \in BOOLEAN
      /\ enc.asked => enc.intent
      /\ enc.structure \in Structures
  BY <1>2 DEF CodecInv, TypeOK, EncInv
<1>4. /\ s \in Structures
      /\ s = SPKI <=> enc.structure = SPKI
      /\ s = PKI => ~enc.intent
  BY <1>3, WrittenFollowsIntent
<1>5. Level(sel) \in DerHalves(enc.structure) /\ Level(sel) \in AllHalves
  BY <1>2, <1>3, WriterCarriesLevel
<1>6. /\ DerHalves(enc.structure) \in SUBSET AllHalves
      /\ enc.structure = SPKI => DerHalves(enc.structure) = {"pub"}
      /\ enc.structure # SPKI => "priv" \in DerHalves(enc.structure)
  BY DEF DerHalves, PubToDer, PrivToDer, AllHalves
<1>7. file' \in [structure : Structures \cup {Text, None}, oid : Types \cup {None},
               of : Types \cup {None}, halves : SUBSET AllHalves, asked : BOOLEAN,
               level : AllHalves \cup {None}]
  BY <1>1, <1>2, <1>3, <1>4, <1>5, <1>6
<1>8. FileInv'
  BY <1>1, <1>3, <1>4, <1>6 DEF FileInv, Structures, PKI, EPKI, SPKI
<1>9. (FileSaysWhatItHolds /\ EncodedAsAsked)'
  BY <1>1, <1>2, <1>5 DEF FileSaysWhatItHolds, EncodedAsAsked
<1>10. QED BY <1>2, <1>7, <1>8, <1>9, FileStep

LEMMA EncodeTextStep ==
  ASSUME CodecInv, NEW sel \in Selections, EncodeText(sel)
  PROVE  CodecInv'
<1>1. /\ UNCHANGED <<key, enc, crashed>>
      /\ "priv" \in sel => "priv" \in key.halves
      /\ "priv" \notin sel /\ "pub" \in sel => "pub" \in key.halves
      /\ file' = [structure |-> Text, oid |-> key.name, of |-> key.of,
                  halves |-> sel \cap key.halves, asked |-> FALSE,
                  level |-> IF Level(sel) = "params" THEN None ELSE Level(sel)]
  BY DEF EncodeText
<1>2. {key.of, key.name} \subseteq Types \cup {None} /\ key.halves \in SUBSET AllHalves
  BY DEF CodecInv, TypeOK
<1>3. file'.level \in AllHalves \cup {None}
  BY <1>1, LevelOfSelection
<1>4. file'.level # None => file'.level \in sel \cap key.halves
  BY <1>1, LevelOfSelection DEF AllHalves, None
<1>5. file' \in [structure : Structures \cup {Text, None}, oid : Types \cup {None},
               of : Types \cup {None}, halves : SUBSET AllHalves, asked : BOOLEAN,
               level : AllHalves \cup {None}]
  BY <1>1, <1>2, <1>3
<1>6. (FileInv /\ FileSaysWhatItHolds)'
  BY <1>1 DEF FileInv, FileSaysWhatItHolds, Text, PKI, EPKI, SPKI
<1>7. EncodedAsAsked' BY <1>1, <1>4 DEF EncodedAsAsked
<1>8. QED BY <1>1, <1>5, <1>6, <1>7, FileStep

LEMMA DecryptStep ==
  ASSUME CodecInv, Decrypt
  PROVE  CodecInv'
<1>1. /\ UNCHANGED <<key, enc, crashed>>
      /\ file.structure = EPKI
      /\ file' = [file EXCEPT !.structure = PKI, !.asked = FALSE]
  BY DEF Decrypt
<1>2. /\ file \in [structure : Structures \cup {Text, None}, oid : Types \cup {None},
               of : Types \cup {None}, halves : SUBSET AllHalves, asked : BOOLEAN,
               level : AllHalves \cup {None}]
      /\ "priv" \in file.halves
      /\ file.oid = file.of
      /\ file.level # None => file.level \in file.halves
  BY <1>1 DEF CodecInv, TypeOK, FileInv, FileSaysWhatItHolds, EncodedAsAsked,
     EPKI, Text
<1>3. PKI \in Structures BY DEF Structures
<1>4. file' \in [structure : Structures \cup {Text, None}, oid : Types \cup {None},
               of : Types \cup {None}, halves : SUBSET AllHalves, asked : BOOLEAN,
               level : AllHalves \cup {None}]
  BY <1>1, <1>2, <1>3
<1>5. (FileInv /\ FileSaysWhatItHolds /\ EncodedAsAsked)'
  BY <1>1, <1>2 DEF FileInv, FileSaysWhatItHolds, EncodedAsAsked, PKI, SPKI, EPKI
<1>6. QED BY <1>1, <1>4, <1>5, FileStep

LEMMA DecodeStep ==
  ASSUME CodecInv, NEW d \in Types, NEW s \in {PKI, SPKI}, NEW sel \in Selections,
         NEW taken \in BOOLEAN, Decode(d, s, sel, taken)
  PROVE  CodecInv'
<1>1. UNCHANGED <<enc, file>> BY DEF Decode
<1>2. UNCHANGED crashed /\ key' = IF taken THEN DecodedKey(d, s, sel) ELSE NoKey
  BY PublicKeyFits DEF Decode
<1>3. \/ key' = NoKey
      \/ /\ key' = [type |-> d, name |-> file.oid, of |-> file.oid, halves |-> file.halves,
                    level |-> Level(sel)]
         /\ "priv" \in file.halves => file.oid = d
         /\ Level(sel) = None \/ Level(sel) \in file.halves
  BY <1>2, DecodedKeyFits DEF FileKey
<1>4. key' \in [type : Types \cup {None}, name : Types \cup {None}, of : Types \cup {None},
              halves : SUBSET AllHalves, level : AllHalves \cup {"params", None}]
  <2>1. file.oid \in Types \cup {None} /\ file.halves \in SUBSET AllHalves
    BY DEF CodecInv, TypeOK
  <2>2. CASE key' = NoKey BY <2>2 DEF NoKey
  <2>3. CASE key' = [type |-> d, name |-> file.oid, of |-> file.oid, halves |-> file.halves,
                    level |-> Level(sel)]
    BY <2>1, <2>3, LevelOfSelection
  <2>4. QED BY <1>3, <2>2, <2>3
<1>5. TypeOK' BY <1>1, <1>2, <1>4 DEF CodecInv, TypeOK
<1>6. (NameInv /\ PrivateKeysKeepType /\ DecodedAsAsked)'
  BY <1>3 DEF NameInv, PrivateKeysKeepType, DecodedAsAsked, NoKey
<1>7. (FileInv /\ EncInv /\ FileSaysWhatItHolds /\ EncodedAsAsked /\ NoNullMethod)'
  BY <1>1, <1>2 DEF CodecInv, FileInv, EncInv, FileSaysWhatItHolds, EncodedAsAsked, NoNullMethod
<1>8. QED BY <1>5, <1>6, <1>7 DEF CodecInv

LEMMA CodecNextKeeps == CodecInv /\ [CodecNext]_codecVars => CodecInv'
<1> SUFFICES ASSUME CodecInv, [CodecNext]_codecVars PROVE CodecInv' OBVIOUS
<1>1. CASE \/ \E a \in Types, halves \in (SUBSET AllHalves) \ {{}} : NewKey(a, halves)
           \/ \E a, g \in Types : GenerateAs(a, g)
           \/ FreeKey
  BY <1>1, KeySteps
<1>2. CASE \/ \E s \in Structures : NewCtx(s)
           \/ FreeCtx
           \/ \E c \in Ciphers \cup {None}, fetched \in BOOLEAN : SetCtxParams(c, fetched)
  BY <1>2, CtxSteps
<1>3. CASE \E sel \in Selections, pwcb \in BOOLEAN : Encode(sel, pwcb)
  BY <1>3, EncodeStep
<1>4. CASE \E sel \in Selections : EncodeText(sel)
  BY <1>4, EncodeTextStep
<1>5. CASE Decrypt BY <1>5, DecryptStep
<1>6. CASE \E d \in Types, s \in {PKI, SPKI}, sel \in Selections, taken \in BOOLEAN :
             Decode(d, s, sel, taken)
  BY <1>6, DecodeStep
<1>7. CASE UNCHANGED codecVars
  <2>1. UNCHANGED <<key, enc, file, crashed>> BY <1>7 DEF codecVars
  <2>2. TypeOK' BY <2>1 DEF CodecInv, TypeOK
  <2>3. (FileInv /\ EncInv /\ NameInv)' BY <2>1 DEF CodecInv, FileInv, EncInv, NameInv
  <2>4. (FileSaysWhatItHolds /\ PrivateKeysKeepType /\ DecodedAsAsked
           /\ EncodedAsAsked /\ NoNullMethod)'
    BY <2>1 DEF CodecInv, FileSaysWhatItHolds, PrivateKeysKeepType, DecodedAsAsked,
       EncodedAsAsked, NoNullMethod
  <2>5. QED BY <2>2, <2>3, <2>4 DEF CodecInv
<1>8. QED BY <1>1, <1>2, <1>3, <1>4, <1>5, <1>6, <1>7 DEF CodecNext

-----------------------------------------------------------------------------
(* The invariant the others follow from: types, what files and contexts     *)
(* are, and the properties themselves.                                      *)
THEOREM CodecInvariant == CodecSpec => []CodecInv
<1>1. QED BY CodecInitHolds, CodecNextKeeps, PTL DEF CodecSpec

(* Types, and no cipher without the intent to use it.                       *)
THEOREM CodecTypes == CodecSpec => []TypeOK
<1>1. CodecInv => TypeOK BY DEF CodecInv
<1>2. QED BY <1>1, CodecInvariant, PTL

(* Once a caller named a cipher, no structure with a private key is written *)
(* in the clear, whatever becomes of the cipher (oqs_encode_key2any.c:182). *)
THEOREM NeverInTheClear == CodecSpec => []NoClearWhenAsked
<1>1. CodecInv => NoClearWhenAsked
  BY DEF CodecInv, FileInv, NoClearWhenAsked, PKI, EPKI, SPKI
<1>2. QED BY <1>1, CodecInvariant, PTL

(* A file is labelled with the algorithm its bytes are a key of, although   *)
(* public keys may be announced under another name.                         *)
THEOREM FilesAreLabelled == CodecSpec => []FileSaysWhatItHolds
<1>1. CodecInv => FileSaysWhatItHolds BY DEF CodecInv
<1>2. QED BY <1>1, CodecInvariant, PTL

(* A private key is announced as what it is, whichever decoder took it.     *)
THEOREM PrivateKeysAreTyped == CodecSpec => []PrivateKeysKeepType
<1>1. CodecInv => PrivateKeysKeepType BY DEF CodecInv
<1>2. QED BY <1>1, CodecInvariant, PTL

(* A decoder or an encoder that succeeds gives the half asked for first.    *)
THEOREM SelectionsAreServed == CodecSpec => []GivenAsAsked
<1>1. CodecInv => GivenAsAsked BY DEF CodecInv, GivenAsAsked
<1>2. QED BY <1>1, CodecInvariant, PTL

(* No method that a descriptor lacks is called, whatever the caller selects *)
(* and the file holds.                                                      *)
THEOREM NoMissingMethod == CodecSpec => []NoNullMethod
<1>1. CodecInv => NoNullMethod BY DEF CodecInv
<1>2. QED BY <1>1, CodecInvariant, PTL
=============================================================================
