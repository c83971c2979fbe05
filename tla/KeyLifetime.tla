---------------------------- MODULE KeyLifetime ----------------------------
(***************************************************************************)
(* What reference counting of an OQSX_KEY promises, without the counter: a *)
(* key has a set of holders, a reference is only ever taken from a key     *)
(* that somebody holds, and the key's memory is given back once, after the *)
(* last holder has let go.                                                 *)
(***************************************************************************)
CONSTANTS Keys,      \* identities of allocations made by oqsx_key_new
          Holders    \* everything that can be responsible for a reference

VARIABLES mem,       \* "unused" | "live" | "freed"
          held       \* the holders of each key

lifeVars == <<mem, held>>

LifeTypeOK ==
  /\ mem \in [Keys -> {"unused", "live", "freed"}]
  /\ held \in [Keys -> SUBSET Holders]

LifeInit ==
  /\ mem = [k \in Keys |-> "unused"]
  /\ held = [k \in Keys |-> {}]

\* A key is born with one holder.
Create(k, x) ==
  /\ mem[k] = "unused"
  /\ mem' = [mem EXCEPT ![k] = "live"]
  /\ held' = [held EXCEPT ![k] = {x}]

\* Somebody holds the key, so a further holder may join.
Acquire(k, x) ==
  /\ mem[k] = "live"
  /\ held[k] # {}
  /\ x \notin held[k]
  /\ held' = [held EXCEPT ![k] = @ \cup {x}]
  /\ UNCHANGED mem

\* A holder hands its reference on.
Pass(k, x, y) ==
  /\ mem[k] = "live"
  /\ x \in held[k]
  /\ y \notin held[k]
  /\ held' = [held EXCEPT ![k] = (@ \ {x}) \cup {y}]
  /\ UNCHANGED mem

Drop(k, x) ==
  /\ mem[k] = "live"
  /\ x \in held[k]
  /\ held' = [held EXCEPT ![k] = @ \ {x}]
  /\ UNCHANGED mem

\* Nobody holds the key any more: its memory goes, for good.
Reclaim(k) ==
  /\ mem[k] = "live"
  /\ held[k] = {}
  /\ mem' = [mem EXCEPT ![k] = "freed"]
  /\ UNCHANGED held

LifeNext ==
  \E k \in Keys :
    \/ \E x \in Holders : Create(k, x) \/ Acquire(k, x) \/ Drop(k, x)
    \/ \E x, y \in Holders : Pass(k, x, y)
    \/ Reclaim(k)

LifeSpec == LifeInit /\ [][LifeNext]_lifeVars
=============================================================================
