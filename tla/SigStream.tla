----------------------------- MODULE SigStream -----------------------------
(***************************************************************************)
(* What a signature context in digest mode promises to its user: it is a   *)
(* value, the message so far.  Appending to one context changes no other,  *)
(* a copy starts with the same message and goes its own way.               *)
(***************************************************************************)
EXTENDS Sequences

CONSTANTS Ctxs, Chunks, Algs,
          Idle        \* in place of a stream: no operation is in progress

VARIABLE stream       \* for every context, the message so far and what it is fed to

StreamInit == stream = [c \in Ctxs |-> Idle]

\* An operation begins, or its digest is changed: then what was hashed is
\* gone and the rest is collected.
Start(c) ==
  \E a \in Algs : stream' = [stream EXCEPT ![c] = [alg |-> a, data |-> <<>>]]

Append1(c) ==
  /\ stream[c] # Idle
  /\ \E x \in Chunks : stream' = [stream EXCEPT ![c].data = Append(@, x)]

Copy(c, d) ==
  /\ stream[c] # Idle
  /\ stream[d] = Idle
  /\ stream' = [stream EXCEPT ![d] = stream[c]]

\* The operation ends, or the context is destroyed.
End(c) ==
  /\ stream[c] # Idle
  /\ stream' = [stream EXCEPT ![c] = Idle]

StreamNext == \E c \in Ctxs :
  \/ Start(c)
  \/ Append1(c)
  \/ \E d \in Ctxs : Copy(c, d)
  \/ End(c)

StreamSpec == StreamInit /\ [][StreamNext]_stream
=============================================================================
