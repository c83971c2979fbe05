----------------------------- MODULE SigScheme -----------------------------
(****************************************************************************)
(* What a signature algorithm promises to those who use it, plain or        *)
(* hybrid: a signature is a thing the holder of a pair made of a message.   *)
(* Nothing here has parts, lengths, buffers or key objects.                 *)
(****************************************************************************)
CONSTANTS
  Pairs, Msgs, Kinds,
  Silent            \* in place of an answer: nothing was verified just now

VARIABLES
  issued,           \* all that was ever signed: kind, pair, message, bytes
  answer            \* the last verification and what it said

SchemeInit == issued = {} /\ answer = Silent

(* Signatures come to be by being signed, and stay good.                    *)
Issue(kind, pair, m) ==
  /\ \E s \in issued' : /\ s.ty = kind /\ s.id = pair /\ s.msg = m
                        /\ issued' = issued \cup {s}
  /\ answer' = Silent

(* What the pair issued for the message is good; if anything is good for    *)
(* it, the pair has signed it.                                              *)
Answer(kind, pair, m) ==
  LET for == {s \in issued : s.ty = kind /\ s.id = pair /\ s.msg = m}
  IN  /\ answer'.ty = kind /\ answer'.id = pair /\ answer'.msg = m
      /\ answer'.bytes \in {s.bytes : s \in for} => answer'.ok
      /\ answer'.ok => for # {}
      /\ UNCHANGED issued

Rest == answer' = Silent /\ UNCHANGED issued

SchemeNext ==
  \/ \E kind \in Kinds, pair \in Pairs, m \in Msgs :
       Issue(kind, pair, m) \/ Answer(kind, pair, m)
  \/ Rest

SchemeSpec == SchemeInit /\ [][SchemeNext]_<<issued, answer>>
=============================================================================
