---------------------------- MODULE MCOqsProvInit ----------------------------
EXTENDS OqsProvInit, TLC

(* A KEM and a signature algorithm; the tables need not be in one order.    *)
MCOidList == <<"kyber512", "dilithium2">>
MCNidNames == <<"dilithium2", "kyber512">>

MCDefaultOid == [a \in {"kyber512", "dilithium2"} |->
                   IF a = "kyber512" THEN "oidK" ELSE "oidD"]

(* The build has no frodo640aes, whose rows come before kyber512's.         *)
MCTlsNames == [c \in {"TLS-GROUP", "TLS-SIGALG"} |->
                 IF c = "TLS-GROUP" THEN <<"frodo640aes", "kyber512">>
                 ELSE <<"dilithium2">>]
MCDefaultCode == "frodo640aes" :> 512 @@ "kyber512" :> 570 @@ "dilithium2" :> 65184

(* No variable set; a fresh OID and a code point; the other algorithm's OID *)
(* and code point; an OID that is taken.                                    *)
MCEnvironments ==
  {[oid |-> <<>>, code |-> <<>>],
   [oid |-> "kyber512" :> "fresh", code |-> "kyber512" :> 700],
   [oid |-> "kyber512" :> "oidD", code |-> "frodo640aes" :> 570],
   [oid |-> "kyber512" :> "oidX", code |-> <<>>],
   [oid |-> "dilithium2" :> "oidK", code |-> "dilithium2" :> 0]}

(* The name x is always taken; the application may have registered an       *)
(* algorithm itself, as the list has it or under another OID.               *)
MCPreloaded ==
  LET x == [oid |-> "oidX", sn |-> "x"] IN
  {<<x>>, <<x, [oid |-> "oidD", sn |-> "dilithium2"]>>,
   <<x, [oid |-> "other", sn |-> "dilithium2"]>>,
   <<[oid |-> "oidD", sn |-> "x"], [oid |-> "other", sn |-> "dilithium2"]>>}

MCSymmetry == Permutations(Loads)
=============================================================================
