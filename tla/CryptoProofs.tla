---------------------------- MODULE CryptoProofs ----------------------------
(***************************************************************************)
(* What the proofs about Transport, JsSocket and Connect have in common:   *)
(* facts about CryptoMsg and about streams of sealed units.                *)
(***************************************************************************)
EXTENDS CryptoMsg, DataProofs

\* The sizes of what is on the wire are positive.
LEMMA Sizes ==
  /\ HdrSize \in Nat \ {0}
  /\ \A len \in Nat : BodySize(len) \in Nat \ {0} /\ FrameSize(len) \in Nat \ {0}
BY CryptoAssumption DEF HdrSize, BodySize, FrameSize

\* Two units appended to a stream: cryptomsg_encrypt_msg's header and body.
LEMMA AppendTwo ==
  ASSUME NEW s, Len(s) \in Nat, s = [i \in 1..Len(s) |-> s[i]], NEW a, NEW b
  PROVE  /\ s \o <<a, b>> = [i \in 1..Len(s \o <<a, b>>) |-> (s \o <<a, b>>)[i]]
         /\ Len(s \o <<a, b>>) = Len(s) + 2
         /\ \A i \in 1..Len(s) : (s \o <<a, b>>)[i] = s[i]
         /\ (s \o <<a, b>>)[Len(s) + 1] = a
         /\ (s \o <<a, b>>)[Len(s) + 2] = b
<1>1. s \in Seq({s[i] : i \in 1..Len(s)} \cup {a, b})
  OBVIOUS
<1> QED BY <1>1

=============================================================================
