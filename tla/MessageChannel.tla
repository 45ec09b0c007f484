--------------------------- MODULE MessageChannel ---------------------------
(***************************************************************************)
(* What one direction of a connection promises: a fail-stop FIFO channel.  *)
(* The receiver gets what was sent, in order, each message once and        *)
(* unchanged, up to a point where the channel may break; after that it     *)
(* gets nothing, although the sender may go on handing messages over.      *)
(***************************************************************************)
EXTENDS Naturals, Sequences

CONSTANT Payload

VARIABLES sent,    \* every message handed over, in order
          got,     \* every message received, in order
          broken   \* the receiver was told that the channel failed

chanVars == <<sent, got, broken>>

ChanInit == sent = <<>> /\ got = <<>> /\ broken = FALSE

ChanSend(m) ==
  /\ sent' = Append(sent, m)
  /\ UNCHANGED <<got, broken>>

ChanReceive ==
  /\ ~broken
  /\ Len(got) < Len(sent)
  /\ got' = Append(got, sent[Len(got) + 1])
  /\ UNCHANGED <<sent, broken>>

ChanBreak ==
  /\ ~broken
  /\ broken' = TRUE
  /\ UNCHANGED <<sent, got>>

ChanNext == (\E m \in Payload : ChanSend(m)) \/ ChanReceive \/ ChanBreak

ChanSpec == ChanInit /\ [][ChanNext]_chanVars
=============================================================================
