---------------------------- MODULE MCTransport ----------------------------
(***************************************************************************)
(* Small instances of Transport for TLC.                                   *)
(*                                                                         *)
(* In the scaled instances a length prefix and a tag are one byte each and *)
(* a key seals four units, so two messages rotate it.  A sealed length is  *)
(* then as long as the sealed body of m1, and one may be read as the other.*)
(* msgbuf has room to read a message of four bytes but not of five, and an *)
(* unsigned short holds up to five.                                        *)
(***************************************************************************)
EXTENDS Transport, TLC

CONSTANTS m0, m1, m5, m6

ScaledLen == (m0 :> 0) @@ (m1 :> 1) @@ (m5 :> 5) @@ (m6 :> 6)

\* The code's own numbers: the longest message that can be read, the shortest
\* that cannot, the longest there is, and a length that wraps to 1.
RealLen == (m0 :> 65528) @@ (m1 :> 65529) @@ (m5 :> 65535) @@ (m6 :> 65537)

SomeChunks == 1..5
SomeCuts == 0..8
SomeLost == 1..32
=============================================================================
