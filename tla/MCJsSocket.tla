----------------------------- MODULE MCJsSocket -----------------------------
(***************************************************************************)
(* Small instances of JsSocket.  A tag and a length prefix are one byte    *)
(* each, so the sealed body of m1 is as long as a sealed header; pieces of *)
(* any size cut act two, headers and bodies everywhere.                    *)
(***************************************************************************)
EXTENDS JsSocket

CONSTANTS m1, m2, r1, r2

ShortLens == [m \in Msg |-> IF m = m1 THEN 1 ELSE 2]

\* One caller reads messages of both lengths from one socket, in a browser.
ReadsAlone ==
  [callers |-> {r1}, blobs |-> TRUE, pieces |-> 1..5, conns |-> 1,
   msgs |-> {m1, m2}, sends |-> 2]

\* Two callers and two sockets, under Node.
CallsMix ==
  [callers |-> {r1, r2}, blobs |-> FALSE, pieces |-> {1}, conns |-> 2,
   msgs |-> {m1}, sends |-> 1]

\* One caller, two sockets, and no messages.
Reconnects == [CallsMix EXCEPT !.callers = {r1}, !.sends = 0]

ReadsAndCalls == {ReadsAlone, CallsMix}
OnlyReconnects == {Reconnects}
=============================================================================
