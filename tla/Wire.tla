-------------------------------- MODULE Wire --------------------------------
(***************************************************************************)
(* The messages that lnsocket.c and commando.c build, by their lengths:    *)
(* each is pushed part by part on a cursor over the caller's buffer, and   *)
(* is either built whole or not at all (a length of 0).                    *)
(***************************************************************************)
EXTENDS Naturals, Sequences

\* The longest message: its length is sent in two bytes.
MaxMessage == 65535

\* cursor_push refuses n bytes that would fill the buffer to its last byte;
\* the test in lnsocket_make_pong_msg, as that of cursor_malloc, does not.
PushFits(p, n, cap) == p + n < cap
RoomFor(p, n, cap) == p + n <= cap

\* The bytes in a buffer of cap bytes after parts of these lengths were
\* pushed one after the other, or 0 when one of them did not fit.
Pushed(lens, cap) ==
  LET upTo[i \in 0..Len(lens)] ==
        IF i = 0 THEN 0 ELSE upTo[i - 1] + lens[i]
  IN  IF \A i \in 1..Len(lens) : PushFits(upTo[i - 1], lens[i], cap)
      THEN upTo[Len(lens)] ELSE 0

\* lnsocket_make_default_initmsg: type, no global features but two zero
\* bytes, five bytes of features.
MakeInit(cap) == Pushed(<<2, 2, 2, 2, 5>>, cap)

\* commando_make_rpc_msg: type, request id, and the seven strings of the
\* request, which have strings bytes together.
MakeRpc(strings, cap) == Pushed(<<2, 8, strings>>, cap)

\* A mutant of lnsocket_make_pong_msg that counts its own header.
MutMakePong(asked, cap) ==
  LET header == Pushed(<<2, 2>>, cap)
  IN  IF header > 0 /\ RoomFor(header, asked, cap) THEN header + asked ELSE 0

\* lnsocket_make_pong_msg: type, length, and what makes the message as long
\* as was asked, header included.
MakePong(asked, cap) ==
  LET header == Pushed(<<2, 2>>, cap)
      n == IF asked <= 4 THEN 0 ELSE asked - 4
  IN  IF header > 0 /\ RoomFor(header, n, cap) THEN header + n ELSE 0
=============================================================================
