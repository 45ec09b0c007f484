------------------------------- MODULE Cursor --------------------------------
(***************************************************************************)
(* cursor.h: a cursor over a buffer, with the operations that lnsocket     *)
(* calls.  A cursor is [mem, p]: all the bytes of the buffer, and how many *)
(* of them lie before p.  An operation returns [ok, c], and [ok, c, v]     *)
(* when it pulls a value; a byte is a number, 0 to 255.                    *)
(***************************************************************************)
EXTENDS Naturals, Sequences, SequencesExt

Zeros(n) == [i \in 1..n |-> 0]

MakeCursor(mem) == [mem |-> mem, p |-> 0]
ResetCursor(c) == [c EXCEPT !.p = 0]
End(c) == Len(c.mem)

\* The next n bytes, when they are in the buffer.
Ahead(c, n) == SubSeq(c.mem, c.p + 1, c.p + n)
Moved(c, n) == [c EXCEPT !.p = @ + n]

Yes(c) == [ok |-> TRUE, c |-> c]
No(c)  == [ok |-> FALSE, c |-> c]
Gives(c, v) == [ok |-> TRUE, c |-> c, v |-> v]
Refuses(c)  == [ok |-> FALSE, c |-> c, v |-> 0]

-----------------------------------------------------------------------------
(* Taking room *)

\* cursor_malloc: the room may end where the buffer does.
CursorMalloc(c, n) ==
  IF c.p + n > End(c) THEN No(c) ELSE Yes(Moved(c, n))

\* memcpy to where the cursor is.
Write(c, data) ==
  [mem |-> [i \in DOMAIN c.mem |->
              IF i \in c.p + 1 .. c.p + Len(data) THEN data[i - c.p] ELSE c.mem[i]],
   p   |-> c.p + Len(data)]

CursorAlloc(c, n) ==
  IF CursorMalloc(c, n).ok THEN Yes(Write(c, Zeros(n))) ELSE No(c)

\* cursor_slice: the room as a cursor of its own, v.
CursorSlice(c, n) ==
  IF CursorAlloc(c, n).ok THEN Gives(CursorAlloc(c, n).c, MakeCursor(Zeros(n)))
  ELSE Refuses(c)

\* A mutant of cursor_push that fills the buffer to its last byte.
MutCursorPush(c, data) ==
  IF c.p + Len(data) > End(c) THEN No(c) ELSE Yes(Write(c, data))

\* cursor_push: one byte of the buffer must stay free.
CursorPush(c, data) ==
  IF c.p + Len(data) >= End(c) THEN No(c) ELSE Yes(Write(c, data))

CursorPushByte(c, b) ==
  IF c.p + 1 > End(c) THEN No(c) ELSE Yes(Write(c, <<b>>))

\* Each of the bytes pushed one after the other, until one does not fit.
PushEach(c, bytes) ==
  LET pushed[k \in 0..Len(bytes)] ==
        IF k = 0 THEN Yes(c)
        ELSE IF pushed[k - 1].ok THEN CursorPushByte(pushed[k - 1].c, bytes[k])
        ELSE pushed[k - 1]
  IN  pushed[Len(bytes)]

\* cursor_push_c_str: the string, and the zero that ends it.
CursorPushCStr(c, str) ==
  LET pushed == CursorPush(c, str)
  IN  IF pushed.ok THEN CursorPushByte(pushed.c, 0) ELSE pushed

-----------------------------------------------------------------------------
(* Taking bytes *)

\* A mutant of cursor_pull and pull_byte that goes one byte too far.
MutCursorPull(c, n) ==
  IF c.p + n > End(c) + 1 THEN Refuses(c)
  ELSE Gives(Moved(c, n), Ahead([c EXCEPT !.mem = @ \o <<0>>], n))

CursorPull(c, n) ==
  IF c.p + n > End(c) THEN Refuses(c) ELSE Gives(Moved(c, n), Ahead(c, n))

PullByte(c) ==
  IF c.p + 1 > End(c) THEN Refuses(c) ELSE Gives(Moved(c, 1), c.mem[c.p + 1])

\* cursor_pull_c_str: up to the next zero; without one, all there is goes.
CursorPullCStr(c) ==
  LET zeros == {i \in c.p + 1 .. End(c) : c.mem[i] = 0}
      first == CHOOSE i \in zeros : \A j \in zeros : i <= j
  IN  IF zeros = {} THEN Refuses(Moved(c, End(c) - c.p))
      ELSE Gives(Moved(c, first - c.p), SubSeq(c.mem, c.p + 1, first - 1))

\* pull_data_into_cursor: from c into dest; v is dest with the bytes.
PullDataInto(c, dest, n) ==
  IF dest.p + n <= End(dest) /\ CursorPull(c, n).ok
  THEN Gives(Moved(c, n), Write(dest, Ahead(c, n)))
  ELSE Refuses(c)
=============================================================================
