----------------------------- MODULE ErrorArena ------------------------------
(***************************************************************************)
(* The errors of a struct lnsocket: error.c over the cursor errs that      *)
(* lnsocket_create cuts from its one allocation.  Every call that fails    *)
(* notes errors, only lnsocket_read forgets the earlier ones, and          *)
(* lnsocket_print_errors may be called at any time.                        *)
(*                                                                         *)
(* errors.enabled is 1 from lnsocket_create on.  A text is formatted and   *)
(* ready: a string of at most 511 bytes, none of them zero.                *)
(***************************************************************************)
EXTENDS Cursor, FiniteSets

CONSTANTS
  StructSize,   \* sizeof(struct lnsocket)
  MsgbufMem,    \* MSGBUF_MEM
  ErrorMem,     \* ERROR_MEM: 4096
  ErrorText,    \* the texts of errors
  MaxNotes      \* bound: texts noted between two reads

\* Any one text and its zero are shorter than the arena: 512 against 4096.
ASSUME ErrorAssumption ==
  /\ StructSize \in Nat /\ MsgbufMem \in Nat /\ ErrorMem \in Nat /\ MaxNotes \in Nat
  /\ ErrorText \subseteq Seq(1..255)
  /\ \A t \in ErrorText : Len(t) < ErrorMem

VARIABLES
  errs,    \* errs.cur
  noted    \* history: since lnsocket_read last began, the texts noted

errorVars == <<errs, noted>>

\* lnsocket_create: the struct, msgbuf and errs fill the allocation.
\* Without room for one of them there is no struct lnsocket.
Created ==
  LET arena   == MakeCursor(Zeros(MsgbufMem + ErrorMem + StructSize))
      struct  == CursorAlloc(arena, StructSize)
      msgbuf  == CursorSlice(struct.c, MsgbufMem)
      errors  == CursorSlice(msgbuf.c, ErrorMem)
  IN  IF struct.ok /\ msgbuf.ok /\ errors.ok THEN {errors.v} ELSE {}

ErrorInit == errs \in Created /\ noted = <<>>

\* note_error_ returns 0, which its caller returns, whether or not the text
\* fitted into the arena.
NoteError(cur, text) == CursorPushCStr(cur, text)

\* A call without a read notes the errors it met, which may be more than one:
\* lnsocket_connect_with notes its own after lnsocket_handshake_with_tor's.
CallFails ==
  /\ Len(noted) < MaxNotes
  /\ \E text \in ErrorText :
       /\ errs' = NoteError(errs, text).c
       /\ noted' = Append(noted, text)

\* A mutant of lnsocket_read that keeps the errors of earlier calls.
MutRead ==
  \/ UNCHANGED errs /\ noted' = <<>>
  \/ \E text \in ErrorText :
       /\ errs' = NoteError(errs, text).c
       /\ noted' = <<text>>

\* lnsocket_read forgets the errors of earlier calls, and notes at most one.
Read ==
  \/ errs' = ResetCursor(errs) /\ noted' = <<>>
  \/ \E text \in ErrorText :
       /\ errs' = NoteError(ResetCursor(errs), text).c
       /\ noted' = <<text>>

ErrorNext == CallFails \/ Read

ErrorSpec == ErrorInit /\ [][ErrorNext]_errorVars

-----------------------------------------------------------------------------
\* What pull after pull of a string gives, from the start of the arena on.
Pulls(cur) ==
  LET pull[k \in 0..End(cur)] ==
        IF k = 0 THEN Yes(ResetCursor(cur)) ELSE CursorPullCStr(pull[k - 1].c)
  IN  pull

\* print_error_backtrace: while its cursor is before errs.p it pulls a text and
\* prints it; when it cannot, it prints that, and stops.
Backtrace ==
  LET pull   == Pulls(errs)
      rounds == {k \in 1..End(errs) : \A i \in 0..(k - 1) : pull[i].ok /\ pull[i].c.p < errs.p}
      lines  == {k \in rounds : pull[k].ok}
  IN  [lines |-> [k \in 1..Cardinality(lines) |-> pull[k].v], ok |-> lines = rounds]

\* Which of the texts fit whole, one after the other, into the arena, a byte
\* of which stays free, and how many bytes they take.
Told(texts) ==
  LET told[k \in 0..Len(texts)] ==
        IF k = 0 THEN [lines |-> <<>>, bytes |-> 0]
        ELSE IF told[k - 1].bytes + Len(texts[k]) < ErrorMem
        THEN [lines |-> Append(told[k - 1].lines, texts[k]),
              bytes |-> told[k - 1].bytes + Len(texts[k]) + 1]
        ELSE told[k - 1]
  IN  told[Len(texts)]

\* Whatever bytes earlier calls left in the arena, and however full it is,
\* the backtrace is the texts noted since the last lnsocket_read began, each
\* whole and on a line of its own, except those for which there was no room.
BacktraceTells == Backtrace.ok /\ Backtrace.lines = Told(noted).lines

\* However many errors filled the arena before, the error of a lnsocket_read
\* that fails is the whole of the backtrace after it.
ReadErrorIsTold ==
  [][Read /\ noted' # <<>> => Backtrace'.lines = noted']_errorVars
=============================================================================
