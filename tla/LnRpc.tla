------------------------------- MODULE LnRpc --------------------------------
(***************************************************************************)
(* lnrpc: one run of main() in lnrpc.c, from lnsocket_connect to its exit. *)
(***************************************************************************)
EXTENDS RpcNode

CONSTANTS
  RpcBuf,       \* bytes of main's msgbuf: 4096
  PongBuf       \* bytes of lnsocket_pong's buffer: 65535

\* No message that fits into msgbuf, or is as long as a ping may ask for, is
\* too long for a frame; the pong's buffer has room for each of the latter.
ASSUME RpcAssumption ==
  RpcBuf \in 0..MaxMessage /\ PongBuf \in Nat /\ PongBuf >= MaxMessage

VARIABLES
  ok,       \* ok, which main() negates for its exit status
  printed   \* the parts of a reply that were printed

LnRpcStarts == ok = TRUE /\ printed = <<>>

-----------------------------------------------------------------------------
(* main() up to its loop *)

Fails == pc' = "exit" /\ ok' = FALSE

Connect ==
  /\ pc = "connect"
  /\ \/ Fails
     \/ pc' = "init" /\ UNCHANGED ok
  /\ UNCHANGED <<read, printed, wrote>>

\* lnsocket_perform_init reads a message, whichever it is, and answers.
ReadInit ==
  /\ pc = "init" /\ Reads
  /\ pc' = "answer"
  /\ UNCHANGED <<ok, printed, wrote>>

\* lnsocket_write on a connection that has ended may still succeed, may
\* fail, and may end the process (SIGPIPE).
WriteDies == ~up /\ pc' = "killed" /\ UNCHANGED <<ok, wrote>>

WriteInit ==
  /\ pc = "answer"
  /\ LET len == MakeInit(1024)
     IN  \/ (len = 0 \/ ~up) /\ Fails /\ UNCHANGED wrote
         \/ len > 0 /\ WriteDies
         \/ len > 0 /\ Written("init", len) /\ pc' = "ask" /\ UNCHANGED ok
  /\ UNCHANGED <<read, printed>>

WriteRpc ==
  /\ pc = "ask"
  /\ \E strings \in RpcStrings :
       LET len == MakeRpc(strings, RpcBuf)
       IN  \/ (len = 0 \/ ~up) /\ Fails /\ UNCHANGED wrote
           \/ len > 0 /\ WriteDies
           \/ len > 0 /\ Written("rpc", len) /\ pc' = "select" /\ UNCHANGED ok
  /\ UNCHANGED <<read, printed>>

-----------------------------------------------------------------------------
(* The loop *)

Readable == read < arrived \/ part \/ ~up

SelectReturns ==
  /\ pc = "select" /\ Readable
  /\ pc' = "recv"
  /\ UNCHANGED <<ok, read, printed, wrote>>

\* A mutant that leaves the loop without ok = 0.
MutSelectFails ==
  /\ pc = "select"
  /\ pc' = "exit"
  /\ UNCHANGED <<ok, read, printed, wrote>>

\* The timeout passes with nothing to read, or select() fails.
SelectFails ==
  /\ pc = "select"
  /\ Fails
  /\ UNCHANGED <<read, printed, wrote>>

RecvTerm ==
  /\ pc = "recv" /\ Reads /\ Message.type = "term"
  /\ printed' = Append(printed, <<Message.req, Message.n>>)
  /\ pc' = "exit"
  /\ UNCHANGED <<ok, wrote>>

RecvContinues ==
  /\ pc = "recv" /\ Reads /\ Message.type = "continues"
  /\ printed' = Append(printed, <<Message.req, Message.n>>)
  /\ pc' = "select"
  /\ UNCHANGED <<ok, wrote>>

\* lnsocket_pong; when it fails the loop goes on.
RecvPing ==
  /\ pc = "recv" /\ Reads /\ Message.type = "ping"
  /\ LET len == MakePong(Message.n, PongBuf)
     IN  \/ len > 0 /\ Written("pong", len) /\ pc' = "select" /\ UNCHANGED ok
         \/ (len = 0 \/ ~up) /\ pc' = "select" /\ UNCHANGED <<ok, wrote>>
         \/ len > 0 /\ WriteDies
  /\ UNCHANGED <<printed>>

\* A mutant without the default case.
MutRecvOther ==
  /\ pc = "recv" /\ Reads /\ Message.type \in {"init", "other"}
  /\ printed' = Append(printed, <<Message.req, Message.n>>)
  /\ pc' = "select"
  /\ UNCHANGED <<ok, wrote>>

RecvOther ==
  /\ pc = "recv" /\ Reads /\ Message.type \in {"init", "other"}
  /\ pc' = "select"
  /\ UNCHANGED <<ok, printed, wrote>>

\* lnsocket_recv finds no room for a type in the message.
RecvShort ==
  /\ pc = "recv" /\ Reads /\ Message.type = "short"
  /\ Fails
  /\ UNCHANGED <<printed, wrote>>

\* A mutant that takes the end of the stream for an interruption.
MutReadFails ==
  /\ pc \in {"init", "recv"} /\ ~up /\ read = arrived
  /\ UNCHANGED <<pc, ok, read, printed, wrote>>

\* A read at the end of the stream, in the loop or for the init message.
ReadFails ==
  /\ pc \in {"init", "recv"} /\ ~up /\ read = arrived
  /\ Fails
  /\ UNCHANGED <<read, printed, wrote>>

\* The process is over.
LnRpcOver == pc \in {"exit", "killed"} /\ UNCHANGED <<pc, ok, read, printed, wrote>>

LnRpcRuns ==
  \/ Connect \/ ReadInit \/ WriteInit \/ WriteRpc \/ SelectReturns \/ SelectFails
  \/ RecvTerm \/ RecvContinues \/ RecvPing \/ RecvOther
  \/ RecvShort \/ ReadFails

-----------------------------------------------------------------------------
(* Properties *)

\* What lnrpc prints is a prefix of the node's reply, whatever pings and
\* other messages are interleaved with its parts.
PrintedIsReply ==
  client = "lnrpc" => IsPrefix(printed, Numbers(ReplyTo(1)))

\* The exit status tells whether the whole reply was printed: after a
\* timeout, an error or a connection lost in the middle of it, it was not.
ExitTellsTruth ==
  client = "lnrpc" /\ pc = "exit" =>
    (ok <=> Whole(ReplyTo(1)) /\ Len(printed) = Len(ReplyTo(1)))

\* Every ping that was read in the loop is answered, in order, by a message
\* as long as it asked for, or of four bytes, unless the connection ended:
\* the padding of a pong leaves room for its header (lnsocket.c:387).
PongLens(k) ==
  LET pings == Kept(sent, Sent({"ping"}, Nat))[k]
  IN  [i \in DOMAIN pings |-> IF pings[i].n < 4 THEN 4 ELSE pings[i].n]
PongsAnswer ==
  LET pongs == WroteOf("pong")
      lens  == [i \in DOMAIN pongs |-> pongs[i].len]
  IN  client = "lnrpc" /\ up => lens = PongLens(read)

\* When the node neither stops in the middle of a message nor sends other
\* messages for ever (MaxExtra), the process comes to an end: by the reply,
\* the timeout or an error.  (LNRPC_TIMEOUT bounds
\* neither the handshake nor the read of the init message, for which the
\* node must have sent one, nor the rest of a message.)
RpcEnds ==
  (<>(pc = "select") /\ []<>(~part \/ ~up)) => <>(pc \in {"exit", "killed"})
=============================================================================
