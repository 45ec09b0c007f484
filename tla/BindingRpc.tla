----------------------------- MODULE BindingRpc ------------------------------
(***************************************************************************)
(* The rpc calls of an LNSocket in Go (go/lnsocket.go) and in JavaScript   *)
(* (lnsocket_lib.js), for a caller that connects, exchanges init messages  *)
(* and makes one call after another, also after a call that failed.        *)
(*                                                                         *)
(* In Go the connection is lnd's brontide.Conn, whose Read returns one     *)
(* message; in JavaScript it is JsSocket, whose read_all throws once the   *)
(* socket has closed.  Neither answers pings, and every JavaScript request *)
(* has id 0, as every Go one.  That the text of a reply is JSON is not     *)
(* modelled (JSON.parse throws after the reply was read).                  *)
(***************************************************************************)
EXTENDS RpcNode

CONSTANTS
  JsBuf,      \* bytes of make_commando_msg's buffer: 4096
  GoPayload,  \* bytes of the largest payload lnwire.WriteMessage writes: 65533
  MaxCalls    \* bound: calls of rpc

ASSUME BindingAssumption ==
  JsBuf \in 0..MaxMessage /\ GoPayload \in 0..(MaxMessage - 2) /\ MaxCalls \in Nat

VARIABLES
  chunks,   \* the parts read in the call under way: all, or chunks
  results   \* history: of each call, [req, ok, parts]

bindingVars == <<pc, read, wrote, chunks, results>>

BindingStarts == chunks = <<>> /\ results = <<>>

-----------------------------------------------------------------------------
(* Connect and ConnectAndInit, connect_and_init *)

\* Connect resolves the address, parses the key and dials; connect resolves
\* when act two was read.
BindingConnect ==
  /\ pc = "connect"
  /\ pc' \in {"over", IF client = "go" THEN "greet" ELSE "hear"}
  /\ UNCHANGED <<read, wrote, chunks, results>>

\* PerformInit writes first, and forgets the error of that write.
GoGreet ==
  /\ client = "go" /\ pc = "greet"
  /\ \/ Written("init", 6)
     \/ ~up /\ UNCHANGED wrote
  /\ pc' = "hear"
  /\ UNCHANGED <<read, chunks, results>>

GoHear ==
  /\ client = "go" /\ pc = "hear"
  /\ \/ Reads /\ pc' = (IF Message.type = "short" THEN "over" ELSE "idle")
     \/ ~up /\ read = arrived /\ pc' = "over" /\ UNCHANGED read
  /\ UNCHANGED <<wrote, chunks, results>>

\* perform_init reads first, and what it writes to a socket that has closed
\* is dropped without an error.
JsHear ==
  /\ client = "js" /\ pc = "hear"
  /\ \/ Reads /\ pc' = "greet"
     \/ ~up /\ pc' = "over" /\ UNCHANGED read
  /\ UNCHANGED <<wrote, chunks, results>>

JsGreet ==
  /\ client = "js" /\ pc = "greet"
  /\ \/ Written("init", MakeInit(1024))
     \/ ~up /\ UNCHANGED wrote
  /\ pc' = "idle"
  /\ UNCHANGED <<read, chunks, results>>

-----------------------------------------------------------------------------
(* rpc *)

\* The request under way, by its place among those written.
Asked == Len(WroteOf("rpc"))

Ends(req, ok, parts) ==
  /\ results' = Append(results, [req |-> req, ok |-> ok, parts |-> parts])
  /\ pc' = "idle" /\ chunks' = <<>>

Begins == pc = "idle" /\ Len(results) < MaxCalls

\* Rpc: a request that is too long, or that could not be written, fails.
GoRpc ==
  /\ client = "go" /\ Begins
  /\ \E strings \in RpcStrings :
       \/ /\ 8 + strings <= GoPayload
          /\ Written("rpc", 10 + strings)
          /\ pc' = "recv" /\ UNCHANGED <<chunks, results>>
       \/ /\ 8 + strings > GoPayload \/ ~up
          /\ Ends(0, FALSE, <<>>) /\ UNCHANGED wrote
  /\ UNCHANGED read

\* rpc: a request that does not fit into its buffer throws.  What is sent on
\* a socket that has closed is dropped.
JsRpc ==
  /\ client = "js" /\ Begins
  /\ \E strings \in RpcStrings :
       LET len == MakeRpc(strings, JsBuf)
       IN  \/ len > 0 /\ Written("rpc", len) /\ pc' = "recv" /\ UNCHANGED <<chunks, results>>
           \/ len > 0 /\ ~up /\ Ends(0, FALSE, <<>>) /\ UNCHANGED wrote
           \/ len = 0 /\ Ends(0, FALSE, <<>>) /\ UNCHANGED wrote
  /\ UNCHANGED read

\* JavaScript: recv reads the header, unless the socket has closed.
JsRecv ==
  /\ client = "js" /\ pc = "recv"
  /\ \/ up /\ pc' = "wait" /\ UNCHANGED <<chunks, results>>
     \/ ~up /\ Ends(Asked, FALSE, <<>>)
  /\ UNCHANGED <<read, wrote>>

\* Where a client waits for a message, and goes on after it.
Waits == pc = (IF client = "go" THEN "recv" ELSE "wait")

Part == <<Message.req, Message.n>>

\* A mutant of read_all_rpc that returns what it has at the first part.
MutGetsContinues ==
  /\ Waits /\ Reads /\ Message.type = "continues"
  /\ Ends(Asked, TRUE, Append(chunks, Part))
  /\ UNCHANGED wrote

GetsContinues ==
  /\ Waits /\ Reads /\ Message.type = "continues"
  /\ chunks' = Append(chunks, Part) /\ pc' = "recv"
  /\ UNCHANGED <<wrote, results>>

GetsTerm ==
  /\ Waits /\ Reads /\ Message.type = "term"
  /\ Ends(Asked, TRUE, Append(chunks, Part))
  /\ UNCHANGED wrote

\* A message of another type is passed over; in JavaScript also one that is
\* too short for a type (its missing byte counts as zero).
GetsOther ==
  /\ Waits /\ Reads
  /\ Message.type \in {"init", "ping", "other"} \cup (IF client = "js" THEN {"short"} ELSE {})
  /\ pc' = "recv"
  /\ UNCHANGED <<wrote, chunks, results>>

\* Recv: "read too small".
GoGetsShort ==
  /\ client = "go" /\ Waits /\ Reads /\ Message.type = "short"
  /\ Ends(Asked, FALSE, <<>>)
  /\ UNCHANGED wrote

\* A mutant that waits on at the end of the connection.
MutReadEnds == FALSE /\ UNCHANGED bindingVars

\* The connection ended: Go has read all that had arrived; a JavaScript read
\* is rejected, or throws between header and body, whatever is in the queue.
ReadEnds ==
  /\ Waits /\ ~up /\ (client = "go" => read = arrived)
  /\ Ends(Asked, FALSE, <<>>)
  /\ UNCHANGED <<read, wrote>>

BindingRuns ==
  \/ BindingConnect \/ GoGreet \/ GoHear \/ JsHear \/ JsGreet
  \/ GoRpc \/ JsRpc \/ JsRecv
  \/ GetsContinues \/ GetsTerm \/ GetsOther \/ GoGetsShort \/ ReadEnds

\* The caller makes no more calls.
BindingOver ==
  /\ pc = "over" \/ (pc = "idle" /\ Len(results) = MaxCalls)
  /\ UNCHANGED bindingVars

-----------------------------------------------------------------------------
(* Properties *)

\* A call that returns a reply returns the reply to its own request, from the
\* first part to the last, whatever came in between, as long as no earlier
\* call failed with its request written: the ids of requests are all alike,
\* so the parts such a call leaves unread are taken for the next one's.
RepliesMatch ==
  \A k \in DOMAIN results :
    (/\ results[k].ok
     /\ \A j \in 1..(k - 1) : results[j].ok \/ results[j].req = 0)
      => /\ results[k].parts = Numbers(ReplyTo(results[k].req))
         /\ Whole(ReplyTo(results[k].req))

\* A call returns, with the reply or an error, once the reply to its request
\* has arrived or the connection has ended.
RpcReturns ==
  \A k \in 1..MaxCalls :
    (/\ pc \in {"recv", "wait"} /\ Len(results) = k - 1 /\ client # "lnrpc"
     /\ (~up \/ (arrived = Len(sent) /\ Whole(ReplyTo(Asked)))))
      ~> (Len(results) >= k)
=============================================================================
