------------------------------ MODULE RpcNode --------------------------------
(***************************************************************************)
(* The node that a client asks by commando messages, and the connection    *)
(* between them: what the clients LnRpc and BindingRpc share.              *)
(*                                                                         *)
(* Each direction is a fail-stop FIFO channel of messages (MessageChannel; *)
(* Transport shows that lnsocket_read and lnsocket_write make one).  What  *)
(* is kept of the bytes is whether some of the next message have arrived:  *)
(* select() returns for those, and lnsocket_recv waits for all of them.    *)
(***************************************************************************)
EXTENDS Wire, Lists, FiniteSets, SequencesExt

CONSTANTS
  RpcStrings,   \* lengths of a request's strings
  PingAsks,     \* values of num_pong_bytes in the node's pings
  MaxParts,     \* bound: messages of a reply
  MaxExtra      \* bound: other messages of the node

ASSUME NodeAssumption ==
  /\ RpcStrings \subseteq Nat /\ PingAsks \subseteq 0..MaxMessage
  /\ MaxParts \in Nat /\ MaxExtra \in Nat

VARIABLES
  client,   \* which client it is: "lnrpc", "go" or "js"
  pc,       \* where it is: what it does next
  read,     \* how many messages it read
  wrote,    \* what it handed to the connection: [type, len]
  sent,     \* what the node sent: [type, n, req]
  arrived,  \* how many of them have arrived whole
  part,     \* some bytes of the next have arrived
  up        \* the connection has not ended

nodeVars == <<sent, arrived, part, up>>

NodeStarts == sent = <<>> /\ arrived = 0 /\ part = FALSE /\ up = TRUE

-----------------------------------------------------------------------------
(* What a client does to the connection *)

\* A mutant of read_all that does not wait for all of a message.
MutReads ==
  /\ read < Len(sent)
  /\ read' = read + 1

\* A blocking read of the next message.
Reads ==
  /\ read < arrived
  /\ read' = read + 1
Message == sent[read + 1]

Written(type, len) == wrote' = Append(wrote, [type |-> type, len |-> len])

Sent(types, reqs) == [type : types, n : Nat, req : reqs]
Pieces == {"continues", "term"}

WroteOf(type) == Only(wrote, [type : {type}, len : Nat])
SentOf(types) == Only(sent, Sent(types, Nat))

\* The parts of the reply to a request.
ReplyTo(req) == Only(sent, Sent(Pieces, {req}))
Whole(reply) == reply # <<>> /\ Last(reply).type = "term"
Numbers(reply) == [i \in DOMAIN reply |-> <<reply[i].req, reply[i].n>>]

-----------------------------------------------------------------------------
(* The node and the network *)

Sends(type, n, req) ==
  up /\ sent' = Append(sent, [type |-> type, n |-> n, req |-> req])

NodeInit ==
  /\ pc # "connect" /\ sent = <<>>
  /\ Sends("init", 0, 0)
  /\ UNCHANGED <<arrived, part, up>>

\* Requests are answered in the order they came, each by numbered parts.
NodeReply ==
  /\ sent # <<>>
  /\ LET req == Len(SentOf({"term"})) + 1
         n   == Len(ReplyTo(req)) + 1
     IN  /\ req <= Len(WroteOf("rpc"))
         /\ \/ n < MaxParts /\ Sends("continues", n, req)
            \/ Sends("term", n, req)
  /\ UNCHANGED <<arrived, part, up>>

\* Only lnrpc answers pings, and only its select() sees part of a message.
Asks == IF client = "lnrpc" THEN PingAsks ELSE {0}

NodeExtra ==
  /\ sent # <<>> /\ Len(SentOf({"ping", "other", "short"})) < MaxExtra
  /\ \/ \E asked \in Asks : Sends("ping", asked, 0)
     \/ Sends("other", 0, 0)
     \/ Sends("short", 0, 0)
  /\ UNCHANGED <<arrived, part, up>>

ArriveSome ==
  /\ client = "lnrpc" /\ up /\ ~part /\ arrived < Len(sent)
  /\ part' = TRUE
  /\ UNCHANGED <<sent, arrived, up>>

ArriveWhole ==
  /\ up /\ arrived < Len(sent)
  /\ arrived' = arrived + 1 /\ part' = FALSE
  /\ UNCHANGED <<sent, up>>

\* What has not arrived is lost.
Breaks ==
  /\ up /\ pc # "connect"
  /\ up' = FALSE
  /\ UNCHANGED <<sent, arrived, part>>

Node == NodeInit \/ NodeReply \/ NodeExtra \/ ArriveSome \/ ArriveWhole \/ Breaks
=============================================================================
