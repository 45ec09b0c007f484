------------------------------ MODULE Connect ------------------------------
(***************************************************************************)
(* One struct lnsocket through its calls of lnsocket_connect,              *)
(* lnsocket_connect_tor and lnsocket_write: lnsocket_connect_with,         *)
(* lnsocket_handshake_with_tor, and the handshake with the node dialled.   *)
(*                                                                         *)
(* A connect call makes a new socket (a connection, numbered), overwrites  *)
(* ln->socket with it, and may fail at every system call on the way.  No   *)
(* path closes a socket, and nothing resets the crypto state: it changes   *)
(* only in handshake_success.                                              *)
(*                                                                         *)
(* The write() of a failed connection is taken to return an error; that    *)
(* the process ignores SIGPIPE is left to the caller by the code.          *)
(***************************************************************************)
EXTENDS Handshake, Integers, FiniteSets

CONSTANTS
  NodeKey,      \* the static public key of the node dialled
  OtherKey,     \* that of a node that is not the one dialled
  OwnKey,       \* the static public key of ln->key
  None,         \* nothing sent or derived yet
  MaxConns,     \* bound: sockets made
  MaxWrites     \* bound: messages written

ASSUME ConnectAssumption ==
  /\ MaxConns \in Nat /\ MaxWrites \in Nat
  /\ Cardinality({NodeKey, OtherKey, OwnKey, NoKey, None}) = 5

Conn == 1..MaxConns
NoSocket == 0     \* ln->socket of a new struct lnsocket
BadSocket == -1   \* what socket() returns when it fails

VARIABLES
  key,      \* ln->key is not zero
  sock,     \* ln->socket
  hs,       \* ln->handshake
  tx, rx,   \* the two halves of ln->crypto_state
  pc,       \* "idle", or where lnsocket_connect_with waits
  tor,      \* the connection under way goes through a proxy
  torIn,    \* the bytes from the proxy that were not read yet
  ret,      \* what the last connect call returned: "none", "ok", "fail"
  why,      \* where it failed
  net,      \* what became of each connection
  dialled,  \* whether connect() to it reported success at once
  acts,     \* what was sent each way: [one, two, three]
  resp,     \* what the responder knows after act two
  peerKeys, \* the keys the responder ends with
  wire      \* history: every unit lnsocket_write sealed, and its socket

lnVars == <<key, sock, hs, tx, rx, pc, tor, torIn, ret, why>>
netVars == <<net, dialled, acts, resp, peerKeys, wire>>
vars == <<lnVars, netVars>>

\* A number from the kernel, for each socket, and generate_key's fresh keys.
Ephemeral(c) == <<"e", c>>
RespEphemeral(c) == <<"re", c>>

\* Sixteen bytes that are the tag of no act.
BadTag == EncryptAd(Zero, 0, <<>>, Zero)

\* What act one is made of on each socket, and how the node dialled answers.
Dialling(c) == ActOnePrep(NewHandshake(NodeKey), Ephemeral(c))
Answer(c) == RespondTwo(NodeKey, ActOne(Dialling(c)), RespEphemeral(c))

ASSUME NoneAssumption == \A c \in Conn : None # Answer(c)

\* lnsocket_create zeroes the struct: the keys are the 32 zero bytes.
ZeroHalf(side) == [n |-> 0, k |-> Root(side), ck |-> Root("zero ck")]

Init ==
  /\ key = FALSE /\ sock = NoSocket /\ hs = NewHandshake(NoKey)
  /\ tx = ZeroHalf("zero") /\ rx = ZeroHalf("zero")
  /\ pc = "idle" /\ tor = FALSE /\ torIn = <<>> /\ ret = "none" /\ why = "none"
  /\ net = [c \in Conn |-> "unused"] /\ dialled = [c \in Conn |-> FALSE]
  /\ acts = [c \in Conn |-> [one |-> None, two |-> None, three |-> None]]
  /\ resp = [c \in Conn |-> None] /\ peerKeys = [c \in Conn |-> None]
  /\ wire = <<>>

Unused == {c \in Conn : net[c] = "unused"}
NextConn == CHOOSE c \in Unused : \A d \in Unused : c <= d

-----------------------------------------------------------------------------
(* lnsocket_connect_with *)

Returns(result, reason) == pc' = "idle" /\ ret' = result /\ why' = reason
Fails(reason) == Returns("fail", reason)

\* lnsocket_genkey, or lnsocket_setkey with a key that has a public key.
SetKey ==
  /\ pc = "idle" /\ ~key
  /\ key' = TRUE
  /\ UNCHANGED <<sock, hs, tx, rx, pc, tor, torIn, ret, why, netVars>>

\* A call that ends before it makes a socket.
ConnectRefused ==
  /\ pc = "idle"
  /\ \/ ~key /\ Fails("key not initialized")
     \/ key /\ Fails("failed to parse node id")
  /\ UNCHANGED <<key, sock, hs, tx, rx, tor, torIn, netVars>>

\* A mutant without the test of fcntl()'s result.
MutConnectNoSocket ==
  /\ pc = "idle" /\ key
  /\ sock' = BadSocket
  /\ pc' = "select"
  /\ UNCHANGED <<key, hs, tx, rx, tor, torIn, ret, why, netVars>>

\* socket() fails with -1, which the code takes for a socket until fcntl
\* refuses it.
ConnectNoSocket ==
  /\ pc = "idle" /\ key
  /\ sock' = BadSocket
  /\ Fails("failed setting socket to non-blocking")
  /\ UNCHANGED <<key, hs, tx, rx, tor, torIn, netVars>>

\* The name of the host does not resolve: the socket is left unconnected.
ConnectNoHost ==
  /\ pc = "idle" /\ key /\ Unused # {}
  /\ sock' = NextConn
  /\ net' = [net EXCEPT ![NextConn] = "dead"]
  /\ Fails("getaddrinfo")
  /\ UNCHANGED <<key, hs, tx, rx, tor, torIn, dialled, acts, resp, peerKeys, wire>>

\* A mutant that readies the counters for the session to come.
MutConnectCallResets(proxy) ==
  /\ pc = "idle" /\ key /\ Unused # {}
  /\ sock' = NextConn /\ tor' = proxy /\ torIn' = <<>>
  /\ net' = [net EXCEPT ![NextConn] = "syn"]
  /\ pc' = "select"
  /\ tx' = [tx EXCEPT !.n = 0] /\ rx' = [rx EXCEPT !.n = 0]
  /\ UNCHANGED <<key, hs, ret, why, dialled, acts, resp, peerKeys, wire>>

\* connect() on a non-blocking socket reports success at once or not; what
\* it reports is ignored, except that with a proxy success is a failure.
ConnectCall(proxy) ==
  /\ pc = "idle" /\ key /\ Unused # {}
  /\ LET c == NextConn
     IN  /\ sock' = c /\ tor' = proxy /\ torIn' = <<>>
         /\ \E now \in BOOLEAN :
              /\ dialled' = [dialled EXCEPT ![c] = now]
              /\ net' = [net EXCEPT ![c] = IF now THEN "up" ELSE "syn"]
              /\ \/ proxy /\ now /\ Fails("Failed to connect")
                 \/ /\ ~(proxy /\ now)
                    /\ pc' = "select" /\ UNCHANGED <<ret, why>>
  /\ UNCHANGED <<key, hs, tx, rx, acts, resp, peerKeys, wire>>

\* select() says that the socket is writable, be it connected or refused.
SelectReturns ==
  /\ pc = "select" /\ net[sock] # "syn"
  /\ pc' = IF tor THEN "greet" ELSE "act1"
  /\ UNCHANGED <<key, sock, hs, tx, rx, tor, torIn, ret, why, netVars>>

SelectFails ==
  /\ pc = "select"
  /\ \/ net[sock] = "syn" /\ Fails("connection timeout")
     \/ Fails("select error")
  /\ UNCHANGED <<key, sock, hs, tx, rx, tor, torIn, netVars>>

-----------------------------------------------------------------------------
(* lnsocket_handshake_with_tor *)

SocksError == 255
Greeting(method) == <<5, method>>
Reply(status, typ) ==
  <<5, status, 0, typ>> \o [i \in 1..(IF typ = 4 THEN 18 ELSE 6) |-> 1]

\* One read() for the two bytes of the greeting.  A result of -1 passes for
\* success, and a byte that was not read may be anything.
TorGreet ==
  /\ pc = "greet"
  /\ \/ net[sock] = "dead" /\ Fails("Failed writing request") /\ UNCHANGED torIn
     \/ net[sock] = "dead" /\ Fails("Failed reading header") /\ UNCHANGED torIn
     \/ \E method \in {0, SocksError}, done \in {-1, 1, 2}, junk \in {0, SocksError} :
          LET hdr1 == IF done = 2 THEN method ELSE junk
          IN  /\ done = -1 <=> net[sock] = "dead"
              /\ torIn' = IF done = 2 THEN <<>>
                          ELSE IF done = 1 THEN <<method>> ELSE torIn
              /\ \/ hdr1 = SocksError /\ Fails("Failed proxy authentication required")
                 \/ hdr1 # SocksError /\ pc' = "reply" /\ UNCHANGED <<ret, why>>
  /\ UNCHANGED <<key, sock, hs, tx, rx, tor, netVars>>

\* A mutant that reads only the first four bytes of the answer.
MutTorReply ==
  /\ pc = "reply"
  /\ \/ net[sock] = "dead" /\ Fails("Failed reading inbuffer") /\ UNCHANGED torIn
     \/ \E status \in {0, 5}, typ \in {1, 4} :
          LET in == torIn \o Reply(status, typ)
          IN  /\ net[sock] = "up"
              /\ torIn' = SubSeq(in, 5, Len(in))
              /\ \/ in[2] # 0 /\ Fails("Failed proxy connection")
                 \/ in[2] = 0 /\ pc' = "act1" /\ UNCHANGED <<ret, why>>
  /\ UNCHANGED <<key, sock, hs, tx, rx, tor, netVars>>

\* The ten bytes of the answer, read by read_all, and what is left unread.
TorReply ==
  /\ pc = "reply"
  /\ \/ net[sock] = "dead" /\ Fails("Failed reading inbuffer") /\ UNCHANGED torIn
     \/ \E status \in {0, 5}, typ \in {1, 4} :
          LET in == torIn \o Reply(status, typ)
          IN  /\ net[sock] = "up"
              /\ torIn' = SubSeq(in, 11, Len(in))
              /\ \/ in[2] # 0 /\ Fails("Failed proxy connection")
                 \/ in[2] = 0 /\ in[4] # 1 /\ Fails("Failed only ipv4 supported")
                 \/ in[2] = 0 /\ in[4] = 1 /\ pc' = "act1" /\ UNCHANGED <<ret, why>>
  /\ UNCHANGED <<key, sock, hs, tx, rx, tor, netVars>>

-----------------------------------------------------------------------------
(* act_one_initiator and act_two_initiator *)

SendActOne ==
  /\ pc = "act1"
  /\ LET hs1 == Dialling(sock)
     IN  /\ hs' = AfterActOne(hs1)
         /\ \/ /\ net[sock] = "up"
               /\ acts' = [acts EXCEPT ![sock].one = ActOne(hs1)]
               /\ pc' = "act2" /\ UNCHANGED <<ret, why>>
            \/ /\ net[sock] = "dead"
               /\ Fails("handshake failed on initial send") /\ UNCHANGED acts
  /\ UNCHANGED <<key, sock, tx, rx, tor, torIn, net, dialled, resp, peerKeys, wire>>

\* A mutant that reads again when read() returned nothing.
MutActTwoRetries ==
  /\ pc = "act2"
  /\ acts[sock].two # None /\ Fails("short read of act two")
  /\ UNCHANGED <<key, sock, hs, tx, rx, tor, torIn, netVars>>

\* One read() for act two: short when only part of it has arrived, and 0 or
\* -1 when the connection is gone.
ActTwoReadFails ==
  /\ pc = "act2"
  /\ \/ acts[sock].two # None /\ Fails("short read of act two")
     \/ net[sock] = "dead" /\ Fails("no act two")
  /\ UNCHANGED <<key, sock, hs, tx, rx, tor, torIn, netVars>>

ActTwoRefused ==
  /\ pc = "act2" /\ acts[sock].two # None
  /\ LET act2 == acts[sock].two
         hs2  == ActTwoMix(hs, act2)
     IN  \/ /\ ~ActTwoParses(act2)
            /\ hs' = hs
         \/ /\ ActTwoParses(act2) /\ ~ActTwoOpens(hs2, act2)
            /\ hs' = hs2
  /\ Fails("act two refused")
  /\ UNCHANGED <<key, sock, tx, rx, tor, torIn, netVars>>

\* Act two opens: act three is built, handshake_success sets the crypto
\* state, and then act three is written, or not.
ActTwoThree ==
  /\ pc = "act2" /\ acts[sock].two # None
  /\ LET act2 == acts[sock].two
         hs2  == ActTwoMix(hs, act2)
         hs3  == AfterActTwo(hs2, act2)
     IN  /\ ActTwoParses(act2) /\ ActTwoOpens(hs2, act2)
         /\ hs' = AfterActThree(hs3, OwnKey)
         /\ tx' = SuccessSend(hs') /\ rx' = SuccessRecv(hs')
         /\ \/ /\ acts' = [acts EXCEPT ![sock].three = ActThree(hs3, OwnKey)]
               /\ Returns("ok", "none")
            \/ /\ net[sock] = "dead"
               /\ Fails("handshake failed on initial send") /\ UNCHANGED acts
  /\ UNCHANGED <<key, sock, tor, torIn, net, dialled, resp, peerKeys, wire>>

-----------------------------------------------------------------------------
(* lnsocket_write: the only test of a connection is that ln->socket is not 0 *)

Write ==
  /\ pc = "idle" /\ Len(wire) < 2 * MaxWrites
  /\ sock # NoSocket
  /\ wire' = wire \o << [sock |-> sock, k |-> tx.k, n |-> tx.n],
                        [sock |-> sock, k |-> tx.k, n |-> tx.n + 1] >>
  /\ tx' = AfterEncryptMsg(tx)
  /\ UNCHANGED <<key, sock, hs, rx, pc, tor, torIn, ret, why,
                 net, dialled, acts, resp, peerKeys>>

-----------------------------------------------------------------------------
(* The network and the node at the other end *)

NetSettles(c) ==
  /\ net[c] = "syn"
  /\ \E s \in {"up", "dead"} : net' = [net EXCEPT ![c] = s]
  /\ UNCHANGED <<lnVars, dialled, acts, resp, peerKeys, wire>>

NetBreaks(c) ==
  /\ net[c] = "up"
  /\ net' = [net EXCEPT ![c] = "dead"]
  /\ UNCHANGED <<lnVars, dialled, acts, resp, peerKeys, wire>>

\* The node answers act one if it opens under its own static key.  Another
\* node cannot open it, and may answer with anything.
RespondHonest(c) ==
  /\ net[c] = "up" /\ acts[c].one # None /\ acts[c].two = None
  /\ AcceptsOne(NodeKey, acts[c].one)
  /\ LET r == RespondTwo(NodeKey, acts[c].one, RespEphemeral(c))
     IN  /\ resp' = [resp EXCEPT ![c] = r]
         /\ acts' = [acts EXCEPT ![c].two = r.act2]
  /\ UNCHANGED <<lnVars, net, dialled, peerKeys, wire>>

RespondOther(c) ==
  /\ net[c] = "up" /\ acts[c].one # None /\ acts[c].two = None
  /\ \E two \in {[v |-> 1, pubkey |-> OtherKey, tag |-> BadTag],
                 [v |-> 0, pubkey |-> NoKey, tag |-> BadTag],
                 RespondTwo(OtherKey, acts[c].one, RespEphemeral(c)).act2} :
       acts' = [acts EXCEPT ![c].two = two]
  /\ UNCHANGED <<lnVars, net, dialled, resp, peerKeys, wire>>

Finish(c) ==
  /\ net[c] = "up" /\ resp[c] # None /\ acts[c].three # None /\ peerKeys[c] = None
  /\ AcceptsThree(resp[c], acts[c].three, OwnKey)
  /\ peerKeys' = [peerKeys EXCEPT ![c] = ResponderKeys(resp[c], OwnKey)]
  /\ UNCHANGED <<lnVars, net, dialled, acts, resp, wire>>

-----------------------------------------------------------------------------
Client ==
  \/ SelectReturns \/ SelectFails \/ TorGreet \/ TorReply
  \/ SendActOne \/ ActTwoReadFails \/ ActTwoRefused \/ ActTwoThree

Next ==
  \/ SetKey \/ ConnectRefused \/ ConnectNoSocket \/ ConnectNoHost
  \/ \E proxy \in BOOLEAN : ConnectCall(proxy)
  \/ Client \/ Write
  \/ \E c \in Conn : \/ NetSettles(c) \/ NetBreaks(c)
                     \/ RespondHonest(c) \/ RespondOther(c) \/ Finish(c)

\* A call goes on when the system call it waits for returns.
Fairness == WF_vars(Client)

Spec == Init /\ [][Next]_vars /\ Fairness

-----------------------------------------------------------------------------
(* Properties *)

\* Types of the variables; a call that waits has a socket to wait on.
TypeOK ==
  /\ key \in BOOLEAN /\ tor \in BOOLEAN /\ sock \in Conn \cup {NoSocket, BadSocket}
  /\ pc \in {"idle", "select", "greet", "reply", "act1", "act2"}
  /\ pc # "idle" => sock \in Conn
  /\ ret \in {"none", "ok", "fail"} /\ torIn \in Seq(0..255)
  /\ net \in [Conn -> {"unused", "syn", "up", "dead"}]
  /\ tx.n \in Nat /\ rx.n \in Nat

\* A half that received n messages: a header and a body each.
AfterMessages(h, n) ==
  LET half[i \in 0..n] ==
        IF i = 0 THEN h ELSE AfterDecryptBody(AfterDecryptHeader(half[i - 1]), TRUE)
  IN  half[n]
WrittenOn(c) == {i \in DOMAIN wire : wire[i].sock = c}

\* When the handshake on the current socket was finished, the node whose key
\* was dialled, and no other, answered on it, it accepts the act three that was
\* sent, and the two ends hold the same keys, each the other way round: to
\* write with, the keys the node has when it has received the messages written
\* on this socket, however often the keys were rotated since, and whatever was
\* written on the sockets before it.
SessionAgrees ==
  sock \in Conn /\ acts[sock].three # None =>
    /\ resp[sock] # None
    /\ AcceptsThree(resp[sock], acts[sock].three, OwnKey)
    /\ LET peer == ResponderKeys(resp[sock], OwnKey)
       IN  /\ tx = AfterMessages([n |-> 0, k |-> peer.recv, ck |-> peer.ck],
                                 Cardinality(WrittenOn(sock)) \div 2)
           /\ rx = [n |-> 0, k |-> peer.send, ck |-> peer.ck]
           /\ peerKeys[sock] \in {None, peer}

\* Whatever sequence of connects and writes, failed ones included, the
\* struct goes through, no two units are sealed with one key and nonce: stale
\* keys are used on, but their counters are never set back.
NoncesApartAcrossConnects ==
  \A i, j \in DOMAIN wire :
    wire[i].k = wire[j].k /\ wire[i].n = wire[j].n => i = j

\* A Tor exchange that is taken for a success consumed all of the proxy's
\* bytes: none of them is read as act two.
TorDrained == pc \in {"act1", "act2"} => torIn = <<>>

\* A connect call that has its act two, or has lost its connection, returns.
ConnectReturns ==
  (pc # "idle" /\ (net[sock] = "dead" \/ acts[sock].two # None)) ~> pc = "idle"

\* lnsocket_write refuses with "not connected" (lnsocket.c:507) unless the
\* handshake on the current socket was finished.
WritesNeedSession ==
  \A i \in DOMAIN wire : /\ wire[i].sock \in Conn
                         /\ acts[wire[i].sock].three # None

\* With the dialled node answering on a connection that is still up, a call
\* that is over has finished the handshake: act two is read as "_exactly_ 50
\* bytes" (handshake.c:447).
AnsweredConnects ==
  pc = "idle" /\ sock \in Conn /\ net[sock] = "up" /\ resp[sock] # None =>
    acts[sock].three # None

\* "Failed to connect" (lnsocket.c:714) is reported when connect() failed.
FailedToConnectIsTrue == why = "Failed to connect" => ~dialled[sock]
=============================================================================
