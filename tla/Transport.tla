----------------------------- MODULE Transport -----------------------------
(***************************************************************************)
(* A connected struct lnsocket and the node at the other end: the message  *)
(* layer of lnsocket.c (lnsocket_read, lnsocket_write, lnsocket_send) over *)
(* crypto.c, two TCP byte streams and a peer that follows BOLT #8.         *)
(*                                                                         *)
(* inb and out are the two streams, as the sequence of sealed units put in *)
(* them; inLen and outLen count their bytes, pos and outPos the bytes read *)
(* from them.  A call of the library is a sequence of steps because read() *)
(* returns what has arrived: lnsocket_read blocks in read_all for want     *)
(* more bytes, first of the header and then of the body.                   *)
(*                                                                         *)
(* The library is called from one thread, so nothing else is called while  *)
(* lnsocket_read blocks.  The caller may go on calling after a failure:    *)
(* nothing in the code stops it, and no call closes the socket.            *)
(***************************************************************************)
EXTENDS CryptoMsg, FiniteSets

CONSTANTS
  Msg,           \* messages
  NotMsg,        \* bytes that are no message anybody handed over
  MsgLen,        \* their lengths in bytes, in [Msg -> Nat]
  PeerMsgs,      \* the messages the peer may send
  WriteMsgs,     \* the messages the caller may pass to lnsocket_write
  SendMsgs,      \* those it may pass to lnsocket_send (type and payload)
  MsgBufMem,     \* bytes of ln->msgbuf: 131072
  LenMod,        \* values of an unsigned short: 65536
  MaxPeerSends,  \* bound: messages the peer sends
  MaxWrites,     \* bound: messages the caller hands over
  Chunks,        \* bound: sizes of a read() that returns less than arrived
  Cuts,          \* bound: sizes of a write() that wrote less than asked
  Lost           \* bound: bytes under way that are lost when it ends

ASSUME MsgAssumption ==
  /\ NotMsg \notin Msg
  /\ MsgLen \in [Msg -> Nat]
  /\ PeerMsgs \subseteq Msg /\ WriteMsgs \subseteq Msg /\ SendMsgs \subseteq Msg
  /\ \A m \in PeerMsgs \cup WriteMsgs : MsgLen[m] < LenMod

\* A mutant of cursor_malloc that never gives out the last byte.
MutFitsBelow(len) == BodySize(len) + len < MsgBufMem

\* Whether lnsocket_read has room in msgbuf for the ciphertext (enc) and
\* the plaintext (dec) of a message of length len.
Fits(len) == BodySize(len) + len <= MsgBufMem

\* Any message fits when it is to be written, and one that does not fit when
\* it is to be read is longer than all the length fields sealed under a key.
ASSUME BufAssumption ==
  /\ MsgBufMem \in Nat /\ LenMod \in Nat \ {0}
  /\ FrameSize(LenMod) <= MsgBufMem
  /\ Fits(RotateAt * LenSize)

ASSUME BoundAssumption ==
  /\ MaxPeerSends \in Nat /\ MaxWrites \in Nat
  /\ Chunks \subseteq Nat \ {0} /\ Cuts \subseteq Nat /\ Lost \subseteq Nat

VARIABLES
  \* the client: one struct lnsocket and the call it is in
  rx,        \* rn, rk, r_ck of ln->crypto_state
  tx,        \* sn, sk, s_ck of ln->crypto_state
  pc,        \* "idle", or where lnsocket_read blocks: "hdr" or "body"
  want,      \* the size still to be read by read_all
  size,      \* the size found in the header
  got,       \* history: every message lnsocket_read returned
  failed,    \* history: some call of lnsocket_read returned 0
  handed,    \* history: every message handed to a write or a send
  \* the network
  inb, inLen, pos,
  out, outLen, outPos,
  closed,    \* the peer's end is closed: nothing more arrives
  \* the peer
  ptx, prx,  \* its crypto state, to send and to receive
  peerGot    \* history: every message it accepted

clientVars == <<rx, tx, pc, want, size, got, failed, handed>>
inVars     == <<inb, inLen, pos, closed>>
outVars    == <<out, outLen, outPos>>
peerVars   == <<ptx, prx, peerGot>>
vars       == <<clientVars, inVars, outVars, peerVars>>

\* The messages sealed in a stream: every second unit is a body.
Bodies(units) == [i \in 1..(Len(units) \div 2) |-> units[2 * i].plain]

-----------------------------------------------------------------------------
(* lnsocket_read *)

\* lnsocket_read gives up with 0.  What it has read and what it has done to
\* the crypto state stay as they are.
ReadFails ==
  /\ pc' = "idle" /\ want' = 0 /\ size' = 0
  /\ failed' = TRUE

ReadCall ==
  /\ pc = "idle"
  /\ pc' = "hdr" /\ want' = HdrSize
  /\ UNCHANGED <<rx, tx, size, got, failed, handed, inVars, outVars, peerVars>>

\* Mutants of read_all: a read() of more than is wanted, and a read_all that
\* starts over after a short read().
MutReadPartOverruns ==
  /\ pc # "idle" /\ pos < inLen
  /\ pos' = inLen
  /\ want' = want - (inLen - pos)
  /\ UNCHANGED <<rx, tx, pc, size, got, failed, handed,
                 inb, inLen, closed, outVars, peerVars>>
MutReadPartForgets ==
  /\ pc # "idle" /\ pos < inLen
  /\ \E done \in Chunks \cup {inLen - pos} :
       /\ done < want /\ done <= inLen - pos
       /\ pos' = pos + done
  /\ UNCHANGED <<rx, tx, pc, want, size, got, failed, handed,
                 inb, inLen, closed, outVars, peerVars>>

\* read() returns some of the bytes read_all still wants, or all there are.
ReadPart ==
  /\ pc # "idle" /\ pos < inLen
  /\ \E done \in Chunks \cup {inLen - pos} :
       /\ done < want /\ done <= inLen - pos
       /\ pos' = pos + done
       /\ want' = want - done
  /\ UNCHANGED <<rx, tx, pc, size, got, failed, handed,
                 inb, inLen, closed, outVars, peerVars>>

\* The lengths that the LenSize plaintext bytes of a unit may spell: bytes
\* of a body of that size may spell any.
LengthsIn(u) ==
  IF u.head THEN {u.len} ELSE {MsgLen[m] : m \in PeerMsgs}

\* A mutant of lnsocket_read that reads past a message it has no room for, and
\* goes on with the next one.
MutReadHeaderSkips ==
  /\ pc = "hdr" /\ want <= inLen - pos
  /\ \E u \in Opens(rx, pos + want - HdrSize, HdrSize, inb) :
       \/ /\ Fits(u.len)
          /\ pos' = pos + want /\ rx' = AfterDecryptHeader(rx)
          /\ pc' = "body" /\ size' = u.len /\ want' = BodySize(u.len)
       \/ /\ ~Fits(u.len)
          /\ pos' = pos + want + BodySize(u.len) /\ pos' <= inLen
          /\ rx' = AfterDecryptBody(AfterDecryptHeader(rx), TRUE)
          /\ want' = HdrSize /\ UNCHANGED <<pc, size>>
  /\ UNCHANGED <<tx, failed, got, handed, inb, inLen, closed, outVars, peerVars>>

\* The last bytes of the header arrive: it is decrypted, and msgbuf is cut
\* into enc and dec, or is too small for them.
ReadHeader ==
  /\ pc = "hdr" /\ want <= inLen - pos
  /\ pos' = pos + want
  /\ rx' = AfterDecryptHeader(rx)
  /\ LET hits == Opens(rx, pos' - HdrSize, HdrSize, inb)
     IN  \/ /\ hits = {}
            /\ ReadFails
         \/ \E u \in hits : \E len \in LengthsIn(u) :
              \/ ~Fits(len) /\ ReadFails
              \/ /\ Fits(len)
                 /\ pc' = "body" /\ size' = len /\ want' = BodySize(len)
                 /\ UNCHANGED failed
  /\ UNCHANGED <<tx, got, handed, inb, inLen, closed, outVars, peerVars>>

\* The last bytes of the body arrive: it is decrypted and returned.
ReadBody ==
  /\ pc = "body" /\ want <= inLen - pos
  /\ pos' = pos + want
  /\ LET hits == Opens(rx, pos' - BodySize(size), BodySize(size), inb)
     IN  /\ rx' = AfterDecryptBody(rx, hits # {})
         /\ \/ /\ hits = {}
               /\ ReadFails
               /\ UNCHANGED got
            \/ \E u \in hits :
                 /\ got' = Append(got, u.plain)
                 /\ pc' = "idle" /\ want' = 0 /\ size' = 0
                 /\ UNCHANGED failed
  /\ UNCHANGED <<tx, handed, inb, inLen, closed, outVars, peerVars>>

\* A mutant of read_all on a socket that was left non-blocking.
MutReadWouldBlock ==
  /\ pc # "idle" /\ pos = inLen
  /\ ReadFails
  /\ UNCHANGED <<rx, tx, got, handed, inVars, outVars, peerVars>>

\* read() returns 0 or an error, which it does once the peer's end is closed
\* and what arrived has been read; on EINTR read_all tries again.
ReadEof ==
  /\ pc # "idle" /\ closed /\ pos = inLen
  /\ ReadFails
  /\ UNCHANGED <<rx, tx, got, handed, inVars, outVars, peerVars>>

-----------------------------------------------------------------------------
(* lnsocket_write and lnsocket_send *)

\* A mutant of lnsocket_write that takes the nonces back when write() fails.
MutWriteTakesBack(len, plain) ==
  \E wrote \in Cuts \cup {FrameSize(len)} :
    /\ wrote <= FrameSize(len)
    /\ out' = out \o EncryptMsg(tx, outLen, len, plain, NotMsg, wrote)
    /\ outLen' = outLen + wrote
    /\ tx' = IF wrote = FrameSize(len) THEN AfterEncryptMsg(tx) ELSE tx

\* lnsocket_write of len bytes that hold plain: the whole message is sealed
\* into msgbuf, and one write() takes wrote bytes of it.  A short write is
\* reported, and sn stays advanced.
WriteSealed(len, plain) ==
  \E wrote \in Cuts \cup {FrameSize(len)} :
    /\ wrote <= FrameSize(len)
    /\ out' = out \o EncryptMsg(tx, outLen, len, plain, NotMsg, wrote)
    /\ outLen' = outLen + wrote
    /\ tx' = AfterEncryptMsg(tx)

Write(m) ==
  /\ pc = "idle" /\ Len(handed) < MaxWrites
  /\ WriteSealed(MsgLen[m], m)
  /\ handed' = Append(handed, m)
  /\ UNCHANGED <<rx, pc, want, size, got, failed, outPos, inVars, peerVars>>

\* lnsocket_send builds the message at the start of msgbuf and passes it to
\* lnsocket_write, whose msglen is an unsigned short and which seals into the
\* start of msgbuf: the header overwrites the message before it is sealed.
Send(m) ==
  /\ pc = "idle" /\ Len(handed) < MaxWrites
  /\ WriteSealed(MsgLen[m] % LenMod, NotMsg)
  /\ handed' = Append(handed, m)
  /\ UNCHANGED <<rx, pc, want, size, got, failed, outPos, inVars, peerVars>>

-----------------------------------------------------------------------------
(* The peer and the network, which are not part of the repository *)

\* BOLT #8: a half of the peer's crypto state after one more unit.
PeerStep(h) ==
  IF h.n + 1 = RotateAt
  THEN LET okm == HkdfTwoKeys(h.ck, h.k)
       IN  [n |-> 0, k |-> okm.out2, ck |-> okm.out1]
  ELSE [h EXCEPT !.n = @ + 1]

PeerSend(m) ==
  /\ ~closed /\ Len(inb) < 2 * MaxPeerSends
  /\ LET len == MsgLen[m]
         ptx1 == PeerStep(ptx)
     IN  /\ inb' = inb \o
              << Unit(inLen, HdrSize, ptx.k, ptx.n, TRUE, len, NotMsg, TRUE),
                 Unit(inLen + HdrSize, BodySize(len), ptx1.k, ptx1.n, FALSE,
                      len, m, TRUE) >>
         /\ inLen' = inLen + FrameSize(len)
         /\ ptx' = PeerStep(ptx1)
  /\ UNCHANGED <<clientVars, pos, closed, outVars, prx, peerGot>>

\* The connection ends: the peer closes it or crashes, or the network resets
\* it.  Of the bytes still under way the last may be lost.
HangUp ==
  /\ ~closed
  /\ closed' = TRUE
  /\ \E lost \in Lost \cup {0} :
       /\ lost <= inLen - pos
       /\ inLen' = inLen - lost
  /\ UNCHANGED <<inb, pos>>

PeerHangUp ==
  /\ HangUp
  /\ UNCHANGED <<clientVars, outVars, peerVars>>

\* The header and, when that opens, the body at outPos.
PeerHeaders == Opens(prx, outPos, HdrSize, out)
PeerBodies(len) ==
  Opens(PeerStep(prx), outPos + HdrSize, BodySize(len), out)

PeerReceive ==
  /\ ~closed
  /\ \E h \in PeerHeaders : \E b \in PeerBodies(h.len) :
       /\ peerGot' = Append(peerGot, b.plain)
       /\ outPos' = outPos + FrameSize(h.len)
       /\ prx' = PeerStep(PeerStep(prx))
  /\ UNCHANGED <<clientVars, inVars, out, outLen, ptx>>

\* A header or a body does not open: the peer hangs up.
PeerReject ==
  /\ \/ PeerHeaders = {} /\ outLen - outPos >= HdrSize
     \/ \E h \in PeerHeaders :
          PeerBodies(h.len) = {} /\ outLen - outPos >= FrameSize(h.len)
  /\ HangUp
  /\ UNCHANGED <<clientVars, outVars, peerVars>>

-----------------------------------------------------------------------------
Init ==
  /\ rx = HandshakeRecv /\ tx = HandshakeSend
  /\ pc = "idle" /\ want = 0 /\ size = 0
  /\ got = <<>> /\ failed = FALSE /\ handed = <<>>
  /\ inb = <<>> /\ inLen = 0 /\ pos = 0 /\ closed = FALSE
  /\ out = <<>> /\ outLen = 0 /\ outPos = 0
  /\ ptx = HandshakeRecv /\ prx = HandshakeSend /\ peerGot = <<>>

Reading == ReadPart \/ ReadHeader \/ ReadBody \/ ReadEof

Next ==
  \/ ReadCall \/ Reading
  \/ \E m \in WriteMsgs : Write(m)
  \/ \E m \in SendMsgs : Send(m)
  \/ \E m \in PeerMsgs : PeerSend(m)
  \/ PeerHangUp \/ PeerReceive \/ PeerReject

\* read() returns when there are bytes for it, or the stream has ended.
Fairness == WF_vars(Reading)

Spec == Init /\ [][Next]_vars /\ Fairness

-----------------------------------------------------------------------------
(* Properties *)

\* A half of a crypto state, and a sealed unit.
HalfOK(h) ==
  /\ h = [n |-> h.n, k |-> h.k, ck |-> h.ck]
  /\ h.n \in Nat /\ h.k.gen \in Nat

UnitOK(u) ==
  /\ u = Unit(u.at, u.size, u.k, u.n, u.head, u.len, u.plain, u.whole)
  /\ u.at \in Nat /\ u.size \in Nat /\ u.n \in Nat /\ u.len \in Nat
  /\ u.k.gen \in Nat
  /\ u.head \in BOOLEAN /\ u.whole \in BOOLEAN /\ u.plain \in Msg \cup {NotMsg}

\* The streams hold a header and a body for every message.
UnitsOK(units) ==
  /\ units = [i \in 1..Len(units) |-> units[i]]
  /\ Len(units) \in Nat
  /\ \A i \in 1..Len(units) : UnitOK(units[i])

\* The types of the variables (all of struct lnsocket's state that the
\* message layer keeps, and of the two streams).
TypeOK ==
  /\ HalfOK(rx) /\ HalfOK(tx) /\ HalfOK(ptx) /\ HalfOK(prx)
  /\ pc \in {"idle", "hdr", "body"} /\ want \in Nat /\ size \in Nat
  /\ got \in Seq(Msg \cup {NotMsg}) /\ failed \in BOOLEAN
  /\ handed \in Seq(Msg) /\ peerGot \in Seq(Msg \cup {NotMsg})
  /\ UnitsOK(inb) /\ inLen \in Nat /\ pos \in Nat /\ pos <= inLen
  /\ closed \in BOOLEAN
  /\ UnitsOK(out) /\ outLen \in Nat /\ outPos \in Nat

\* No key is ever used twice with one nonce, whatever the caller writes and
\* however write() fails: cryptomsg_encrypt_msg's counters and
\* maybe_rotate_key keep every sealed length and message apart.
NonceNeverReused ==
  \A i, j \in DOMAIN out :
    out[i].k = out[j].k /\ out[i].n = out[j].n => i = j

IsPrefixOf(s, t) == Len(s) <= Len(t) /\ \A i \in 1..Len(s) : s[i] = t[i]

\* What lnsocket_read returned is a prefix of what the peer sent: nothing
\* lost, repeated, reordered, made up or taken for something else.
ClientGotPrefix == IsPrefixOf(got, Bodies(inb))

\* What the peer accepts is a prefix of what the caller handed over, whatever
\* calls failed on the way: a message after one that was cut short by a
\* failed write() is never accepted in its place.
PeerGotPrefix == IsPrefixOf(peerGot, handed)

\* lnsocket_read fails only because the stream ended or a message did not fit
\* in msgbuf: in particular the two key schedules never come apart, through
\* any number of rotations.
FailureExplained ==
  failed => closed \/ \E i \in DOMAIN inb : ~Fits(inb[i].len)

\* With the code's numbers, a message is refused for its size only from 65529
\* bytes on: lnsocket_read's two slices of msgbuf (the ciphertext and the
\* plaintext) leave no room for the last seven lengths that BOLT #8 allows.
ReadLimit == failed => closed \/ \E i \in DOMAIN inb : inb[i].len >= 65529

\* Once lnsocket_read has returned 0, no later call returns a message: the
\* code has no flag for a broken connection, so this rests on the nonces and
\* the byte positions never meeting again.
FailStop == [][failed => got' = got]_vars

\* The messages of a stream as seen by the abstract channel, one way and the
\* other: the client reads from a fail-stop FIFO channel, and the peer does.
InChannel ==
  INSTANCE MessageChannel WITH Payload <- PeerMsgs, sent <- Bodies(inb),
                               got <- got, broken <- failed

OutChannel ==
  INSTANCE MessageChannel WITH Payload <- WriteMsgs \cup {NotMsg},
                               sent <- Bodies(out), got <- peerGot,
                               broken <- closed

InRefines == InChannel!ChanSpec
OutRefines == OutChannel!ChanSpec

\* A call of lnsocket_read whose message has arrived whole returns, however
\* read() cuts it into pieces; so does every call after the stream has ended.
Ahead == Len(Bodies(inb)) > Len(got)
WholeAhead ==
  /\ Ahead
  /\ LET b == inb[2 * Len(got) + 2] IN b.at + b.size <= inLen
ReadReturns == (pc # "idle" /\ (closed \/ (~failed /\ WholeAhead))) ~> pc = "idle"
=============================================================================
