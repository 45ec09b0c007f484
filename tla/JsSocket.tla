------------------------------ MODULE JsSocket ------------------------------
(***************************************************************************)
(* The receiving side of one LNSocket of lnsocket_lib.js: the queue that   *)
(* socket events fill and the polling timers of queue_recv empty, the      *)
(* asynchronous calls connect and read that wait on it, and the flags      *)
(* connected and ws.                                                       *)
(*                                                                         *)
(* JavaScript runs one callback at a time, and the continuations a         *)
(* callback makes ready run before the next one, so an action is a         *)
(* callback with its continuations.  In a browser the data of an event is  *)
(* a promise (Blob.arrayBuffer), which is fulfilled in a callback of its   *)
(* own: with blobs, a call takes it from the queue and goes on later (as   *)
(* it does here, though not in the code, with the rest of such a chunk).   *)
(*                                                                         *)
(* The bytes of socket c are numbered; a chunk is a range of them.  The    *)
(* struct lnsocket behind the object is CryptoMsg's receiving half, rx,    *)
(* and the socket whose act one its handshake holds, hs.  The key is set.  *)
(* (Under Node a socket that is refused raises an error event that nothing *)
(* listens to, which ends the process; in a browser it is closed.)         *)
(***************************************************************************)
EXTENDS CryptoMsg, Lists, SequencesExt

CONSTANTS
  Caller,      \* calls: those of a setup may be under way at the same time
  ActTwoSize,  \* bytes of act two: 50
  Msg, NotMsg, \* messages, and what a header holds instead of one
  MsgLen,      \* the lengths of messages, in [Msg -> Nat \ {0}]
  MaxConns,    \* bound: sockets made, at most
  Setups       \* the situations to look at, one per behaviour

\* A message starts with its type, so none is empty (and a key is not used up).
ASSUME JsAssumption ==
  /\ ActTwoSize \in Nat \ {0} /\ MsgLen \in [Msg -> Nat \ {0}] /\ NotMsg \notin Msg
  /\ MaxConns \in Nat
  /\ \A s \in Setups :
       /\ s.callers \subseteq Caller      \* who calls
       /\ s.blobs \in BOOLEAN            \* data events carry promises: browsers
       /\ s.pieces \subseteq Nat \ {0}   \* bound: sizes of events short of all
       /\ s.conns \in 0..MaxConns        \* bound: sockets made
       /\ s.msgs \subseteq Msg           \* bound: what the peer sends
       /\ s.sends \in Nat /\ 2 * s.sends < RotateAt  \* bound: how often, on a socket

Conn == 1..MaxConns
NoConn == 0

VARIABLES
  setup,      \* the situation
  queue,      \* this.queue
  connected,  \* this.connected
  ws,         \* this.ws
  hs, rx,     \* this.ln: the handshake under way, and rn, rk, r_ck
  task,       \* what each caller waits for
  conn,       \* the sockets and what happens at their other end
  units,      \* the sealed units the peer sends on each socket
  got         \* history: the messages read() returned

vars == <<setup, queue, connected, ws, hs, rx, task, conn, units, got>>

\* A call that waits: in connect for the socket to open (pc = "open", socket
\* on), or in read_all for want more bytes, with those it has in chunks;
\* held is the promise it took from the queue.
Waiting(pc, want, on) ==
  [pc |-> pc, want |-> want, chunks |-> <<>>, held |-> <<>>, on |-> on]
Idle == Waiting("idle", 0, NoConn)

\* read_all either waits for n bytes or throws "read_all: not connected".
ReadAll(pc, n) == IF connected THEN Waiting(pc, n, NoConn) ELSE Idle

SessionRx(c) ==
  [n |-> 0, k |-> Root(<<"rk", c>>), ck |-> Root(<<"ck", c>>)]

Init ==
  /\ setup \in Setups
  /\ queue = <<>> /\ connected = FALSE /\ ws = NoConn
  /\ hs = NoConn /\ rx = SessionRx(NoConn)
  /\ task = [r \in Caller |-> Idle]
  /\ conn = [c \in Conn |-> [st |-> "unused", act1 |-> FALSE, ready |-> FALSE,
                             sent |-> 0, arrived |-> 0]]
  /\ units = [c \in Conn |-> <<>>]
  /\ got = <<>>

-----------------------------------------------------------------------------
(* connect, up to the open event *)

Unused == {c \in 1..setup.conns : conn[c].st = "unused"}

\* handle_connect: a new socket with its listeners, and a timer.
Connect(r) ==
  /\ task[r] = Idle /\ Unused # {}
  /\ LET c == CHOOSE c \in Unused : \A d \in Unused : c <= d
     IN  /\ conn' = [conn EXCEPT ![c].st = "new"]
         /\ task' = [task EXCEPT ![r] = Waiting("open", 0, c)]
  /\ UNCHANGED <<setup, queue, connected, ws, hs, rx, units, got>>

\* The open event makes the socket this.ws.  The call that waits for it, if
\* the timer has not ended it, sends act one and reads act two.
Open(c) ==
  /\ conn[c].st = "new"
  /\ ws' = c /\ connected' = TRUE
  /\ LET waiting == {r \in Caller : task[r].pc = "open" /\ task[r].on = c}
     IN  /\ conn' = [conn EXCEPT ![c].st = "open", ![c].act1 = waiting # {}]
         /\ hs' = IF waiting # {} THEN c ELSE hs
         /\ task' = [r \in Caller |-> IF r \in waiting
                                      THEN Waiting("act2", ActTwoSize, NoConn)
                                      ELSE task[r]]
  /\ UNCHANGED <<setup, queue, rx, units, got>>

\* The timer rejects the promise; the socket goes on connecting.
Timeout(r) ==
  /\ task[r].pc = "open"
  /\ task' = [task EXCEPT ![r] = Idle]
  /\ UNCHANGED <<setup, queue, connected, ws, hs, rx, conn, units, got>>

\* A mutant without the close listener.
MutClose(c) ==
  /\ conn[c].st \in {"new", "open", "closing"}
  /\ conn' = [conn EXCEPT ![c].st = "closed"]
  /\ UNCHANGED <<setup, queue, connected, ws, hs, rx, task, units, got>>

\* The close event, of whichever socket.
Close(c) ==
  /\ conn[c].st \in {"new", "open", "closing"}
  /\ conn' = [conn EXCEPT ![c].st = "closed"]
  /\ connected' = FALSE
  /\ UNCHANGED <<setup, queue, ws, hs, rx, task, units, got>>

Disconnect ==
  /\ connected /\ ws # NoConn /\ conn[ws].st = "open"
  /\ conn' = [conn EXCEPT ![ws].st = "closing"]
  /\ UNCHANGED <<setup, queue, connected, ws, hs, rx, task, units, got>>

-----------------------------------------------------------------------------
(* read_all: what a call does once it has all the bytes it waits for *)

Solid(pieces) ==
  \A i \in 1..(Len(pieces) - 1) :
    /\ pieces[i + 1].on = pieces[i].on
    /\ pieces[i + 1].at = pieces[i].at + pieces[i].size
Bytes(pieces) ==
  LET upto[i \in 0..Len(pieces)] == IF i = 0 THEN 0 ELSE upto[i - 1] + pieces[i].size
  IN  upto[Len(pieces)]

\* The units that the bytes read open as.
Hits(pieces) ==
  IF Solid(pieces)
  THEN Opens(rx, pieces[1].at, Bytes(pieces), units[pieces[1].on])
  ELSE {}

\* lnsocket_decrypt_header returns 0 for a header that does not open, which
\* read() takes for a size.  A body as short as a header may be opened as
\* one, and its bytes may spell any length.
SizesIn(hits) ==
  IF hits = {} THEN {0}
  ELSE UNION {IF u.head THEN {u.len} ELSE {MsgLen[m] : m \in Msg} : u \in hits}

HeaderRead(r, pieces) ==
  /\ task[r].pc = "hdr"
  /\ rx' = AfterDecryptHeader(rx)
  /\ \E size \in SizesIn(Hits(pieces)) :
       task' = [task EXCEPT ![r] = ReadAll("body", BodySize(size))]
  /\ UNCHANGED <<hs, conn, got>>

\* decrypt throws when the body does not open, and when it is empty.
BodyRead(r, pieces) ==
  /\ task[r].pc = "body"
  /\ LET hits == Hits(pieces)
     IN  /\ rx' = AfterDecryptBody(rx, hits # {})
         /\ \/ /\ hits = {} \/ Bytes(pieces) = Tag
               /\ UNCHANGED got
            \/ /\ Bytes(pieces) > Tag
               /\ \E u \in hits : got' = Append(got, u.plain)
  /\ task' = [task EXCEPT ![r] = Idle]
  /\ UNCHANGED <<hs, conn>>

\* Act two of the handshake under way sets the keys, and act three is sent on
\* this.ws.  Any other fifty bytes make act_two return null, after the
\* handshake state may have changed; connect resolves all the same.
ActTwoRead(r, pieces) ==
  /\ task[r].pc = "act2"
  /\ \/ /\ Solid(pieces) /\ pieces[1].on = hs /\ pieces[1].at = 0
        /\ rx' = SessionRx(hs) /\ hs' = NoConn
        /\ conn' = [conn EXCEPT ![ws].ready = @ \/ ws = hs]
     \/ /\ ~(Solid(pieces) /\ pieces[1].on = hs /\ pieces[1].at = 0)
        /\ hs' \in {hs, NoConn}
        /\ UNCHANGED <<rx, conn>>
  /\ task' = [task EXCEPT ![r] = Idle]
  /\ UNCHANGED got

Completes(r, pieces) ==
  HeaderRead(r, pieces) \/ BodyRead(r, pieces) \/ ActTwoRead(r, pieces)

-----------------------------------------------------------------------------
(* read_all: the loop *)

\* What is left of a chunk after its first n bytes.
Rest(chunk, n) == [chunk EXCEPT !.at = @ + n, !.size = @ - n]

\* Mutants of read_all: one that puts the rest of a chunk at the end of the
\* queue, one that puts it back when it is empty, and one that does not count.
MutQueueAfterPush(chunk, n, others) ==
  IF chunk.size > n THEN Append(others, Rest(chunk, n)) ELSE others
MutQueueAfterEmpty(chunk, n, others) ==
  IF chunk.size >= n THEN <<Rest(chunk, n)>> \o others ELSE others
MutRemaining(chunk, n) == n

\* A read_all that wants n more bytes took a chunk while others were in the
\* queue: the queue then, and what it still wants if the chunk was too small.
QueueAfter(chunk, n, others) ==
  IF chunk.size > n THEN <<Rest(chunk, n)>> \o others ELSE others
Remaining(chunk, n) == n - chunk.size

\* A call goes on with a chunk: it takes what it wants, puts the rest back in
\* front, and waits on if that was too little.
GoOn(r, chunk, others) ==
  LET n    == task[r].want
      have == Append(task[r].chunks, [chunk EXCEPT !.size = IF @ > n THEN n ELSE @])
  IN  /\ queue' = QueueAfter(chunk, n, others)
      /\ \/ chunk.size >= n /\ Completes(r, have)
         \/ /\ chunk.size < n
            /\ task' = [task EXCEPT ![r].chunks = have, ![r].held = <<>>,
                                    ![r].want = Remaining(chunk, n)]
            /\ UNCHANGED <<hs, rx, conn, got>>

Polls(r) == task[r].pc \in {"act2", "hdr", "body"} /\ task[r].held = <<>>

\* queue_recv's timer ticks and finds a chunk.
TickFinds(r) ==
  /\ Polls(r) /\ queue # <<>>
  /\ \/ ~setup.blobs /\ GoOn(r, Head(queue), Tail(queue))
     \/ /\ setup.blobs
        /\ task' = [task EXCEPT ![r].held = <<Head(queue)>>]
        /\ queue' = Tail(queue)
        /\ UNCHANGED <<hs, rx, conn, got>>
  /\ UNCHANGED <<setup, connected, ws, units>>

\* The promise that was in the queue is fulfilled.
Fulfilled(r) ==
  /\ task[r].held # <<>>
  /\ GoOn(r, Head(task[r].held), queue)
  /\ UNCHANGED <<setup, connected, ws, units>>

\* A mutant of queue_recv that waits on when the socket is closed.
MutTickRejects(r) == FALSE /\ UNCHANGED vars

\* The timer finds nothing, and the socket is closed: the call is rejected,
\* and the chunks it had are lost.
TickRejects(r) ==
  /\ Polls(r) /\ queue = <<>> /\ ~connected
  /\ task' = [task EXCEPT ![r] = Idle]
  /\ UNCHANGED <<setup, queue, connected, ws, hs, rx, conn, units, got>>

\* read(): while not connected it throws, and changes nothing.
CallRead(r) ==
  /\ task[r] = Idle
  /\ task' = [task EXCEPT ![r] = ReadAll("hdr", HdrSize)]
  /\ UNCHANGED <<setup, queue, connected, ws, hs, rx, conn, units, got>>

-----------------------------------------------------------------------------
(* The network and the peer *)

PeerActTwo(c) ==
  /\ conn[c].st = "open" /\ conn[c].act1 /\ conn[c].sent = 0
  /\ conn' = [conn EXCEPT ![c].sent = ActTwoSize]
  /\ UNCHANGED <<setup, queue, connected, ws, hs, rx, task, units, got>>

PeerSend(c, m) ==
  /\ conn[c].st = "open" /\ conn[c].ready /\ Len(units[c]) < 2 * setup.sends
  /\ units' = [units EXCEPT ![c] = @ \o
       EncryptMsg([SessionRx(c) EXCEPT !.n = Len(units[c])], conn[c].sent,
                  MsgLen[m], m, NotMsg, FrameSize(MsgLen[m]))]
  /\ conn' = [conn EXCEPT ![c].sent = @ + FrameSize(MsgLen[m])]
  /\ UNCHANGED <<setup, queue, connected, ws, hs, rx, task, got>>

\* A data event: some of the bytes under way are pushed on the queue.
Data(c) ==
  /\ conn[c].st = "open" /\ conn[c].arrived < conn[c].sent
  /\ \E n \in setup.pieces \cup {conn[c].sent - conn[c].arrived} :
       /\ n <= conn[c].sent - conn[c].arrived
       /\ queue' = Append(queue, [on |-> c, at |-> conn[c].arrived, size |-> n])
       /\ conn' = [conn EXCEPT ![c].arrived = @ + n]
  /\ UNCHANGED <<setup, connected, ws, hs, rx, task, units, got>>

-----------------------------------------------------------------------------
Runs(r) == TickFinds(r) \/ Fulfilled(r) \/ TickRejects(r) \/ Timeout(r)

Next ==
  \/ \E r \in setup.callers : Connect(r) \/ CallRead(r) \/ Runs(r)
  \/ \E c \in Conn : \/ Open(c) \/ Close(c) \/ PeerActTwo(c) \/ Data(c)
                     \/ \E m \in setup.msgs : PeerSend(c, m)
  \/ Disconnect

\* Timers fire, and the promises of the browser are fulfilled.
Fairness == \A r \in Caller : WF_vars(Runs(r))

Spec == Init /\ [][Next]_vars /\ Fairness

-----------------------------------------------------------------------------
(* Properties *)

ChunksOf(c) == [on : {c}, at : Nat, size : Nat \ {0}]
Chunk == [on : Conn, at : Nat, size : Nat \ {0}]

\* Types of the variables: no chunk in the queue or in a call is empty (an
\* empty one would never end a read_all), and a call that polls wants bytes.
TypeOK ==
  /\ setup \in Setups
  /\ queue \in Seq(Chunk)
  /\ connected \in BOOLEAN /\ ws \in Conn \cup {NoConn} /\ hs \in Conn \cup {NoConn}
  /\ \A r \in Caller :
       /\ task[r].pc \in {"idle", "open", "act2", "hdr", "body"}
       /\ task[r].want > 0 <=> task[r].pc \in {"act2", "hdr", "body"}
       /\ task[r].chunks \in Seq(Chunk)
  /\ \A c \in Conn : conn[c].arrived <= conn[c].sent
  /\ got \in Seq(Msg \cup {NotMsg})

\* One caller on one socket.
Alone == setup.conns = 1 /\ \E r \in Caller : setup.callers = {r}

\* One caller on one socket: what its reads return is a prefix of what the
\* peer sent, however the bytes are cut into events, whenever the socket
\* closes, and although the caller goes on after a read that failed.
ReadsInOrder ==
  Alone => IsPrefix(got, [i \in 1..(Len(units[1]) \div 2) |-> units[1][2 * i].plain])

\* The most messages a peer sends in any setup.
Sends == Max({s.sends : s \in Setups})

\* One caller on one socket: a read() whose message has arrived returns it,
\* unless the socket closes first.
ReadReturns ==
  \A n \in 1..Sends :
    (/\ Alone /\ \E r \in setup.callers : task[r].pc = "hdr"
     /\ Len(got) = n - 1
     /\ Len(units[1]) >= 2 * n
     /\ conn[1].arrived >= units[1][2 * n].at + units[1][2 * n].size)
      ~> (Len(got) >= n \/ ~connected)

\* Whatever calls read at the same time, or in a browser one call at a time,
\* the bytes of a socket that are in the queue are all those from some byte on,
\* in order: none was taken twice, skipped or put back in the wrong place.
\* (Of two calls that hold a chunk each, one may put its rest back too late.)
QueueKeepsOrder ==
  (setup.blobs => \E r \in Caller : setup.callers = {r}) =>
    \A c \in Conn :
      LET mine == Only(queue, ChunksOf(c))
      IN  /\ Solid(mine)
          /\ mine # <<>> => Last(mine).at + Last(mine).size = conn[c].arrived

\* Every call under way ends once every socket is closed.
CallsSettle ==
  \A r \in Caller :
    (task[r].pc # "idle" /\ \A c \in 1..setup.conns : conn[c].st = "closed")
      ~> task[r].pc = "idle"

\* However the events of several sockets interleave, connected is never true
\* of a socket that has closed.
ConnectedMeansOpen ==
  connected => ws # NoConn /\ conn[ws].st \in {"open", "closing"}

\* "read_all: not connected" (lnsocket_lib.js:244) is thrown only when the
\* socket in use is not open.
NotConnectedIsTrue ==
  ~connected /\ ws # NoConn => conn[ws].st # "open"
=============================================================================
