------------------------------ MODULE JsProofs ------------------------------
(***************************************************************************)
(* Theorems about JsSocket, for any number of callers, sockets and         *)
(* messages, and however the bytes are cut into events.                    *)
(***************************************************************************)
EXTENDS JsSocket, CryptoProofs

-----------------------------------------------------------------------------
(* The invariant *)

Polling == {"act2", "hdr", "body"}

\* A call wants bytes exactly while it is in read_all, and holds a promise
\* of the queue at no other time.
TaskOK(t) ==
  /\ t \in [pc : {"idle", "open"} \cup Polling, want : Nat, chunks : Seq(Chunk),
            held : Seq(Chunk), on : Conn \cup {NoConn}]
  /\ t.want > 0 <=> t.pc \in Polling
  /\ t.held # <<>> => t.pc \in Polling

ConnOK(c) ==
  /\ c \in [st : {"unused", "new", "open", "closing", "closed"}, act1 : BOOLEAN,
            ready : BOOLEAN, sent : Nat, arrived : Nat]
  /\ c.arrived <= c.sent

\* A unit holds a message or none, and the length of one.
PlainOK(u) == u.len \in Nat /\ u.plain \in Msg \cup {NotMsg}
UnitsOK(s) ==
  /\ Len(s) \in Nat /\ s = [i \in 1..Len(s) |-> s[i]]
  /\ \A i \in 1..Len(s) : PlainOK(s[i])

TasksOK == task = [r \in Caller |-> task[r]] /\ \A r \in Caller : TaskOK(task[r])
ConnsOK == conn = [c \in Conn |-> conn[c]] /\ \A c \in Conn : ConnOK(conn[c])
StreamsOK == units = [c \in Conn |-> units[c]] /\ \A c \in Conn : UnitsOK(units[c])
FlagsOK ==
  /\ setup \in Setups /\ connected \in BOOLEAN
  /\ ws \in Conn \cup {NoConn} /\ hs \in Conn \cup {NoConn}

\* What Close and Open keep up between them: the socket in use is not closed
\* behind the flag's back, whichever other sockets close.
FlagTrue == connected => ws \in Conn /\ conn[ws].st \in {"open", "closing"}

JsInv ==
  /\ FlagsOK /\ TasksOK /\ ConnsOK /\ StreamsOK
  /\ queue \in Seq(Chunk) /\ got \in Seq(Msg \cup {NotMsg})
  /\ FlagTrue

-----------------------------------------------------------------------------
(* Calls that wait, and what they take from the queue *)

LEMMA ConnIsNat == Conn \subseteq Nat \ {0} /\ NoConn \notin Conn
BY JsAssumption DEF Conn, NoConn

LEMMA WaitingOK ==
  /\ TaskOK(Idle)
  /\ \A c \in Conn : TaskOK(Waiting("open", 0, c))
  /\ \A pc \in Polling, n \in Nat \ {0} : TaskOK(Waiting(pc, n, NoConn))
  /\ \A pc \in Polling, n \in Nat \ {0} : TaskOK(ReadAll(pc, n))
BY DEF TaskOK, Idle, Waiting, ReadAll, Polling

\* One task replaced.
LEMMA TaskSet ==
  ASSUME TasksOK, NEW r \in Caller, NEW t, TaskOK(t), task' = [task EXCEPT ![r] = t]
  PROVE  TasksOK'
BY DEF TasksOK

\* One connection replaced.
LEMMA ConnSet ==
  ASSUME ConnsOK, NEW c \in Conn, NEW k, ConnOK(k), conn' = [conn EXCEPT ![c] = k]
  PROVE  ConnsOK'
BY DEF ConnsOK

\* The units of hits are units of the peer.
LEMMA HitsOK ==
  ASSUME StreamsOK, NEW pieces, pieces \in Seq(Chunk), pieces # <<>>, NEW u \in Hits(pieces)
  PROVE  PlainOK(u)
<1>1. pieces[1] \in Chunk
  OBVIOUS
<1> DEFINE c == pieces[1].on
<1>2. c \in Conn
  BY <1>1 DEF Chunk
<1>3. u \in {units[c][i] : i \in DOMAIN units[c]}
  BY DEF Hits, Opens
<1>4. UnitsOK(units[c])
  BY <1>2 DEF StreamsOK
<1> HIDE DEF c
<1> QED BY <1>3, <1>4 DEF UnitsOK

LEMMA SizesOK ==
  ASSUME StreamsOK, NEW pieces, pieces \in Seq(Chunk), pieces # <<>>,
         NEW size \in SizesIn(Hits(pieces))
  PROVE  BodySize(size) \in Nat \ {0}
<1>1. size \in Nat
  <2>1. CASE Hits(pieces) = {}
    BY <2>1 DEF SizesIn
  <2>2. CASE Hits(pieces) # {}
    <3>1. PICK u \in Hits(pieces) :
            size \in IF u.head THEN {u.len} ELSE {MsgLen[m] : m \in Msg}
      BY <2>2 DEF SizesIn
    <3>2. u.len \in Nat
      BY HitsOK DEF PlainOK
    <3> QED BY <3>1, <3>2, JsAssumption
  <2> QED BY <2>1, <2>2
<1> QED BY <1>1, Sizes

\* read_all with all its bytes: whatever they turn out to be, the call ends or
\* goes on to wait for a body.
LEMMA CompletesOK ==
  ASSUME JsInv, NEW r \in Caller, NEW pieces, pieces \in Seq(Chunk), pieces # <<>>,
         Completes(r, pieces), UNCHANGED <<connected, ws>>
  PROVE  /\ TasksOK' /\ ConnsOK' /\ hs' \in Conn \cup {NoConn}
         /\ got' \in Seq(Msg \cup {NotMsg})
         /\ \A c \in Conn : conn'[c].st = conn[c].st
<1> USE DEF JsInv
<1>1. CASE HeaderRead(r, pieces)
  <2>1. PICK size \in SizesIn(Hits(pieces)) :
          task' = [task EXCEPT ![r] = ReadAll("body", BodySize(size))]
    BY <1>1 DEF HeaderRead
  <2>2. TaskOK(ReadAll("body", BodySize(size)))
    BY SizesOK, WaitingOK DEF Polling
  <2>3. TasksOK'
    BY <2>1, <2>2, TaskSet
  <2>4. UNCHANGED <<hs, conn, got>>
    BY <1>1 DEF HeaderRead
  <2> QED BY <2>3, <2>4 DEF ConnsOK, FlagsOK
<1>2. CASE BodyRead(r, pieces)
  <2>1. TasksOK'
    BY <1>2, WaitingOK, TaskSet DEF BodyRead
  <2>2. got' \in Seq(Msg \cup {NotMsg})
    <3>1. got' = got \/ \E u \in Hits(pieces) : got' = Append(got, u.plain)
      BY <1>2 DEF BodyRead
    <3>2. \A u \in Hits(pieces) : u.plain \in Msg \cup {NotMsg}
      BY HitsOK DEF PlainOK
    <3>3. CASE \E u \in Hits(pieces) : got' = Append(got, u.plain)
      <4>1. PICK u \in Hits(pieces) : got' = Append(got, u.plain)
        BY <3>3
      <4>2. got \in Seq(Msg \cup {NotMsg}) /\ u.plain \in Msg \cup {NotMsg}
        BY <3>2
      <4> QED BY <4>1, <4>2
    <3> QED BY <3>1, <3>3
  <2>3. UNCHANGED <<hs, conn>>
    BY <1>2 DEF BodyRead
  <2> QED BY <2>1, <2>2, <2>3 DEF ConnsOK, FlagsOK
<1>3. CASE ActTwoRead(r, pieces)
  <2>1. TasksOK'
    BY <1>3, WaitingOK, TaskSet DEF ActTwoRead
  <2>2. hs' \in Conn \cup {NoConn} /\ got' = got
    BY <1>3 DEF ActTwoRead, FlagsOK
  <2>3. conn' = conn \/ conn' = [conn EXCEPT ![ws].ready = @ \/ ws = hs]
    BY <1>3 DEF ActTwoRead
  <2>4. ConnsOK' /\ \A c \in Conn : conn'[c].st = conn[c].st
    <3>1. CASE conn' = conn
      BY <3>1 DEF ConnsOK
    <3>2. CASE conn' = [conn EXCEPT ![ws].ready = @ \/ ws = hs] /\ ws \in Conn
      <4> DEFINE k == [conn[ws] EXCEPT !.ready = @ \/ ws = hs]
      <4>1. ConnOK(conn[ws])
        BY <3>2 DEF ConnsOK
      <4>2. ConnOK(k) /\ k.st = conn[ws].st
        BY <4>1 DEF ConnOK
      <4>3. conn' = [conn EXCEPT ![ws] = k]
        BY <3>2
      <4> HIDE DEF k
      <4>4. ConnsOK'
        BY <3>2, <4>2, <4>3, ConnSet
      <4> QED BY <3>2, <4>2, <4>3, <4>4 DEF ConnsOK
    <3>3. CASE conn' = [conn EXCEPT ![ws].ready = @ \/ ws = hs] /\ ws \notin Conn
      <4>1. conn' = conn
        BY <3>3 DEF ConnsOK
      <4> QED BY <3>1, <4>1
    <3> QED BY <2>3, <3>1, <3>2, <3>3
  <2> QED BY <2>1, <2>2, <2>4
<1> QED BY <1>1, <1>2, <1>3 DEF Completes

\* A call goes on with a chunk: what it puts back is no empty chunk, and what
\* it goes on to want is more than nothing.
LEMMA GoOnOK ==
  ASSUME JsInv, NEW r \in Caller, NEW chunk \in Chunk, NEW others \in Seq(Chunk),
         task[r].want > 0, GoOn(r, chunk, others), UNCHANGED <<connected, ws>>
  PROVE  /\ queue' \in Seq(Chunk) /\ TasksOK' /\ ConnsOK' /\ hs' \in Conn \cup {NoConn}
         /\ got' \in Seq(Msg \cup {NotMsg})
         /\ \A c \in Conn : conn'[c].st = conn[c].st
<1> DEFINE n    == task[r].want
           part == [chunk EXCEPT !.size = IF @ > n THEN n ELSE @]
           have == Append(task[r].chunks, part)
<1>1. n \in Nat \ {0} /\ task[r].chunks \in Seq(Chunk) /\ TaskOK(task[r])
  BY DEF JsInv, TasksOK, TaskOK
<1>2. chunk.size \in Nat \ {0} /\ chunk.on \in Conn /\ chunk.at \in Nat
  BY DEF Chunk
<1>3. queue' \in Seq(Chunk)
  <2>1. CASE chunk.size > n
    <3>1. chunk.at + n \in Nat /\ chunk.size - n \in Nat \ {0}
      BY <1>1, <1>2, <2>1
    <3>2. Rest(chunk, n) \in Chunk
      <4> HIDE DEF n
      <4> QED BY <3>1, <1>2 DEF Rest, Chunk
    <3>3. queue' = <<Rest(chunk, n)>> \o others
      BY <2>1 DEF GoOn, QueueAfter
    <3> HIDE DEF n
    <3> QED BY <3>2, <3>3
  <2>2. CASE ~(chunk.size > n)
    BY <2>2 DEF GoOn, QueueAfter
  <2> QED BY <2>1, <2>2
<1>4. part \in Chunk
  BY <1>1, <1>2 DEF Chunk
<1>5. have \in Seq(Chunk) /\ have # <<>>
  <2> HIDE DEF part
  <2> QED BY <1>1, <1>4
<1>6. CASE chunk.size >= n /\ Completes(r, have)
  <2> HIDE DEF have
  <2> QED BY <1>3, <1>5, <1>6, CompletesOK
<1>7. CASE /\ chunk.size < n
           /\ task' = [task EXCEPT ![r].chunks = have, ![r].held = <<>>,
                                   ![r].want = Remaining(chunk, n)]
           /\ UNCHANGED <<hs, rx, conn, got>>
  <2> DEFINE t == [task[r] EXCEPT !.chunks = have, !.held = <<>>, !.want = Remaining(chunk, n)]
  <2>1. Remaining(chunk, n) \in Nat \ {0}
    BY <1>1, <1>2, <1>7 DEF Remaining
  <2> HIDE DEF have
  <2>2. TaskOK(t)
    <3>1. Remaining(chunk, n) \in Nat /\ Remaining(chunk, n) > 0
      BY <2>1
    <3> HIDE DEF n
    <3>2. task[r].pc \in Polling
      BY <1>1 DEF TaskOK
    <3>3. task[r] \in [pc : {"idle", "open"} \cup Polling, want : Nat, chunks : Seq(Chunk),
                       held : Seq(Chunk), on : Conn \cup {NoConn}]
      BY <1>1 DEF TaskOK
    <3>4. <<>> \in Seq(Chunk)
      OBVIOUS
    <3>5. /\ t \in [pc : {"idle", "open"} \cup Polling, want : Nat, chunks : Seq(Chunk),
                   held : Seq(Chunk), on : Conn \cup {NoConn}]
          /\ t.pc = task[r].pc /\ t.want = Remaining(chunk, n) /\ t.held = <<>>
      <4> HIDE DEF Polling
      <4> QED BY <1>5, <3>1, <3>3, <3>4
    <3> HIDE DEF t
    <3> QED BY <3>1, <3>2, <3>5 DEF TaskOK
  <2>3. task' = [task EXCEPT ![r] = t]
    BY <1>7, <1>1 DEF JsInv, TasksOK
  <2> HIDE DEF t
  <2>4. TasksOK'
    BY <2>2, <2>3, TaskSet DEF JsInv
  <2> QED BY <1>3, <1>7, <2>4 DEF JsInv, ConnsOK, FlagsOK
<1> QED BY <1>6, <1>7 DEF GoOn

-----------------------------------------------------------------------------
(* What the peer sends *)

LEMMA PeerSendOK ==
  ASSUME JsInv, NEW c \in Conn, NEW m \in Msg, PeerSend(c, m)
  PROVE  StreamsOK' /\ ConnsOK' /\ \A d \in Conn : conn'[d].st = conn[d].st
<1> DEFINE k == [conn[c] EXCEPT !.sent = @ + FrameSize(MsgLen[m])]
<1>1. MsgLen[m] \in Nat /\ FrameSize(MsgLen[m]) \in Nat
  BY JsAssumption, Sizes
<1>2. conn' = [conn EXCEPT ![c] = k]
  BY DEF PeerSend
<1>3. ConnOK(conn[c])
  BY DEF JsInv, ConnsOK
<1>4. ConnOK(k) /\ k.st = conn[c].st
  <2> DEFINE frame == FrameSize(MsgLen[m])
  <2>1. frame \in Nat
    BY <1>1
  <2> HIDE DEF frame
  <2>2. k = [conn[c] EXCEPT !.sent = @ + frame]
    BY DEF frame
  <2> QED BY <1>3, <2>1, <2>2 DEF ConnOK
<1> HIDE DEF k
<1>5. ConnsOK' /\ \A d \in Conn : conn'[d].st = conn[d].st
  <2>1. ConnsOK'
    BY <1>2, <1>4, ConnSet DEF JsInv
  <2> QED BY <1>2, <1>4, <2>1 DEF JsInv, ConnsOK
<1>6. PICK h : units' = [units EXCEPT ![c] = @ \o
        EncryptMsg(h, conn[c].sent, MsgLen[m], m, NotMsg, FrameSize(MsgLen[m]))]
  BY DEF PeerSend
<1> DEFINE e == EncryptMsg(h, conn[c].sent, MsgLen[m], m, NotMsg, FrameSize(MsgLen[m]))
<1>7. e = <<e[1], e[2]>> /\ PlainOK(e[1]) /\ PlainOK(e[2])
  BY <1>1 DEF EncryptMsg, Unit, PlainOK
<1> HIDE DEF e
<1>8. UnitsOK(units[c] \o e)
  <2> DEFINE a == e[1]  b == e[2]  s == units[c]  t == s \o <<a, b>>
  <2>1. UnitsOK(s)
    BY DEF JsInv, StreamsOK
  <2>2. /\ t = [i \in 1..Len(t) |-> t[i]]
        /\ Len(t) = Len(s) + 2
        /\ \A i \in 1..Len(s) : t[i] = s[i]
        /\ t[Len(s) + 1] = a /\ t[Len(s) + 2] = b
    <3> HIDE DEF a, b, s
    <3> QED BY <2>1, AppendTwo DEF UnitsOK
  <2> HIDE DEF t
  <2>3. \A i \in 1..Len(t) : PlainOK(t[i])
    <3>1. SUFFICES ASSUME NEW i \in 1..Len(t) PROVE PlainOK(t[i])
      OBVIOUS
    <3>2. i \in 1..Len(s) \/ i = Len(s) + 1 \/ i = Len(s) + 2
      BY <2>1, <2>2 DEF UnitsOK
    <3> QED BY <1>7, <2>1, <2>2, <3>2 DEF UnitsOK
  <2>4. Len(t) \in Nat
    BY <2>1, <2>2 DEF UnitsOK
  <2>5. UnitsOK(t)
    BY <2>2, <2>3, <2>4 DEF UnitsOK
  <2> QED BY <1>7, <2>5 DEF t
<1>9. StreamsOK'
  <2> DEFINE grown == units[c] \o e
  <2>1. units' = [units EXCEPT ![c] = grown]
    BY <1>6 DEF e
  <2>2. UnitsOK(grown)
    BY <1>8
  <2> HIDE DEF grown
  <2> QED BY <2>1, <2>2 DEF JsInv, StreamsOK
<1> QED BY <1>5, <1>9

-----------------------------------------------------------------------------
(* Every step *)

LEMMA JsInit == Init => JsInv
<1> SUFFICES ASSUME Init PROVE JsInv
  OBVIOUS
<1>1. FlagsOK /\ FlagTrue
  BY DEF Init, FlagsOK, FlagTrue
<1>5. queue \in Seq(Chunk) /\ got \in Seq(Msg \cup {NotMsg})
  <2>1. queue = <<>> /\ got = <<>>
    BY DEF Init
  <2> QED BY <2>1
<1>2. TasksOK
  BY WaitingOK DEF Init, TasksOK
<1>3. ConnsOK
  <2>1. ConnOK([st |-> "unused", act1 |-> FALSE, ready |-> FALSE, sent |-> 0, arrived |-> 0])
    BY DEF ConnOK
  <2> QED BY <2>1 DEF Init, ConnsOK
<1>4. StreamsOK
  <2>1. UnitsOK(<<>>)
    BY DEF UnitsOK
  <2> QED BY <2>1 DEF Init, StreamsOK
<1> QED BY <1>1, <1>2, <1>3, <1>4, <1>5 DEF JsInv

\* A step that leaves the states of all connections alone leaves FlagTrue.
LEMMA SameStates ==
  ASSUME FlagTrue, UNCHANGED <<connected, ws>>, \A c \in Conn : conn'[c].st = conn[c].st
  PROVE  FlagTrue'
BY DEF FlagTrue

LEMMA JsStep == JsInv /\ [Next]_vars => JsInv'
<1> SUFFICES ASSUME JsInv, [Next]_vars PROVE JsInv'
  OBVIOUS
<1>a. setup.callers \subseteq Caller /\ setup.msgs \subseteq Msg /\ setup.pieces \subseteq Nat \ {0}
      /\ setup.conns \in 0..MaxConns
  BY JsAssumption DEF JsInv, FlagsOK
\* The parts of the invariant that a step leaves alone.
<1>b. ASSUME UNCHANGED <<units>> PROVE StreamsOK'
  BY <1>b DEF JsInv, StreamsOK
<1>c. ASSUME UNCHANGED <<conn>> PROVE ConnsOK' /\ \A c \in Conn : conn'[c].st = conn[c].st
  BY <1>c DEF JsInv, ConnsOK
<1>d. ASSUME UNCHANGED <<task>> PROVE TasksOK'
  BY <1>d DEF JsInv, TasksOK
<1>e. ASSUME UNCHANGED <<setup, connected, ws>>, hs' \in Conn \cup {NoConn} PROVE FlagsOK'
  BY <1>e DEF JsInv, FlagsOK
<1>f. queue \in Seq(Chunk) /\ got \in Seq(Msg \cup {NotMsg}) /\ hs \in Conn \cup {NoConn}
  BY DEF JsInv, FlagsOK
<1>1. ASSUME NEW r \in Caller, Connect(r) PROVE JsInv'
  <2> DEFINE c == CHOOSE x \in Unused : \A d \in Unused : x <= d
             k == [conn[c] EXCEPT !.st = "new"]
  <2>0. conn' = [conn EXCEPT ![c].st = "new"] /\ task' = [task EXCEPT ![r] = Waiting("open", 0, c)]
    BY <1>1 DEF Connect
  <2>1. c \in Unused
    <3>1. Unused \subseteq Nat /\ Unused # {}
      BY <1>1, <1>a DEF Connect, Unused
    <3>2. \E x \in Unused : \A d \in Unused : x <= d
      BY <3>1, LeastExists
    <3> QED BY <3>2
  <2>2. JsInv'
    <3>1. c \in Conn /\ conn[c].st = "unused"
      BY <1>a, <2>1, JsAssumption DEF Unused, Conn
    <3> HIDE DEF c
    <3>2. ConnOK(conn[c])
      BY <3>1 DEF JsInv, ConnsOK
    <3>3. ConnOK(k) /\ k.st = "new"
      BY <3>2 DEF ConnOK
    <3>4. conn' = [conn EXCEPT ![c] = k]
      BY <2>0
    <3> HIDE DEF k
    <3>5. ConnsOK'
      BY <3>1, <3>3, <3>4, ConnSet DEF JsInv
    <3>6. TasksOK'
      BY <2>0, <3>1, WaitingOK, TaskSet DEF JsInv
    <3>7. UNCHANGED <<setup, queue, connected, ws, hs, rx, units, got>>
      BY <1>1 DEF Connect
    <3>8. FlagTrue'
      <4>1. connected => ws # c
        BY <3>1 DEF JsInv, FlagTrue
      <4> QED BY <3>1, <3>4, <3>7, <4>1 DEF JsInv, FlagTrue, ConnsOK
    <3> QED BY <1>b, <1>e, <1>f, <3>5, <3>6, <3>7, <3>8 DEF JsInv
  <2> QED BY <2>2
<1>2. ASSUME NEW c \in Conn, Open(c) PROVE JsInv'
  <2> DEFINE waiting == {r \in Caller : task[r].pc = "open" /\ task[r].on = c}
             k == [conn[c] EXCEPT !.st = "open", !.act1 = waiting # {}]
  <2>0. conn' = [conn EXCEPT ![c] = k]
    BY <1>2 DEF Open
  <2>1. ConnOK(conn[c])
    BY DEF JsInv, ConnsOK
  <2>2. ConnOK(k) /\ k.st = "open"
    <3> DEFINE some == waiting # {}
    <3>1. some \in BOOLEAN /\ k = [conn[c] EXCEPT !.st = "open", !.act1 = some]
      OBVIOUS
    <3> HIDE DEF some, k
    <3> QED BY <2>1, <3>1 DEF ConnOK
  <2> HIDE DEF k
  <2>3. ConnsOK' /\ conn'[c].st = "open"
    <3>1. ConnsOK'
      BY <2>0, <2>2, ConnSet DEF JsInv
    <3> QED BY <2>0, <2>2, <3>1 DEF JsInv, ConnsOK
  <2>4. TasksOK'
    <3>1. TaskOK(Waiting("act2", ActTwoSize, NoConn))
      BY WaitingOK, JsAssumption DEF Polling
    <3>2. task' = [r \in Caller |-> IF r \in waiting THEN Waiting("act2", ActTwoSize, NoConn)
                                    ELSE task[r]]
      BY <1>2 DEF Open
    <3> HIDE DEF waiting
    <3> QED BY <3>1, <3>2 DEF JsInv, TasksOK
  <2>5. FlagsOK' /\ FlagTrue'
    BY <1>2, <2>3 DEF Open, JsInv, FlagsOK, FlagTrue
  <2> QED BY <1>2, <1>b, <1>f, <2>3, <2>4, <2>5 DEF Open, JsInv
<1>3. ASSUME NEW r \in Caller, Timeout(r) \/ TickRejects(r) PROVE JsInv'
  <2>1. TasksOK'
    BY <1>3, WaitingOK, TaskSet DEF Timeout, TickRejects, JsInv
  <2>2. UNCHANGED <<setup, queue, connected, ws, hs, rx, conn, units, got>>
    BY <1>3 DEF Timeout, TickRejects
  <2> QED BY <1>b, <1>c, <1>e, <1>f, <2>1, <2>2, SameStates DEF JsInv
<1>4. ASSUME NEW c \in Conn, Close(c) PROVE JsInv'
  <2> DEFINE k == [conn[c] EXCEPT !.st = "closed"]
  <2>1. ConnOK(conn[c]) /\ conn' = [conn EXCEPT ![c] = k]
    BY <1>4 DEF JsInv, ConnsOK, Close
  <2>2. ConnOK(k)
    BY <2>1 DEF ConnOK
  <2> HIDE DEF k
  <2>3. ConnsOK'
    BY <2>1, <2>2, ConnSet DEF JsInv
  <2>4. FlagsOK' /\ FlagTrue'
    BY <1>4 DEF Close, JsInv, FlagsOK, FlagTrue
  <2> QED BY <1>4, <1>b, <1>d, <1>f, <2>3, <2>4 DEF Close, JsInv
<1>5. CASE Disconnect
  <2> DEFINE k == [conn[ws] EXCEPT !.st = "closing"]
  <2>0. ws \in Conn
    BY <1>5 DEF Disconnect, JsInv, FlagsOK
  <2>1. ConnOK(conn[ws]) /\ conn' = [conn EXCEPT ![ws] = k]
    BY <1>5, <2>0 DEF JsInv, ConnsOK, Disconnect
  <2>2. ConnOK(k) /\ k.st = "closing"
    BY <2>1 DEF ConnOK
  <2> HIDE DEF k
  <2>3. ConnsOK'
    BY <2>0, <2>1, <2>2, ConnSet DEF JsInv
  <2>4. conn'[ws].st = "closing"
    BY <2>0, <2>1, <2>2 DEF JsInv, ConnsOK
  <2>5. UNCHANGED <<setup, queue, connected, ws, hs, rx, task, units, got>>
    BY <1>5 DEF Disconnect
  <2>6. FlagTrue'
    BY <2>0, <2>4, <2>5 DEF FlagTrue
  <2> QED BY <1>b, <1>d, <1>e, <1>f, <2>3, <2>5, <2>6 DEF JsInv
<1>6. ASSUME NEW r \in Caller, TickFinds(r) PROVE JsInv'
  <2>1. UNCHANGED <<setup, connected, ws, units>> /\ queue # <<>>
    BY <1>6 DEF TickFinds
  <2>2. Head(queue) \in Chunk /\ Tail(queue) \in Seq(Chunk)
    BY <1>f, <2>1
  <2>3. TaskOK(task[r]) /\ task[r].pc \in Polling
    BY <1>6 DEF TickFinds, Polls, Polling, JsInv, TasksOK
  <2>4. CASE GoOn(r, Head(queue), Tail(queue))
    <3>1. task[r].want > 0
      BY <2>3 DEF TaskOK
    <3>2. /\ queue' \in Seq(Chunk) /\ TasksOK' /\ ConnsOK' /\ hs' \in Conn \cup {NoConn}
          /\ got' \in Seq(Msg \cup {NotMsg})
          /\ \A c \in Conn : conn'[c].st = conn[c].st
      BY <2>1, <2>2, <2>4, <3>1, GoOnOK
    <3> QED BY <1>b, <1>e, <2>1, <3>2, SameStates DEF JsInv
  <2>5. CASE /\ task' = [task EXCEPT ![r].held = <<Head(queue)>>] /\ queue' = Tail(queue)
             /\ UNCHANGED <<hs, rx, conn, got>>
    <3> DEFINE first == <<Head(queue)>>
               t == [task[r] EXCEPT !.held = first]
    <3>1. first \in Seq(Chunk)
      BY <2>2
    <3>2. task' = [task EXCEPT ![r] = t]
      BY <2>5
    <3> HIDE DEF first
    <3>3. TaskOK(t)
      <4> HIDE DEF Polling
      <4> QED BY <2>3, <3>1 DEF TaskOK
    <3> HIDE DEF t
    <3>4. TasksOK'
      BY <3>2, <3>3, TaskSet DEF JsInv
    <3> QED BY <1>b, <1>c, <1>e, <1>f, <2>1, <2>2, <2>5, <3>4, SameStates DEF JsInv
  <2> QED BY <1>6, <2>4, <2>5 DEF TickFinds
<1>7. ASSUME NEW r \in Caller, Fulfilled(r) PROVE JsInv'
  <2>1. UNCHANGED <<setup, connected, ws, units>>
    BY <1>7 DEF Fulfilled
  <2>2. TaskOK(task[r]) /\ task[r].held # <<>>
    BY <1>7 DEF Fulfilled, JsInv, TasksOK
  <2>3. Head(task[r].held) \in Chunk /\ task[r].want > 0
    BY <2>2 DEF TaskOK
  <2>4. /\ queue' \in Seq(Chunk) /\ TasksOK' /\ ConnsOK' /\ hs' \in Conn \cup {NoConn}
        /\ got' \in Seq(Msg \cup {NotMsg})
        /\ \A c \in Conn : conn'[c].st = conn[c].st
    BY <1>7, <1>f, <2>1, <2>3, GoOnOK DEF Fulfilled
  <2> QED BY <1>b, <1>e, <2>1, <2>4, SameStates DEF JsInv
<1>8. ASSUME NEW r \in Caller, CallRead(r) PROVE JsInv'
  <2>1. TaskOK(ReadAll("hdr", HdrSize))
    BY WaitingOK, Sizes DEF Polling
  <2>2. TasksOK'
    BY <1>8, <2>1, TaskSet DEF CallRead, JsInv
  <2>3. UNCHANGED <<setup, queue, connected, ws, hs, rx, conn, units, got>>
    BY <1>8 DEF CallRead
  <2> QED BY <1>b, <1>c, <1>e, <1>f, <2>2, <2>3, SameStates DEF JsInv
<1>9. ASSUME NEW c \in Conn, PeerActTwo(c) PROVE JsInv'
  <2> DEFINE k == [conn[c] EXCEPT !.sent = ActTwoSize]
  <2>1. ConnOK(conn[c]) /\ conn[c].sent = 0 /\ conn' = [conn EXCEPT ![c] = k]
    BY <1>9 DEF JsInv, ConnsOK, PeerActTwo
  <2>2. ConnOK(k) /\ k.st = conn[c].st
    BY <2>1, JsAssumption DEF ConnOK
  <2> HIDE DEF k
  <2>3. ConnsOK' /\ \A d \in Conn : conn'[d].st = conn[d].st
    <3>1. ConnsOK'
      BY <2>1, <2>2, ConnSet DEF JsInv
    <3> QED BY <2>1, <2>2, <3>1 DEF JsInv, ConnsOK
  <2>4. UNCHANGED <<setup, queue, connected, ws, hs, rx, task, units, got>>
    BY <1>9 DEF PeerActTwo
  <2> QED BY <1>b, <1>d, <1>e, <1>f, <2>3, <2>4, SameStates DEF JsInv
<1>10. ASSUME NEW c \in Conn, Data(c) PROVE JsInv'
  <2>1. PICK n \in setup.pieces \cup {conn[c].sent - conn[c].arrived} :
          /\ n <= conn[c].sent - conn[c].arrived
          /\ queue' = Append(queue, [on |-> c, at |-> conn[c].arrived, size |-> n])
          /\ conn' = [conn EXCEPT ![c].arrived = @ + n]
    BY <1>10 DEF Data
  <2> DEFINE k == [conn[c] EXCEPT !.arrived = @ + n]
             chunk == [on |-> c, at |-> conn[c].arrived, size |-> n]
  <2>2. ConnOK(conn[c]) /\ conn[c].arrived < conn[c].sent /\ conn' = [conn EXCEPT ![c] = k]
    BY <1>10, <2>1 DEF JsInv, ConnsOK, Data
  <2>3. n \in Nat \ {0} /\ conn[c].arrived \in Nat /\ conn[c].sent \in Nat
    BY <1>a, <2>2 DEF ConnOK
  <2>4. ConnOK(k) /\ k.st = conn[c].st
    <3> DEFINE now == conn[c].arrived + n
    <3>1. now \in Nat /\ now <= conn[c].sent
      BY <2>1, <2>3
    <3>2. k = [conn[c] EXCEPT !.arrived = now]
      OBVIOUS
    <3> HIDE DEF now, k
    <3> QED BY <2>2, <3>1, <3>2 DEF ConnOK
  <2>5. chunk \in Chunk
    BY <2>3 DEF Chunk
  <2> HIDE DEF k, chunk
  <2>6. ConnsOK' /\ \A d \in Conn : conn'[d].st = conn[d].st
    <3>1. ConnsOK'
      BY <2>2, <2>4, ConnSet DEF JsInv
    <3> QED BY <2>2, <2>4, <3>1 DEF JsInv, ConnsOK
  <2>7. queue' \in Seq(Chunk)
    <3>1. queue' = Append(queue, chunk)
      BY <2>1 DEF chunk
    <3> QED BY <1>f, <2>5, <3>1
  <2>8. UNCHANGED <<setup, connected, ws, hs, rx, task, units, got>>
    BY <1>10 DEF Data
  <2> QED BY <1>b, <1>d, <1>e, <1>f, <2>6, <2>7, <2>8, SameStates DEF JsInv
<1>11. ASSUME NEW c \in Conn, NEW m \in Msg, PeerSend(c, m) PROVE JsInv'
  <2>1. StreamsOK' /\ ConnsOK' /\ \A d \in Conn : conn'[d].st = conn[d].st
    BY <1>11, PeerSendOK
  <2>2. UNCHANGED <<setup, queue, connected, ws, hs, rx, task, got>>
    BY <1>11 DEF PeerSend
  <2> QED BY <1>d, <1>e, <1>f, <2>1, <2>2, SameStates DEF JsInv
<1>12. CASE UNCHANGED vars
  <2>1. UNCHANGED <<setup, queue, connected, ws, hs, rx, task, conn, units, got>>
    BY <1>12 DEF vars
  <2> QED BY <1>b, <1>c, <1>d, <1>e, <1>f, <2>1, SameStates DEF JsInv
<1> QED BY <1>1, <1>2, <1>3, <1>4, <1>5, <1>6, <1>7, <1>8, <1>9, <1>10, <1>11, <1>12, <1>a
        DEF Next, Runs

-----------------------------------------------------------------------------
(* Chunks in line *)

\* s is the bytes of socket c from a on and up to b, in order.
InLine(s, c, a, b) ==
  /\ s \in Seq(ChunksOf(c)) /\ a \in Nat /\ b \in Nat
  /\ s = <<>> => a = b
  /\ s # <<>> => s[1].at = a /\ s[Len(s)].at + s[Len(s)].size = b
  /\ Solid(s)

LEMMA ChunkFields ==
  /\ \A c : \A x \in ChunksOf(c) : x.on = c /\ x.at \in Nat /\ x.size \in Nat \ {0}
  /\ \A x \in Chunk : x.on \in Conn /\ \A c : x \in ChunksOf(c) <=> c = x.on
BY DEF ChunksOf, Chunk

LEMMA LineEmpty == \A c, a : a \in Nat => InLine(<<>>, c, a, a)
<1> TAKE c, a
<1> HAVE a \in Nat
<1>1. <<>> \in Seq(ChunksOf(c)) /\ Len(<<>>) = 0
  OBVIOUS
<1> QED BY <1>1 DEF InLine, Solid

LEMMA LineTail ==
  ASSUME NEW c, NEW x \in ChunksOf(c), NEW s \in Seq(ChunksOf(c)), NEW a, NEW b,
         NEW t, t = InFront(x, s), InLine(t, c, a, b)
  PROVE  x.at = a /\ InLine(s, c, a + x.size, b)
<1>1. t = InFront(x, s)
  OBVIOUS
<1>2. /\ t \in Seq(ChunksOf(c)) /\ Len(t) = Len(s) + 1 /\ t # <<>> /\ t[1] = x /\ Len(s) \in Nat
      /\ \A i \in 1..Len(s) : t[i + 1] = s[i]
  <2>1. t \in Seq(ChunksOf(c)) /\ IsInFront(t, x, s)
    BY <1>1, ConsIs
  <2> QED BY <2>1 DEF IsInFront
<1>3. /\ a \in Nat /\ b \in Nat /\ x.at = a /\ t[Len(t)].at + t[Len(t)].size = b /\ Solid(t)
  BY <1>1, <1>2 DEF InLine
<1>4. x.size \in Nat
  BY ChunkFields
<1>5. CASE s = <<>>
  <2>1. Len(s) = 0 /\ Len(t) = 1
    BY <1>2, <1>5
  <2>2. a + x.size = b
    BY <1>2, <1>3, <2>1
  <2>3. Solid(s)
    BY <2>1 DEF Solid
  <2> QED BY <1>3, <1>4, <1>5, <2>2, <2>3 DEF InLine
<1>6. CASE s # <<>>
  <2>1. Len(s) \in Nat \ {0} /\ 1 \in 1..(Len(t) - 1) /\ 1 \in 1..Len(s) /\ 1 + 1 = 2 /\ Len(s) \in 1..Len(s)
    BY <1>2, <1>6
  <2>2. t[2].at = a + x.size /\ t[2] = s[1]
    BY <1>2, <1>3, <2>1 DEF Solid
  <2>3. t[Len(t)] = s[Len(s)]
    BY <1>2, <2>1
  <2>4. Solid(s)
    <3>1. ASSUME NEW i \in 1..(Len(s) - 1)
          PROVE  s[i + 1].on = s[i].on /\ s[i + 1].at = s[i].at + s[i].size
      <4>1. i \in 1..Len(s) /\ i + 1 \in 1..Len(s) /\ i + 1 \in 1..(Len(t) - 1)
        BY <1>2
      <4>2. t[i + 1] = s[i] /\ t[(i + 1) + 1] = s[i + 1]
        BY <1>2, <4>1
      <4>3. t[(i + 1) + 1].on = t[i + 1].on /\ t[(i + 1) + 1].at = t[i + 1].at + t[i + 1].size
        BY <1>3, <4>1 DEF Solid
      <4> QED BY <4>2, <4>3
    <3> QED BY <3>1 DEF Solid
  <2>5. s[1].at = a + x.size /\ s[Len(s)].at + s[Len(s)].size = b /\ a + x.size \in Nat
    BY <1>3, <1>4, <2>2, <2>3
  <2> QED BY <1>3, <1>6, <2>4, <2>5 DEF InLine
<1> QED BY <1>5, <1>6

LEMMA LineFront ==
  ASSUME NEW c, NEW x \in ChunksOf(c), NEW s, NEW b, InLine(s, c, x.at + x.size, b)
  PROVE  InLine(InFront(x, s), c, x.at, b)
<1>0. s \in Seq(ChunksOf(c)) /\ b \in Nat /\ Solid(s)
  BY DEF InLine
<1>1. PICK t : t = InFront(x, s)
  OBVIOUS
<1>2. /\ t \in Seq(ChunksOf(c)) /\ Len(t) = Len(s) + 1 /\ t # <<>> /\ t[1] = x /\ Len(s) \in Nat
      /\ \A i \in 1..Len(s) : t[i + 1] = s[i]
  <2>1. t \in Seq(ChunksOf(c)) /\ IsInFront(t, x, s)
    BY <1>0, <1>1, ConsIs
  <2> QED BY <1>0, <2>1 DEF IsInFront
<1>3. x.on = c /\ x.at \in Nat /\ x.size \in Nat
  BY ChunkFields
<1>4. \A i \in 1..Len(s) : s[i].on = c
  <2> TAKE i \in 1..Len(s)
  <2>1. s[i] \in ChunksOf(c)
    BY <1>0, ElementOfSeq
  <2> QED BY <2>1, ChunkFields
<1>5. CASE s = <<>>
  <2>1. Len(s) = 0 /\ Len(t) = 1
    BY <1>2, <1>5
  <2>2. x.at + x.size = b
    BY <1>5 DEF InLine
  <2>3. Solid(t)
    BY <2>1 DEF Solid
  <2> QED BY <1>0, <1>1, <1>2, <1>3, <2>1, <2>2, <2>3 DEF InLine
<1>6. CASE s # <<>>
  <2>1. Len(s) \in Nat \ {0} /\ Len(s) \in 1..Len(s) /\ 1 \in 1..Len(s)
    BY <1>0, <1>6, EmptySeq
  <2>2. s[1].at = x.at + x.size /\ s[Len(s)].at + s[Len(s)].size = b
    BY <1>6 DEF InLine
  <2>3. t[Len(t)] = s[Len(s)]
    BY <1>2, <2>1
  <2>4. ASSUME NEW i \in 1..(Len(t) - 1)
        PROVE  t[i + 1].on = t[i].on /\ t[i + 1].at = t[i].at + t[i].size
    <3>0. i \in 1..Len(s)
      BY <1>2
    <3>1. t[i + 1] = s[i]
      BY <1>2, <3>0
    <3>2. CASE i = 1
      BY <1>2, <1>3, <1>4, <2>1, <2>2, <3>1, <3>2
    <3>3. CASE i # 1
      <4>1. PICK j : j = i - 1
        OBVIOUS
      <4>2. j \in 1..(Len(s) - 1) /\ j \in 1..Len(s) /\ j + 1 = i
        BY <1>2, <3>0, <3>3, <4>1
      <4>3. t[i] = s[j]
        BY <1>2, <4>2
      <4>4. s[j + 1].on = s[j].on /\ s[j + 1].at = s[j].at + s[j].size
        BY <1>0, <4>2 DEF Solid
      <4> QED BY <3>1, <4>2, <4>3, <4>4
    <3> QED BY <3>2, <3>3
  <2>5. Solid(t)
    BY <2>4 DEF Solid
  <2> QED BY <1>0, <1>1, <1>2, <1>3, <2>2, <2>3, <2>5 DEF InLine
<1> QED BY <1>5, <1>6

LEMMA LineAppend ==
  ASSUME NEW c, NEW x \in ChunksOf(c), NEW s, NEW a, InLine(s, c, a, x.at)
  PROVE  InLine(Append(s, x), c, a, x.at + x.size)
<1>0. s \in Seq(ChunksOf(c)) /\ a \in Nat /\ Solid(s)
  BY DEF InLine
<1>1. PICK t : t = Append(s, x)
  OBVIOUS
<1>2. /\ t \in Seq(ChunksOf(c)) /\ Len(t) = Len(s) + 1 /\ t # <<>> /\ t[Len(s) + 1] = x /\ Len(s) \in Nat
      /\ \A i \in 1..Len(s) : t[i] = s[i]
  BY <1>0, <1>1, AppendProperties
<1>3. x.on = c /\ x.at \in Nat /\ x.size \in Nat
  BY ChunkFields
<1>4. \A i \in 1..Len(s) : s[i].on = c
  <2> TAKE i \in 1..Len(s)
  <2>1. s[i] \in ChunksOf(c)
    BY <1>0, ElementOfSeq
  <2> QED BY <2>1, ChunkFields
<1>5. t[1].at = a
  <2>1. CASE s = <<>>
    <3>1. Len(s) = 0
      BY <2>1
    <3> QED BY <1>2, <2>1, <3>1 DEF InLine
  <2>2. CASE s # <<>>
    <3>1. 1 \in 1..Len(s)
      BY <1>0, <2>2, EmptySeq
    <3> QED BY <1>2, <2>2, <3>1 DEF InLine
  <2> QED BY <2>1, <2>2
<1>6. ASSUME NEW i \in 1..(Len(t) - 1)
      PROVE  t[i + 1].on = t[i].on /\ t[i + 1].at = t[i].at + t[i].size
  <2>1. i \in 1..Len(s) /\ t[i] = s[i]
    BY <1>2
  <2>2. CASE i = Len(s)
    <3>1. s # <<>>
      BY <2>1, <2>2
    <3>2. s[Len(s)].at + s[Len(s)].size = x.at
      BY <3>1 DEF InLine
    <3> QED BY <1>2, <1>3, <1>4, <2>1, <2>2, <3>2
  <2>3. CASE i # Len(s)
    <3>1. i \in 1..(Len(s) - 1) /\ i + 1 \in 1..Len(s)
      BY <1>2, <2>1, <2>3
    <3>2. s[i + 1].on = s[i].on /\ s[i + 1].at = s[i].at + s[i].size
      BY <1>0, <3>1 DEF Solid
    <3>3. t[i + 1] = s[i + 1]
      BY <1>2, <3>1
    <3> QED BY <2>1, <3>2, <3>3
  <2> QED BY <2>2, <2>3
<1>7. Solid(t)
  BY <1>6 DEF Solid
<1> QED BY <1>0, <1>1, <1>2, <1>3, <1>5, <1>7 DEF InLine

-----------------------------------------------------------------------------
(* The queue keeps the order *)

\* What s holds of each socket of k is a line up to the last byte that arrived.
Lined(s, k) ==
  \A c \in Conn : \E a \in Nat : InLine(Only(s, ChunksOf(c)), c, a, k[c].arrived)

LEMMA LinedTail ==
  ASSUME NEW x \in Chunk, NEW s \in Seq(Chunk), NEW k, Lined(InFront(x, s), k)
  PROVE  Lined(s, k)
<1> SUFFICES ASSUME NEW c \in Conn
             PROVE  \E a \in Nat : InLine(Only(s, ChunksOf(c)), c, a, k[c].arrived)
  BY DEF Lined
<1>1. PICK a \in Nat : InLine(Only(InFront(x, s), ChunksOf(c)), c, a, k[c].arrived)
  BY DEF Lined
<1>2. PICK o : o = Only(s, ChunksOf(c))
  OBVIOUS
<1>3. o \in Seq(ChunksOf(c))
  BY <1>2, OnlyIn
<1>4. CASE x \in ChunksOf(c)
  <2>1. Only(InFront(x, s), ChunksOf(c)) = InFront(x, o)
    BY <1>2, <1>4, OnlyCons
  <2>2. PICK t : t = InFront(x, o)
    OBVIOUS
  <2>3. InLine(t, c, a, k[c].arrived)
    BY <1>1, <2>1, <2>2
  <2>4. InLine(o, c, a + x.size, k[c].arrived)
    BY <1>3, <1>4, <2>2, <2>3, LineTail
  <2>5. a + x.size \in Nat
    BY <1>4, ChunkFields
  <2> QED BY <1>2, <2>4, <2>5
<1>5. CASE x \notin ChunksOf(c)
  <2>1. Only(InFront(x, s), ChunksOf(c)) = o
    BY <1>2, <1>5, OnlyCons
  <2> QED BY <1>1, <1>2, <2>1
<1> QED BY <1>4, <1>5

\* What is left of a chunk, back in front.
LEMMA LinedAfter ==
  ASSUME NEW x \in Chunk, NEW s \in Seq(Chunk), NEW k, NEW n \in Nat \ {0},
         Lined(InFront(x, s), k)
  PROVE  Lined(QueueAfter(x, n, s), k)
<1>0. CASE ~(x.size > n)
  BY <1>0, LinedTail DEF QueueAfter
<1>1. CASE x.size > n
  <2>1. PICK y : y = Rest(x, n)
    OBVIOUS
  <2>2. y.on = x.on /\ y.at = x.at + n /\ y.size = x.size - n
    BY <2>1 DEF Chunk, Rest
  <2>3. x.at \in Nat /\ x.size \in Nat /\ x.size - n \in Nat \ {0} /\ x.at + n \in Nat
    BY <1>1, ChunkFields DEF Chunk
  <2>4. y \in Chunk
    BY <2>1, <2>3 DEF Chunk, Rest
  <2>5. SUFFICES ASSUME NEW c \in Conn
                 PROVE  \E a \in Nat : InLine(Only(InFront(y, s), ChunksOf(c)), c, a, k[c].arrived)
    BY <1>1, <2>1 DEF Lined, QueueAfter, InFront
  <2>6. PICK a \in Nat : InLine(Only(InFront(x, s), ChunksOf(c)), c, a, k[c].arrived)
    BY DEF Lined
  <2>7. PICK o : o = Only(s, ChunksOf(c))
    OBVIOUS
  <2>8. o \in Seq(ChunksOf(c))
    BY <2>7, OnlyIn
  <2>9. y \in ChunksOf(c) <=> x \in ChunksOf(c)
    BY <2>2, <2>4, ChunkFields
  <2>10. CASE x \in ChunksOf(c)
    <3>1. Only(InFront(x, s), ChunksOf(c)) = InFront(x, o)
      BY <2>7, <2>10, OnlyCons
    <3>a. PICK t : t = InFront(x, o)
      OBVIOUS
    <3>b. InLine(t, c, a, k[c].arrived)
      BY <2>6, <3>1, <3>a
    <3>2. x.at = a /\ InLine(o, c, a + x.size, k[c].arrived)
      BY <2>8, <2>10, <3>a, <3>b, LineTail
    <3>3. y.at + y.size = a + x.size
      BY <2>2, <2>3, <3>2
    <3>4. InLine(InFront(y, o), c, y.at, k[c].arrived)
      BY <2>9, <2>10, <3>2, <3>3, LineFront
    <3>5. Only(InFront(y, s), ChunksOf(c)) = InFront(y, o)
      BY <2>4, <2>7, <2>9, <2>10, OnlyCons
    <3> QED BY <2>2, <2>3, <3>4, <3>5
  <2>11. CASE x \notin ChunksOf(c)
    <3>1. Only(InFront(x, s), ChunksOf(c)) = o /\ Only(InFront(y, s), ChunksOf(c)) = o
      BY <2>4, <2>7, <2>9, <2>11, OnlyCons
    <3> QED BY <2>6, <3>1
  <2> QED BY <2>10, <2>11
<1> QED BY <1>0, <1>1

\* A data event.
LEMMA LinedAppend ==
  ASSUME NEW x \in Chunk, NEW s \in Seq(Chunk), NEW k, NEW l, Lined(s, k),
         x.at = k[x.on].arrived, l[x.on].arrived = x.at + x.size,
         \A c \in Conn : c # x.on => l[c].arrived = k[c].arrived
  PROVE  Lined(Append(s, x), l)
<1> SUFFICES ASSUME NEW c \in Conn
             PROVE  \E a \in Nat : InLine(Only(Append(s, x), ChunksOf(c)), c, a, l[c].arrived)
  BY DEF Lined
<1>1. PICK a \in Nat : InLine(Only(s, ChunksOf(c)), c, a, k[c].arrived)
  BY DEF Lined
<1>2. PICK o : o = Only(s, ChunksOf(c))
  OBVIOUS
<1>3. x \in ChunksOf(c) <=> c = x.on
  BY ChunkFields
<1>4. CASE c = x.on
  <2>1. Only(Append(s, x), ChunksOf(c)) = Append(o, x)
    BY <1>2, <1>3, <1>4, OnlyAppend
  <2>2. InLine(o, c, a, x.at)
    BY <1>1, <1>2, <1>4
  <2>3. InLine(Append(o, x), c, a, x.at + x.size)
    BY <1>3, <1>4, <2>2, LineAppend
  <2> QED BY <1>4, <2>1, <2>3
<1>5. CASE c # x.on
  <2>1. Only(Append(s, x), ChunksOf(c)) = o
    BY <1>2, <1>3, <1>5, OnlyAppend
  <2> QED BY <1>1, <1>2, <1>5, <2>1
<1> QED BY <1>4, <1>5

\* A chunk that a call holds is in front of those in the queue.
InHand(r) == task[r].held \o queue

\* Under Node no call holds a chunk.  In a browser one call is no more than one
\* chunk ahead of the queue.
OrderInv ==
  /\ \A r \in Caller : /\ Len(task[r].held) <= 1
                       /\ ~setup.blobs \/ r \notin setup.callers => task[r].held = <<>>
  /\ ~setup.blobs => Lined(queue, conn)
  /\ \A r \in Caller : setup.blobs /\ setup.callers = {r} => Lined(InHand(r), conn)

\* Most steps leave all of this alone.
LEMMA SameOrder ==
  ASSUME JsInv, OrderInv, UNCHANGED <<setup, queue>>,
         \A r \in Caller : task'[r].held = task[r].held,
         \A c \in Conn : conn'[c].arrived = conn[c].arrived
  PROVE  OrderInv'
<1>1. ASSUME NEW s, Lined(s, conn) PROVE Lined(s, conn')
  BY <1>1 DEF Lined
<1>2. \A r \in Caller : InHand(r)' = InHand(r)
  BY DEF InHand
<1>3. ~setup.blobs => Lined(queue, conn')
  BY <1>1 DEF OrderInv
<1>4. ASSUME NEW r \in Caller, setup.blobs, setup.callers = {r} PROVE Lined(InHand(r), conn')
  BY <1>1, <1>4 DEF OrderInv
<1>5. \A r \in Caller : /\ Len(task'[r].held) <= 1
                        /\ ~setup.blobs \/ r \notin setup.callers => task'[r].held = <<>>
  BY DEF OrderInv
<1> HIDE DEF Lined, InHand
<1>6. ~setup'.blobs => Lined(queue', conn')
  BY <1>3
<1>7. \A r \in Caller : setup'.blobs /\ setup'.callers = {r} => Lined(InHand(r)', conn')
  BY <1>2, <1>4
<1> QED BY <1>5, <1>6, <1>7 DEF OrderInv

\* A call that is done, or starts to wait, holds nothing.
LEMMA NothingHeld ==
  /\ Idle.held = <<>>
  /\ \A pc, n, c : Waiting(pc, n, c).held = <<>>
  /\ \A pc, n : ReadAll(pc, n).held = <<>>
BY DEF Idle, Waiting, ReadAll

\* A call that goes on with a chunk no longer holds it.
LEMMA GoOnTakes ==
  ASSUME JsInv, NEW r \in Caller, NEW chunk, NEW others, GoOn(r, chunk, others)
  PROVE  /\ queue' = QueueAfter(chunk, task[r].want, others)
         /\ task'[r].held = <<>> /\ \A q \in Caller : q # r => task'[q] = task[q]
         /\ \A c \in Conn : conn'[c].arrived = conn[c].arrived
<1> DEFINE n    == task[r].want
           have == Append(task[r].chunks, [chunk EXCEPT !.size = IF @ > n THEN n ELSE @])
<1>0. task = [q \in Caller |-> task[q]] /\ conn = [c \in Conn |-> conn[c]]
  BY DEF JsInv, TasksOK, ConnsOK
<1>t. TaskOK(task[r]) /\ \A c \in Conn : ConnOK(conn[c])
  BY DEF JsInv, TasksOK, ConnsOK
<1>1. queue' = QueueAfter(chunk, n, others)
  BY DEF GoOn
<1>2. CASE Completes(r, have)
  <2> HIDE DEF have, n
  <2>1. \E t : t.held = <<>> /\ task' = [task EXCEPT ![r] = t]
    <3>1. CASE HeaderRead(r, have)
      <4>1. PICK size : task' = [task EXCEPT ![r] = ReadAll("body", BodySize(size))]
        BY <3>1 DEF HeaderRead
      <4> QED BY <4>1, NothingHeld
    <3>2. CASE BodyRead(r, have) \/ ActTwoRead(r, have)
      BY <3>2, NothingHeld DEF BodyRead, ActTwoRead
    <3> QED BY <1>2, <3>1, <3>2 DEF Completes
  <2>2. \A c \in Conn : conn'[c].arrived = conn[c].arrived
    <3>1. conn' = conn \/ conn' = [conn EXCEPT ![ws].ready = @ \/ ws = hs]
      BY <1>2 DEF Completes, HeaderRead, BodyRead, ActTwoRead
    <3>2. CASE conn' = [conn EXCEPT ![ws].ready = @ \/ ws = hs]
      <4> DEFINE b == conn[ws].ready \/ ws = hs
      <4>1. conn' = [conn EXCEPT ![ws] = [conn[ws] EXCEPT !.ready = b]]
        BY <3>2
      <4> HIDE DEF b
      <4>2. [conn[ws] EXCEPT !.ready = b].arrived = conn[ws].arrived \/ ws \notin Conn
        BY <1>t DEF ConnOK
      <4> QED BY <1>0, <4>1, <4>2
    <3> QED BY <3>1, <3>2
  <2> QED BY <1>0, <1>1, <2>1, <2>2 DEF n
<1>3. CASE /\ task' = [task EXCEPT ![r].chunks = have, ![r].held = <<>>,
                                   ![r].want = Remaining(chunk, n)]
           /\ UNCHANGED <<hs, rx, conn, got>>
  <2> HIDE DEF have
  <2>1. PICK v : v = Remaining(chunk, n)
    OBVIOUS
  <2> DEFINE t == [task[r] EXCEPT !.chunks = have, !.held = <<>>, !.want = v]
  <2>2. task' = [task EXCEPT ![r] = t]
    BY <1>0, <1>3, <2>1
  <2>3. t.held = <<>>
    BY <1>t DEF TaskOK
  <2> HIDE DEF t
  <2> QED BY <1>0, <1>1, <1>3, <2>2, <2>3
<1> QED BY <1>2, <1>3 DEF GoOn

\* Only one call may have taken something from the queue.
LEMMA OrderOne ==
  ASSUME JsInv, OrderInv, NEW r \in Caller, r \in setup.callers, setup' = setup,
         \A q \in Caller : q # r => task'[q] = task[q],
         Len(task'[r].held) <= 1,
         ~setup.blobs => task'[r].held = <<>> /\ Lined(queue', conn'),
         setup.blobs /\ setup.callers = {r} => Lined(InHand(r)', conn')
  PROVE  OrderInv'
<1>1. \A q \in Caller : /\ Len(task'[q].held) <= 1
                        /\ ~setup.blobs \/ q \notin setup.callers => task'[q].held = <<>>
  BY DEF OrderInv
<1>2. \A q \in Caller : setup.callers = {q} => q = r
  OBVIOUS
<1> HIDE DEF Lined, InHand
<1>3. \A q \in Caller : setup'.blobs /\ setup'.callers = {q} => Lined(InHand(q)', conn')
  BY <1>2
<1> QED BY <1>1, <1>3 DEF OrderInv

LEMMA LinedSame ==
  ASSUME NEW s, NEW k, NEW l, Lined(s, k), \A c \in Conn : l[c].arrived = k[c].arrived
  PROVE  Lined(s, l)
BY DEF Lined

LEMMA OrderInit == Init => OrderInv
<1> SUFFICES ASSUME Init PROVE OrderInv
  OBVIOUS
<1>1. queue = <<>> /\ \A r \in Caller : task[r].held = <<>>
  BY NothingHeld DEF Init
<1>2. \A c \in Conn : conn[c].arrived = 0
  BY DEF Init
<1>3. Lined(<<>>, conn)
  <2> SUFFICES ASSUME NEW c \in Conn
               PROVE  \E a \in Nat : InLine(Only(<<>>, ChunksOf(c)), c, a, conn[c].arrived)
    BY DEF Lined
  <2>1. Only(<<>>, ChunksOf(c)) = <<>>
    BY OnlyEmpty
  <2>2. InLine(<<>>, c, 0, 0)
    BY LineEmpty
  <2> QED BY <1>2, <2>1, <2>2
<1>4. <<>> \o <<>> = <<>> /\ Len(<<>>) = 0
  OBVIOUS
<1>5. \A r \in Caller : InHand(r) = <<>>
  BY <1>1, <1>4 DEF InHand
<1> QED BY <1>1, <1>3, <1>4, <1>5 DEF OrderInv

\* A call of one chunk in hand, and of none.
LEMMA InHandIs ==
  ASSUME JsInv, NEW r \in Caller, Len(task[r].held) <= 1
  PROVE  /\ task[r].held \in Seq(Chunk)
         /\ task[r].held = <<>> => InHand(r) = queue
         /\ task[r].held # <<>> => /\ Head(task[r].held) \in Chunk
                                   /\ InHand(r) = InFront(Head(task[r].held), queue)
<1>1. task[r].held \in Seq(Chunk) /\ queue \in Seq(Chunk)
  BY DEF JsInv, TasksOK, TaskOK
<1>2. <<>> \o queue = queue
  BY <1>1, ConcatEmptySeq
<1>3. ASSUME task[r].held # <<>>
      PROVE  Head(task[r].held) \in Chunk /\ task[r].held = <<Head(task[r].held)>>
  <2>1. PICK h : h = task[r].held
    OBVIOUS
  <2>2. h \in Seq(Chunk) /\ h # <<>> /\ Len(h) <= 1
    BY <1>1, <1>3, <2>1
  <2>3. Len(h) = 1 /\ Head(h) = h[1] /\ h[1] \in Chunk
    <3>0. PICK n : n = Len(h)
      OBVIOUS
    <3>a. PICK m : m = Len(Tail(h))
      OBVIOUS
    <3>1. m \in Nat /\ m = n - 1 /\ n \in Nat /\ n <= 1
      BY <2>2, <3>0, <3>a, HeadTailProperties
    <3>b. n = 1
      BY <3>1
    <3>2. Len(h) = 1 /\ 1 \in 1..Len(h)
      BY <3>0, <3>b
    <3>3. h[1] \in Chunk
      BY <2>2, <3>2, ElementOfSeq
    <3> QED BY <2>2, <3>2, <3>3
  <2>4. h = <<h[1]>>
    BY <2>2, <2>3
  <2> QED BY <2>1, <2>3, <2>4
<1> QED BY <1>1, <1>2, <1>3 DEF InHand, InFront

LEMMA FulfilledOrder ==
  ASSUME JsInv, OrderInv, NEW r \in Caller, r \in setup.callers, Fulfilled(r)
  PROVE  OrderInv'
<1>1. task[r].held # <<>> /\ setup' = setup /\ GoOn(r, Head(task[r].held), queue)
  BY DEF Fulfilled
<1>2. PICK x : x = Head(task[r].held)
  OBVIOUS
<1>3. setup.blobs /\ Len(task[r].held) <= 1
  BY <1>1 DEF OrderInv
<1>4. x \in Chunk /\ InHand(r) = InFront(x, queue)
  BY <1>1, <1>2, <1>3, InHandIs
<1>5. queue \in Seq(Chunk) /\ task[r].want \in Nat \ {0}
  <2>1. TaskOK(task[r])
    BY DEF JsInv, TasksOK
  <2> QED BY <1>1, <2>1 DEF JsInv, TaskOK
<1>6. /\ queue' = QueueAfter(x, task[r].want, queue)
      /\ task'[r].held = <<>> /\ \A q \in Caller : q # r => task'[q] = task[q]
      /\ \A c \in Conn : conn'[c].arrived = conn[c].arrived
  BY <1>1, <1>2, <1>4, GoOnTakes
<1>7. ASSUME setup.callers = {r} PROVE Lined(InHand(r)', conn')
  <2>1. Lined(InFront(x, queue), conn)
    BY <1>3, <1>4, <1>7 DEF OrderInv
  <2>2. Lined(QueueAfter(x, task[r].want, queue), conn)
    BY <1>4, <1>5, <2>1, LinedAfter
  <2>3. PICK s : s = QueueAfter(x, task[r].want, queue)
    OBVIOUS
  <2>4. Lined(s, conn')
    BY <1>6, <2>2, <2>3, LinedSame
  <2>5. s \in Seq(Chunk)
    <3>1. JsInv' => queue' \in Seq(Chunk)
      BY DEF JsInv
    <3>2. JsInv'
      <4>1. Next
        BY DEF Next, Runs
      <4> QED BY <4>1, JsStep
    <3> QED BY <1>6, <2>3, <3>1, <3>2
  <2>6. InHand(r)' = <<>> \o s
    BY <1>6, <2>3 DEF InHand
  <2>7. <<>> \o s = s
    BY <2>5, ConcatEmptySeq
  <2> QED BY <2>4, <2>6, <2>7
<1>8. Len(<<>>) <= 1
  OBVIOUS
<1> QED BY <1>1, <1>3, <1>6, <1>7, <1>8, OrderOne

LEMMA TickOrder ==
  ASSUME JsInv, OrderInv, NEW r \in Caller, r \in setup.callers, TickFinds(r)
  PROVE  OrderInv'
<1>1. queue # <<>> /\ setup' = setup /\ Polls(r) /\ task[r].held = <<>>
  BY DEF TickFinds, Polls
<1>2. PICK x : x = Head(queue)
  OBVIOUS
<1>3. PICK s : s = Tail(queue)
  OBVIOUS
<1>4. /\ queue \in Seq(Chunk) /\ task[r].want \in Nat \ {0} /\ TaskOK(task[r])
      /\ task = [q \in Caller |-> task[q]]
  <2>1. TaskOK(task[r])
    BY DEF JsInv, TasksOK
  <2> QED BY <1>1, <2>1 DEF JsInv, TaskOK, TasksOK, Polls, Polling
<1>5. x \in Chunk /\ s \in Seq(Chunk) /\ queue = InFront(x, s)
  BY <1>1, <1>2, <1>3, <1>4, HeadCons
<1>6. Len(<<>>) <= 1 /\ Len(<<x>>) <= 1
  OBVIOUS
<1>7. CASE ~setup.blobs /\ GoOn(r, x, s)
  <2>1. /\ queue' = QueueAfter(x, task[r].want, s)
        /\ task'[r].held = <<>> /\ \A q \in Caller : q # r => task'[q] = task[q]
        /\ \A c \in Conn : conn'[c].arrived = conn[c].arrived
    BY <1>7, GoOnTakes
  <2>2. Lined(InFront(x, s), conn)
    BY <1>5, <1>7 DEF OrderInv
  <2>3. Lined(QueueAfter(x, task[r].want, s), conn)
    BY <1>4, <1>5, <2>2, LinedAfter
  <2>4. Lined(queue', conn')
    BY <2>1, <2>3, LinedSame
  <2> QED BY <1>1, <1>6, <1>7, <2>1, <2>4, OrderOne
<1>8. CASE setup.blobs /\ task' = [task EXCEPT ![r].held = <<x>>] /\ queue' = s /\ conn' = conn
  <2>1. PICK o : o = <<x>>
    OBVIOUS
  <2> DEFINE t == [task[r] EXCEPT !.held = o]
  <2>2. task' = [task EXCEPT ![r] = t]
    BY <1>8, <2>1
  <2>3. t.held = o
    BY <1>4 DEF TaskOK
  <2> HIDE DEF t
  <2>4. task'[r].held = o /\ \A q \in Caller : q # r => task'[q] = task[q]
    BY <1>4, <2>2, <2>3
  <2>5. InHand(r)' = queue
    BY <1>5, <1>8, <2>1, <2>4 DEF InHand, InFront
  <2>6. InHand(r) = queue
    BY <1>1, <1>6, InHandIs
  <2>7. setup.callers = {r} => Lined(InHand(r)', conn')
    BY <1>8, <2>5, <2>6 DEF OrderInv
  <2> QED BY <1>1, <1>6, <1>8, <2>1, <2>4, <2>7, OrderOne
<1> QED BY <1>2, <1>3, <1>7, <1>8 DEF TickFinds

LEMMA DataOrder ==
  ASSUME JsInv, OrderInv, NEW c \in Conn, Data(c)
  PROVE  OrderInv'
<1>1. PICK n \in setup.pieces \cup {conn[c].sent - conn[c].arrived} :
        /\ queue' = Append(queue, [on |-> c, at |-> conn[c].arrived, size |-> n])
        /\ conn' = [conn EXCEPT ![c].arrived = @ + n]
  BY DEF Data
<1>2. PICK x : x = [on |-> c, at |-> conn[c].arrived, size |-> n]
  OBVIOUS
<1>3. /\ queue \in Seq(Chunk) /\ conn = [d \in Conn |-> conn[d]] /\ ConnOK(conn[c])
      /\ setup.pieces \subseteq Nat \ {0} /\ conn[c].arrived < conn[c].sent
      /\ setup' = setup /\ task' = task
  BY JsAssumption DEF Data, JsInv, FlagsOK, ConnsOK
<1>4. n \in Nat \ {0} /\ conn[c].arrived \in Nat
  BY <1>3 DEF ConnOK
<1>5. x \in Chunk /\ x.on = c /\ x.at = conn[c].arrived /\ x.size = n
  BY <1>2, <1>4 DEF Chunk
<1>6. conn'[c].arrived = x.at + x.size /\ \A d \in Conn : d # c => conn'[d].arrived = conn[d].arrived
  <2> DEFINE now == conn[c].arrived + n
             k == [conn[c] EXCEPT !.arrived = now]
  <2>1. conn' = [conn EXCEPT ![c] = k]
    BY <1>1
  <2> HIDE DEF now
  <2>2. k.arrived = now
    BY <1>3 DEF ConnOK
  <2> HIDE DEF k
  <2>3. conn'[c].arrived = now
    BY <1>3, <2>1, <2>2
  <2> QED BY <1>3, <1>5, <2>1, <2>3 DEF now
<1>7. queue' = Append(queue, x)
  BY <1>1, <1>2
<1>8. ASSUME NEW s \in Seq(Chunk), Lined(s, conn) PROVE Lined(Append(s, x), conn')
  BY <1>5, <1>6, <1>8, LinedAppend
<1>9. ~setup.blobs => Lined(queue', conn')
  BY <1>3, <1>7, <1>8 DEF OrderInv
<1>10. ASSUME NEW r \in Caller, setup.blobs, setup.callers = {r}
       PROVE  Lined(InHand(r)', conn')
  <2>1. PICK h : h = task[r].held
    OBVIOUS
  <2>2. h \in Seq(Chunk)
    BY <2>1 DEF JsInv, TasksOK, TaskOK
  <2>3. Lined(h \o queue, conn)
    BY <1>10, <2>1 DEF OrderInv, InHand
  <2>4. h \o queue \in Seq(Chunk)
    BY <1>3, <2>2, ConcatProperties
  <2>5. Lined(Append(h \o queue, x), conn')
    BY <1>8, <2>3, <2>4
  <2>6. Append(h \o queue, x) = h \o Append(queue, x)
    <3>1. PICK o : o = <<x>>
      OBVIOUS
    <3>2. o \in Seq(Chunk)
      BY <1>5, <3>1
    <3>3. Append(h \o queue, x) = (h \o queue) \o o
      BY <1>5, <2>4, <3>1, AppendIsConcat
    <3>4. Append(queue, x) = queue \o o
      BY <1>3, <1>5, <3>1, AppendIsConcat
    <3>5. (h \o queue) \o o = h \o (queue \o o)
      BY <1>3, <2>2, <3>2, ConcatAssociative
    <3> QED BY <3>3, <3>4, <3>5
  <2> QED BY <1>3, <1>7, <2>1, <2>5, <2>6 DEF InHand
<1>11. \A r \in Caller : /\ Len(task'[r].held) <= 1
                         /\ ~setup.blobs \/ r \notin setup.callers => task'[r].held = <<>>
  BY <1>3 DEF OrderInv
<1> HIDE DEF Lined, InHand
<1>12. ~setup'.blobs => Lined(queue', conn')
  BY <1>3, <1>9
<1>13. \A r \in Caller : setup'.blobs /\ setup'.callers = {r} => Lined(InHand(r)', conn')
  BY <1>3, <1>10
<1>14. \A r \in Caller : ~setup'.blobs \/ r \notin setup'.callers => task'[r].held = <<>>
  BY <1>3, <1>11
<1> QED BY <1>11, <1>12, <1>13, <1>14 DEF OrderInv

LEMMA OrderStep == JsInv /\ OrderInv /\ [Next]_vars => OrderInv'
<1> SUFFICES ASSUME JsInv, OrderInv, [Next]_vars PROVE OrderInv'
  OBVIOUS
<1>a. setup.callers \subseteq Caller /\ setup.msgs \subseteq Msg
  BY JsAssumption DEF JsInv, FlagsOK
<1>b. /\ task = [r \in Caller |-> task[r]] /\ \A r \in Caller : TaskOK(task[r])
      /\ conn = [c \in Conn |-> conn[c]] /\ \A c \in Conn : ConnOK(conn[c])
  BY DEF JsInv, TasksOK, ConnsOK
\* One call starts or stops to wait.
<1>c. ASSUME NEW r \in Caller, NEW t, task' = [task EXCEPT ![r] = t],
             task[r].held = <<>>, t.held = <<>>
      PROVE  \A q \in Caller : task'[q].held = task[q].held
  BY <1>b, <1>c
\* One socket changes.
<1>d. ASSUME NEW c \in Conn, NEW k, conn' = [conn EXCEPT ![c] = k], k.arrived = conn[c].arrived
      PROVE  \A d \in Conn : conn'[d].arrived = conn[d].arrived
  BY <1>b, <1>d
\* No call holds a chunk but one that polls.
<1>e. /\ Idle.held = <<>>
      /\ \A r \in Caller : task[r].pc \in {"idle", "open"} => task[r].held = <<>>
  BY <1>b, NothingHeld DEF TaskOK, Polling
<1>1. ASSUME NEW r \in Caller, Connect(r) PROVE OrderInv'
  <2> DEFINE c == CHOOSE x \in Unused : \A d \in Unused : x <= d
             k == [conn[c] EXCEPT !.st = "new"]
  <2>1. /\ UNCHANGED <<setup, queue>> /\ conn' = [conn EXCEPT ![c] = k]
        /\ task' = [task EXCEPT ![r] = Waiting("open", 0, c)] /\ task[r] = Idle
    BY <1>1 DEF Connect
  <2> HIDE DEF c
  <2>2. \A d \in Conn : conn'[d].arrived = conn[d].arrived
    <3>1. c \in Conn => k.arrived = conn[c].arrived
      BY <1>b DEF ConnOK
    <3> HIDE DEF k
    <3> QED BY <1>b, <2>1, <3>1
  <2>3. \A q \in Caller : task'[q].held = task[q].held
    BY <1>c, <1>e, <2>1, NothingHeld
  <2> QED BY <2>1, <2>2, <2>3, SameOrder
<1>2. ASSUME NEW c \in Conn, Open(c) PROVE OrderInv'
  <2> DEFINE waiting == {r \in Caller : task[r].pc = "open" /\ task[r].on = c}
             b == waiting # {}
             k == [conn[c] EXCEPT !.st = "open", !.act1 = b]
  <2>1. /\ UNCHANGED <<setup, queue>> /\ conn' = [conn EXCEPT ![c] = k]
        /\ task' = [r \in Caller |-> IF r \in waiting
                                     THEN Waiting("act2", ActTwoSize, NoConn)
                                     ELSE task[r]]
    BY <1>2 DEF Open
  <2>2. \A r \in waiting : task[r].held = <<>>
    BY <1>e
  <2> HIDE DEF b, waiting
  <2>3. k.arrived = conn[c].arrived
    BY <1>b DEF ConnOK
  <2> HIDE DEF k
  <2>4. \A d \in Conn : conn'[d].arrived = conn[d].arrived
    BY <1>d, <2>1, <2>3
  <2>5. \A q \in Caller : task'[q].held = task[q].held
    BY <2>1, <2>2, NothingHeld
  <2> QED BY <2>1, <2>4, <2>5, SameOrder
<1>3. ASSUME NEW r \in Caller, Timeout(r) \/ TickRejects(r) PROVE OrderInv'
  <2>1. UNCHANGED <<setup, queue, conn>> /\ task' = [task EXCEPT ![r] = Idle] /\ task[r].held = <<>>
    BY <1>3, <1>e DEF Timeout, TickRejects, Polls
  <2>2. \A q \in Caller : task'[q].held = task[q].held
    BY <1>c, <1>e, <2>1
  <2> QED BY <2>1, <2>2, SameOrder
<1>4. ASSUME NEW c \in Conn, Close(c) PROVE OrderInv'
  <2> DEFINE k == [conn[c] EXCEPT !.st = "closed"]
  <2>1. UNCHANGED <<setup, queue, task>> /\ conn' = [conn EXCEPT ![c] = k]
    BY <1>4 DEF Close
  <2>2. k.arrived = conn[c].arrived
    BY <1>b DEF ConnOK
  <2> HIDE DEF k
  <2>3. \A d \in Conn : conn'[d].arrived = conn[d].arrived
    BY <1>d, <2>1, <2>2
  <2> QED BY <2>1, <2>3, SameOrder
<1>5. CASE Disconnect
  <2> DEFINE k == [conn[ws] EXCEPT !.st = "closing"]
  <2>0. ws \in Conn
    BY <1>5 DEF Disconnect, JsInv, FlagsOK
  <2>1. UNCHANGED <<setup, queue, task>> /\ conn' = [conn EXCEPT ![ws] = k]
    BY <1>5 DEF Disconnect
  <2>2. k.arrived = conn[ws].arrived
    BY <1>b, <2>0 DEF ConnOK
  <2> HIDE DEF k
  <2>3. \A d \in Conn : conn'[d].arrived = conn[d].arrived
    BY <1>d, <2>0, <2>1, <2>2
  <2> QED BY <2>1, <2>3, SameOrder
<1>6. ASSUME NEW r \in Caller, CallRead(r) PROVE OrderInv'
  <2>1. UNCHANGED <<setup, queue, conn>> /\ task[r] = Idle
        /\ task' = [task EXCEPT ![r] = ReadAll("hdr", HdrSize)]
    BY <1>6 DEF CallRead
  <2>2. \A q \in Caller : task'[q].held = task[q].held
    BY <1>c, <1>e, <2>1, NothingHeld
  <2> QED BY <2>1, <2>2, SameOrder
<1>7. ASSUME NEW c \in Conn, PeerActTwo(c) \/ \E m \in Msg : PeerSend(c, m) PROVE OrderInv'
  <2>1. /\ UNCHANGED <<setup, queue, task>>
        /\ \E v : conn' = [conn EXCEPT ![c].sent = v]
    BY <1>7 DEF PeerActTwo, PeerSend
  <2>2. PICK v : conn' = [conn EXCEPT ![c].sent = v]
    BY <2>1
  <2> DEFINE k == [conn[c] EXCEPT !.sent = v]
  <2>3. conn' = [conn EXCEPT ![c] = k]
    BY <2>2
  <2>4. k.arrived = conn[c].arrived
    BY <1>b DEF ConnOK
  <2> HIDE DEF k
  <2>5. \A d \in Conn : conn'[d].arrived = conn[d].arrived
    BY <1>d, <2>3, <2>4
  <2> QED BY <2>1, <2>5, SameOrder
<1>8. CASE UNCHANGED vars
  <2>1. UNCHANGED <<setup, queue, task, conn>>
    BY <1>8 DEF vars
  <2> QED BY <2>1, SameOrder
<1>9. CASE Next
  <2>1. ASSUME NEW r \in setup.callers, Connect(r) \/ CallRead(r) \/ Runs(r) PROVE OrderInv'
    BY <1>1, <1>3, <1>6, <1>a, <2>1, TickOrder, FulfilledOrder DEF Runs
  <2>2. ASSUME NEW c \in Conn, \/ Open(c) \/ Close(c) \/ PeerActTwo(c) \/ Data(c)
                               \/ \E m \in setup.msgs : PeerSend(c, m)
        PROVE  OrderInv'
    BY <1>2, <1>4, <1>7, <1>a, <2>2, DataOrder
  <2> QED BY <1>5, <1>9, <2>1, <2>2 DEF Next
<1> QED BY <1>8, <1>9

-----------------------------------------------------------------------------
(* The bytes of a line *)

\* Bytes counts chunk by chunk.
Sums(f, s) ==
  /\ f \in [0..Len(s) -> Nat] /\ f[0] = 0
  /\ \A i \in 1..Len(s) : f[i] = f[i - 1] + s[i].size

LEMMA BytesSum ==
  ASSUME NEW c, NEW s \in Seq(ChunksOf(c))
  PROVE  \E f : Sums(f, s) /\ Bytes(s) = f[Len(s)]
<1> DEFINE N == Len(s)
           step == [p \in (1..N) \X Nat |-> p[2] + s[p[1]].size]
           Is(f) == f = [i \in 0..N |-> IF i = 0 THEN 0 ELSE f[i - 1] + s[i].size]
<1>1. N \in Nat /\ \A i \in 1..N : s[i].size \in Nat
  <2>1. \A i \in 1..N : s[i] \in ChunksOf(c)
    BY ElementOfSeq
  <2> QED BY <2>1, ChunkFields
<1>2. \A i \in 1..N : \A v \in Nat : step[<<i, v>>] = v + s[i].size /\ step[<<i, v>>] \in Nat
  <2> TAKE i \in 1..N
  <2> TAKE v \in Nat
  <2>1. step[<<i, v>>] = v + s[i].size
    OBVIOUS
  <2> HIDE DEF step, N
  <2> QED BY <1>1, <2>1
<1> HIDE DEF step, N
<1>a. Closed(step, N, Nat)
  BY <1>2 DEF Closed
<1>b. PICK base : base = 0 /\ base \in Nat
  OBVIOUS
<1>c. PICK f : Follows(f, step, N, Nat, base)
  BY <1>1, <1>a, <1>b, Recursion
<1>3. f \in [0..N -> Nat] /\ f[0] = base /\ \A i \in 1..N : f[i] = step[<<i, f[i - 1]>>]
  BY <1>c DEF Follows
<1>4. \A i \in 0..N : f[i] = IF i = 0 THEN 0 ELSE f[i - 1] + s[i].size
  <2> TAKE i \in 0..N
  <2> SUFFICES ASSUME i # 0 PROVE f[i] = f[i - 1] + s[i].size
    BY <1>3, <1>b
  <2>1. i \in 1..N /\ i - 1 \in 0..N
    BY <1>1
  <2>2. f[i - 1] \in Nat
    BY <1>3, <2>1
  <2>3. step[<<i, f[i - 1]>>] = f[i - 1] + s[i].size
    BY <1>2, <2>1, <2>2
  <2> QED BY <1>3, <2>1, <2>3
<1>5. Is(f)
  BY <1>3, <1>4
<1>6. \E g : Is(g) /\ Bytes(s) = g[N]
  <2>1. Bytes(s) = (CHOOSE g : Is(g))[N]
    BY DEF Bytes, N
  <2> HIDE DEF Is
  <2> QED BY <1>5, <2>1
<1>7. PICK g : Is(g) /\ Bytes(s) = g[N]
  BY <1>6
<1>8. g = [i \in 0..N |-> IF i = 0 THEN 0 ELSE g[i - 1] + s[i].size]
  BY <1>7
<1>9. g[0] = 0 /\ \A i \in 1..N : g[i] = g[i - 1] + s[i].size
  <2>1. 0 \in 0..N /\ \A i \in 1..N : i \in 0..N /\ i # 0
    BY <1>1
  <2>2. \A i \in 0..N : g[i] = IF i = 0 THEN 0 ELSE g[i - 1] + s[i].size
    BY <1>8, Zenon
  <2> QED BY <2>1, <2>2, Zenon
<1>10. \A i \in 0..N : g[i] \in Nat
  <2> DEFINE I == {i \in 0..N : g[i] \in Nat}
  <2>1. 0 \in I
    BY <1>1, <1>9
  <2>2. ASSUME NEW n \in 0..(N - 1), n \in I PROVE n + 1 \in I
    <3>1. n + 1 \in 1..N /\ n + 1 \in 0..N /\ (n + 1) - 1 = n
      BY <1>1
    <3>2. g[n + 1] = g[n] + s[n + 1].size
      BY <1>9, <3>1
    <3> QED BY <1>1, <2>2, <3>1, <3>2
  <2> HIDE DEF I
  <2>3. \A n \in 0..N : n \in I
    BY <1>1, <2>1, <2>2, Induct
  <2> QED BY <2>3 DEF I
<1>11. g \in [0..N -> Nat]
  BY <1>8, <1>10
<1> QED BY <1>7, <1>9, <1>11 DEF Sums, N

\* A line has as many bytes as there are from its start to its end.
LEMMA LineBytes ==
  ASSUME NEW c, NEW s, NEW a, NEW b, InLine(s, c, a, b)
  PROVE  Bytes(s) \in Nat /\ b = a + Bytes(s) /\ a <= b
<1>0. s \in Seq(ChunksOf(c)) /\ a \in Nat /\ b \in Nat /\ Solid(s)
  BY DEF InLine
<1>1. PICK f : Sums(f, s) /\ Bytes(s) = f[Len(s)]
  BY <1>0, BytesSum
<1> DEFINE N == Len(s)
           I == {i \in 0..N : i > 0 => a + f[i] = s[i].at + s[i].size}
<1>2. N \in Nat /\ \A i \in 1..N : s[i].at \in Nat /\ s[i].size \in Nat
  <2>1. \A i \in 1..N : s[i] \in ChunksOf(c)
    BY <1>0, ElementOfSeq
  <2> QED BY <1>0, <2>1, ChunkFields
<1>3. f \in [0..N -> Nat] /\ f[0] = 0 /\ \A i \in 1..N : f[i] = f[i - 1] + s[i].size
  BY <1>1 DEF Sums
<1>4. /\ N > 0 => s[1].at = a /\ s[N].at + s[N].size = b
      /\ N = 0 => a = b
      /\ \A i \in 1..(N - 1) : s[i + 1].at = s[i].at + s[i].size
  <2>1. N > 0 => s # <<>>
    OBVIOUS
  <2>2. N = 0 => s = <<>>
    BY <1>0
  <2> QED BY <1>0, <2>1, <2>2 DEF InLine, Solid
<1> HIDE DEF N
<1>5. 0 \in I
  BY <1>2
<1>6. ASSUME NEW n \in 0..(N - 1), n \in I PROVE n + 1 \in I
  <2>1. n + 1 \in 1..N /\ n + 1 \in 0..N /\ (n + 1) - 1 = n /\ n \in 0..N
    BY <1>2
  <2>2. f[n + 1] = f[n] + s[n + 1].size /\ f[n] \in Nat
    BY <1>3, <2>1
  <2>3. CASE n = 0
    <3>1. N > 0 /\ 1 \in 1..N
      BY <1>2, <2>1, <2>3
    <3>2. n + 1 = 1 /\ f[1] = s[1].size /\ s[1].at = a
      BY <1>2, <1>3, <1>4, <2>2, <2>3, <3>1
    <3>3. a + f[n + 1] = s[n + 1].at + s[n + 1].size
      BY <3>2
    <3> QED BY <2>1, <3>3
  <2>4. CASE n # 0
    <3>1. n \in 1..(N - 1) /\ n \in 1..N /\ n > 0
      BY <1>2, <2>4
    <3>2. a + f[n] = s[n].at + s[n].size /\ s[n + 1].at = s[n].at + s[n].size
      BY <1>4, <1>6, <3>1
    <3>3. s[n].at \in Nat /\ s[n].size \in Nat /\ s[n + 1].size \in Nat
      BY <1>2, <2>1, <3>1
    <3>4. a + f[n + 1] = s[n + 1].at + s[n + 1].size
      BY <1>0, <2>2, <3>2, <3>3
    <3> QED BY <2>1, <3>4
  <2> QED BY <2>3, <2>4
<1>7. N \in 0..N
  BY <1>2
<1> HIDE DEF I
<1>8. N \in I
  BY <1>2, <1>5, <1>6, <1>7, Induct
<1>9. f[N] \in Nat /\ b = a + f[N]
  <2>1. CASE N = 0
    BY <1>0, <1>3, <1>4, <2>1
  <2>2. CASE N # 0
    <3>1. N > 0
      BY <1>2, <2>2
    <3>2. a + f[N] = s[N].at + s[N].size
      BY <1>8, <3>1 DEF I
    <3>3. s[N].at + s[N].size = b
      BY <1>4, <3>1
    <3> QED BY <1>0, <1>3, <1>7, <3>2, <3>3
  <2> QED BY <2>1, <2>2
<1> QED BY <1>0, <1>1, <1>9 DEF N

\* A call takes what it wants of the chunk in front.
Cut(x, n) == [x EXCEPT !.size = IF @ > n THEN n ELSE @]
Part(x, n) == IF x.size > n THEN n ELSE x.size

LEMMA LineCut ==
  ASSUME NEW c, NEW x \in ChunksOf(c), NEW n \in Nat \ {0}, NEW s \in Seq(ChunksOf(c)),
         NEW others \in Seq(ChunksOf(c)), NEW a, NEW p, NEW b,
         InLine(s, c, a, p), InLine(InFront(x, others), c, p, b)
  PROVE  /\ Part(x, n) \in Nat \ {0}
         /\ Cut(x, n) \in ChunksOf(c)
         /\ InLine(Append(s, Cut(x, n)), c, a, p + Part(x, n))
         /\ InLine(QueueAfter(x, n, others), c, p + Part(x, n), b)
<1>1. PICK t : t = InFront(x, others)
  OBVIOUS
<1>2. x.at = p /\ InLine(others, c, p + x.size, b)
  BY <1>1, LineTail
<1>3. x.on = c /\ x.at \in Nat /\ x.size \in Nat \ {0}
  BY ChunkFields
<1>4. PICK m : m = Part(x, n)
  OBVIOUS
<1>5. m \in Nat \ {0}
  BY <1>3, <1>4 DEF Part
<1>6. PICK y : y = Cut(x, n)
  OBVIOUS
<1>7. y \in ChunksOf(c) /\ y.at = p /\ y.size = m
  BY <1>2, <1>3, <1>4, <1>5, <1>6 DEF Cut, Part, ChunksOf
<1>8. InLine(Append(s, y), c, a, p + m)
  <2>1. InLine(s, c, a, y.at)
    BY <1>7
  <2> QED BY <1>7, <2>1, LineAppend
<1>9. CASE x.size > n
  <2>1. m = n
    BY <1>4, <1>9 DEF Part
  <2>2. PICK z : z = Rest(x, n)
    OBVIOUS
  <2>3. z.at = p + n /\ z.size = x.size - n /\ z \in ChunksOf(c)
    <3>1. p + n \in Nat /\ x.size - n \in Nat \ {0}
      BY <1>2, <1>3, <1>9
    <3> QED BY <1>2, <2>2, <3>1 DEF Rest, ChunksOf
  <2>4. z.at + z.size = p + x.size
    BY <1>2, <1>3, <2>3
  <2>5. InLine(InFront(z, others), c, z.at, b)
    BY <1>2, <2>3, <2>4, LineFront
  <2>6. QueueAfter(x, n, others) = InFront(z, others)
    BY <1>9, <2>2 DEF QueueAfter, InFront
  <2> QED BY <1>4, <1>5, <1>6, <1>7, <1>8, <2>1, <2>3, <2>5, <2>6
<1>10. CASE ~(x.size > n)
  <2>1. m = x.size /\ QueueAfter(x, n, others) = others
    BY <1>4, <1>10 DEF Part, QueueAfter
  <2> QED BY <1>2, <1>4, <1>5, <1>6, <1>7, <1>8, <2>1
<1> QED BY <1>9, <1>10

-----------------------------------------------------------------------------
(* What the peer of one socket sends *)

\* Where act two and j messages end.
Ends(u, j) == IF j = 0 THEN ActTwoSize ELSE u[2 * j].at + u[2 * j].size

IsUnit(v, n, at, size) ==
  v.n = n /\ v.at = at /\ v.size = size /\ v.k = SessionRx(1).k /\ v.whole

\* The j-th message: a header and a body, one behind the other.
IsMessage(u, j) ==
  /\ Ends(u, j - 1) \in Nat
  /\ IsUnit(u[2 * j - 1], 2 * j - 2, Ends(u, j - 1), HdrSize)
  /\ u[2 * j - 1].head /\ u[2 * j - 1].len \in Nat \ {0}
  /\ IsUnit(u[2 * j], 2 * j - 1, Ends(u, j - 1) + HdrSize, BodySize(u[2 * j - 1].len))

Stream(u, M) == M \in Nat /\ Len(u) = 2 * M /\ \A j \in 1..M : IsMessage(u, j)

LEMMA EndsNat ==
  ASSUME NEW u, NEW M, Stream(u, M), NEW j \in 0..M
  PROVE  Ends(u, j) \in Nat \ {0}
<1>1. CASE j = 0
  BY <1>1, JsAssumption DEF Ends
<1>2. CASE j # 0
  <2>1. j \in 1..M
    BY <1>2 DEF Stream
  <2>2. IsMessage(u, j)
    BY <2>1 DEF Stream
  <2>3. BodySize(u[2 * j - 1].len) \in Nat \ {0} /\ HdrSize \in Nat \ {0}
    BY <2>2, Sizes DEF IsMessage
  <2>4. /\ u[2 * j].at = Ends(u, j - 1) + HdrSize /\ u[2 * j].size = BodySize(u[2 * j - 1].len)
        /\ Ends(u, j - 1) \in Nat
    BY <2>2 DEF IsMessage, IsUnit
  <2>5. Ends(u, j) = u[2 * j].at + u[2 * j].size
    BY <1>2 DEF Ends
  <2> QED BY <2>3, <2>4, <2>5
<1> QED BY <1>1, <1>2

\* Every unit is sealed under a nonce of its own.
LEMMA UnitNonce ==
  ASSUME NEW u, NEW M, Stream(u, M), NEW i \in 1..(2 * M)
  PROVE  u[i].n = i - 1
<1>0. M \in Nat
  BY DEF Stream
<1>1. PICK j \in 1..M : i = 2 * j - 1 \/ i = 2 * j
  <2>1. CASE i % 2 = 0
    <3>1. i \div 2 \in 1..M /\ i = 2 * (i \div 2)
      BY <1>0, <2>1
    <3> QED BY <3>1
  <2>2. CASE i % 2 = 1
    <3>1. (i + 1) \div 2 \in 1..M /\ i = 2 * ((i + 1) \div 2) - 1
      BY <1>0, <2>2
    <3> QED BY <3>1
  <2>3. i % 2 = 0 \/ i % 2 = 1
    BY <1>0
  <2> QED BY <2>1, <2>2, <2>3
<1>2. IsMessage(u, j)
  BY DEF Stream
<1>3. u[2 * j - 1].n = 2 * j - 2 /\ u[2 * j].n = 2 * j - 1
  BY <1>2 DEF IsMessage, IsUnit
<1> QED BY <1>0, <1>1, <1>3

LEMMA OneOpens ==
  ASSUME NEW u, NEW M, Stream(u, M), UnitsOK(u), NEW i \in 1..(2 * M), NEW h, NEW at, NEW size,
         IsUnit(u[i], i - 1, at, size), h.n = i - 1, h.k = SessionRx(1).k
  PROVE  Opens(h, at, size, u) = {u[i]}
<1>1. DOMAIN u = 1..(2 * M) /\ M \in Nat
  <2>1. u = [k \in 1..Len(u) |-> u[k]]
    BY DEF UnitsOK
  <2> QED BY <2>1 DEF Stream
<1>2. u[i] \in Opens(h, at, size, u)
  BY <1>1 DEF Opens, IsUnit
<1>3. ASSUME NEW v \in Opens(h, at, size, u) PROVE v = u[i]
  <2>1. PICK k \in DOMAIN u : v = u[k] /\ u[k].n = h.n
    BY DEF Opens
  <2>2. k \in 1..(2 * M)
    BY <1>1
  <2>3. u[k].n = k - 1
    BY <2>2, UnitNonce
  <2>4. k = i
    BY <1>1, <2>1, <2>2, <2>3
  <2> QED BY <2>1, <2>4
<1> QED BY <1>2, <1>3

\* A half in step with g messages opens the next header, and then its body.
OpensNext(u, g, h) ==
  /\ u[2 * g + 1].head /\ u[2 * g + 1].len \in Nat \ {0}
  /\ u[2 * g + 2].size = BodySize(u[2 * g + 1].len)
  /\ h.n = 2 * g => Opens(h, Ends(u, g), HdrSize, u) = {u[2 * g + 1]}
  /\ h.n = 2 * g + 1 =>
       Opens(h, Ends(u, g) + HdrSize, u[2 * g + 2].size, u) = {u[2 * g + 2]}
  /\ Ends(u, g + 1) = Ends(u, g) + HdrSize + u[2 * g + 2].size

LEMMA NextOpens ==
  ASSUME NEW u, NEW M, Stream(u, M), UnitsOK(u), NEW g \in 0..(M - 1), NEW h,
         h.k = SessionRx(1).k
  PROVE  OpensNext(u, g, h)
<1>0. M \in Nat /\ g \in Nat
  BY DEF Stream
<1>1. PICK j : j = g + 1
  OBVIOUS
<1>2. /\ j \in 1..M /\ 2 * j - 1 = 2 * g + 1 /\ 2 * j = 2 * g + 2 /\ 2 * j - 2 = 2 * g /\ j - 1 = g
      /\ 2 * g + 1 \in 1..(2 * M) /\ 2 * g + 2 \in 1..(2 * M)
      /\ (2 * g + 1) - 1 = 2 * g /\ (2 * g + 2) - 1 = 2 * g + 1
  BY <1>0, <1>1
<1>3. IsMessage(u, j)
  BY <1>2 DEF Stream
<1>4. /\ IsUnit(u[2 * g + 1], 2 * g, Ends(u, g), HdrSize)
      /\ u[2 * g + 1].head /\ u[2 * g + 1].len \in Nat \ {0}
      /\ IsUnit(u[2 * g + 2], 2 * g + 1, Ends(u, g) + HdrSize, BodySize(u[2 * g + 1].len))
  BY <1>2, <1>3 DEF IsMessage
<1>5. u[2 * g + 2].size = BodySize(u[2 * g + 1].len)
  BY <1>4 DEF IsUnit
<1>6. h.n = 2 * g => Opens(h, Ends(u, g), HdrSize, u) = {u[2 * g + 1]}
  <2>1. IsUnit(u[2 * g + 1], (2 * g + 1) - 1, Ends(u, g), HdrSize)
    BY <1>2, <1>4
  <2> QED BY <1>2, <2>1, OneOpens
<1>7. h.n = 2 * g + 1 => Opens(h, Ends(u, g) + HdrSize, u[2 * g + 2].size, u) = {u[2 * g + 2]}
  <2>1. IsUnit(u[2 * g + 2], (2 * g + 2) - 1, Ends(u, g) + HdrSize, u[2 * g + 2].size)
    BY <1>2, <1>4, <1>5
  <2> QED BY <1>2, <2>1, OneOpens
<1>8. Ends(u, g + 1) = Ends(u, g) + HdrSize + u[2 * g + 2].size
  <2>1. Ends(u, g + 1) = u[2 * g + 2].at + u[2 * g + 2].size
    BY <1>0, <1>1, <1>2 DEF Ends
  <2> QED BY <1>4, <2>1 DEF IsUnit
<1> QED BY <1>4, <1>5, <1>6, <1>7, <1>8 DEF OpensNext

\* The peer seals one message more.
OneMore(u, h, sent, m) ==
  u \o EncryptMsg(h, sent, MsgLen[m], m, NotMsg, FrameSize(MsgLen[m]))
Grows(t, u, M, sent) ==
  /\ Stream(t, M + 1) /\ Ends(t, M + 1) = sent
  /\ \A j \in 0..M : Ends(t, j) = Ends(u, j)
  /\ \A i \in 1..(2 * M) : t[i] = u[i]

LEMMA StreamGrows ==
  ASSUME NEW u, NEW M, Stream(u, M), UnitsOK(u), NEW m \in Msg, NEW sent, sent = Ends(u, M),
         NEW h, h.n = 2 * M, h.k = SessionRx(1).k, NEW t, t = OneMore(u, h, sent, m)
  PROVE  Grows(t, u, M, sent + FrameSize(MsgLen[m]))
<1> DEFINE e == EncryptMsg(h, sent, MsgLen[m], m, NotMsg, FrameSize(MsgLen[m]))
           len == MsgLen[m]
<1>0. M \in Nat /\ Len(u) = 2 * M /\ sent \in Nat \ {0} /\ len \in Nat \ {0}
      /\ HdrSize \in Nat /\ FrameSize(len) = HdrSize + BodySize(len) /\ FrameSize(len) >= HdrSize
      /\ BodySize(len) \in Nat
  <2>1. M \in Nat /\ Len(u) = 2 * M
    BY DEF Stream
  <2>2. M \in 0..M
    BY <2>1
  <2>3. sent \in Nat \ {0}
    BY <2>2, EndsNat
  <2>4. len \in Nat \ {0}
    BY JsAssumption
  <2> HIDE DEF len
  <2>5. HdrSize \in Nat /\ BodySize(len) \in Nat /\ FrameSize(len) = HdrSize + BodySize(len)
    BY <2>4, Sizes DEF FrameSize
  <2> QED BY <2>1, <2>3, <2>4, <2>5
<1>1. PICK a, b : /\ e = <<a, b>>
                  /\ IsUnit(a, 2 * M, sent, HdrSize) /\ a.head /\ a.len = len
                  /\ IsUnit(b, 2 * M + 1, sent + HdrSize, BodySize(len))
  <2>1. e = <<e[1], e[2]>>
    BY DEF EncryptMsg
  <2>2. IsUnit(e[1], 2 * M, sent, HdrSize) /\ e[1].head /\ e[1].len = len
    <3>1. e[1] = Unit(sent, HdrSize, h.k, h.n, TRUE, len, NotMsg, FrameSize(len) >= HdrSize)
      BY DEF EncryptMsg
    <3>2. PICK w : w = (FrameSize(len) >= HdrSize)
      OBVIOUS
    <3>3. w
      BY <1>0, <3>2
    <3> HIDE DEF e, len
    <3>4. e[1] = Unit(sent, HdrSize, h.k, h.n, TRUE, len, NotMsg, w)
      BY <3>1, <3>2
    <3> QED BY <1>0, <3>3, <3>4 DEF Unit, IsUnit
  <2>3. IsUnit(e[2], 2 * M + 1, sent + HdrSize, BodySize(len))
    <3>1. e[2] = Unit(sent + HdrSize, BodySize(len), h.k, h.n + 1, FALSE, len, m,
                     FrameSize(len) >= FrameSize(len))
      BY DEF EncryptMsg
    <3>2. PICK w : w = (FrameSize(len) >= FrameSize(len))
      OBVIOUS
    <3>a. FrameSize(len) \in Nat
      BY <1>0
    <3>b. FrameSize(len) >= FrameSize(len)
      BY <3>a
    <3>3. w
      BY <3>2, <3>b
    <3> HIDE DEF e, len
    <3>4. e[2] = Unit(sent + HdrSize, BodySize(len), h.k, h.n + 1, FALSE, len, m, w)
      BY <3>1, <3>2
    <3> QED BY <1>0, <3>3, <3>4 DEF Unit, IsUnit
  <2> HIDE DEF e
  <2> QED BY <2>1, <2>2, <2>3
<1> HIDE DEF e, len
<1>2. /\ t = [i \in 1..Len(t) |-> t[i]] /\ Len(t) = 2 * M + 2
      /\ \A i \in 1..(2 * M) : t[i] = u[i]
      /\ t[2 * M + 1] = a /\ t[2 * M + 2] = b
  <2>1. t = u \o <<a, b>>
    BY <1>1 DEF e, OneMore
  <2>2. u = [i \in 1..Len(u) |-> u[i]] /\ Len(u) \in Nat
    BY <1>0 DEF UnitsOK
  <2>3. /\ t = [i \in 1..Len(t) |-> t[i]] /\ Len(t) = Len(u) + 2
        /\ \A i \in 1..Len(u) : t[i] = u[i]
        /\ t[Len(u) + 1] = a /\ t[Len(u) + 2] = b
    BY <2>1, <2>2, AppendTwo
  <2> QED BY <1>0, <2>3
<1>3. \A j \in 0..M : Ends(t, j) = Ends(u, j)
  <2> TAKE j \in 0..M
  <2>1. j # 0 => 2 * j \in 1..(2 * M)
    BY <1>0
  <2> QED BY <1>2, <2>1 DEF Ends
<1>4. ASSUME NEW j \in 1..M PROVE IsMessage(t, j)
  <2>1. 2 * j - 1 \in 1..(2 * M) /\ 2 * j \in 1..(2 * M) /\ j - 1 \in 0..M
    BY <1>0
  <2>2. t[2 * j - 1] = u[2 * j - 1] /\ t[2 * j] = u[2 * j] /\ Ends(t, j - 1) = Ends(u, j - 1)
    BY <1>2, <1>3, <2>1
  <2>3. IsMessage(u, j)
    BY DEF Stream
  <2> QED BY <2>2, <2>3 DEF IsMessage
<1>5. PICK n : n = M + 1
  OBVIOUS
<1>6. /\ n \in Nat /\ 2 * n - 1 = 2 * M + 1 /\ 2 * n = 2 * M + 2 /\ 2 * n - 2 = 2 * M /\ n - 1 = M
      /\ 2 * n - 1 = 2 * M + 1 /\ n # 0 /\ M \in 0..M
  BY <1>0, <1>5
<1>7. IsMessage(t, n)
  <2>1. Ends(t, n - 1) = sent
    BY <1>3, <1>6
  <2>2. t[2 * n - 1] = a /\ t[2 * n] = b
    BY <1>2, <1>6
  <2> QED BY <1>0, <1>1, <1>6, <2>1, <2>2 DEF IsMessage
<1>8. Ends(t, n) = sent + FrameSize(len)
  <2>1. Ends(t, n) = b.at + b.size
    BY <1>2, <1>6 DEF Ends
  <2>2. b.at = sent + HdrSize /\ b.size = BodySize(len)
    BY <1>1 DEF IsUnit
  <2> QED BY <1>0, <2>1, <2>2
<1>9. \A j \in 1..n : IsMessage(t, j)
  <2>1. \A j \in 1..n : j \in 1..M \/ j = n
    BY <1>0, <1>5
  <2> QED BY <1>4, <1>7, <2>1
<1>10. Stream(t, M + 1) /\ Ends(t, M + 1) = sent + FrameSize(MsgLen[m])
  BY <1>2, <1>5, <1>6, <1>8, <1>9 DEF Stream, len
<1> QED BY <1>2, <1>3, <1>10 DEF Grows

-----------------------------------------------------------------------------
(* A call that reads alone *)

\* Call t wants the size bytes from a on of socket 1, of which b have arrived:
\* what it has, holds and can find in queue q follow each other.
Reads(t, q, a, size, b) ==
  \E p \in Nat : /\ InLine(t.chunks, 1, a, p) /\ p + t.want = a + size
                 /\ InLine(t.held \o q, 1, p, b)

LEMMA ReadsStart ==
  ASSUME NEW q, NEW a, NEW b, NEW size \in Nat, NEW pc, InLine(q, 1, a, b)
  PROVE  Reads(Waiting(pc, size, NoConn), q, a, size, b)
<1>1. PICK t : t = Waiting(pc, size, NoConn)
  OBVIOUS
<1>2. t.chunks = <<>> /\ t.held = <<>> /\ t.want = size
  BY <1>1 DEF Waiting
<1>3. q \in Seq(ChunksOf(1)) /\ a \in Nat
  BY DEF InLine
<1>4. <<>> \o q = q
  BY <1>3, ConcatEmptySeq
<1>5. InLine(<<>>, 1, a, a)
  BY <1>3, LineEmpty
<1> QED BY <1>1, <1>2, <1>3, <1>4, <1>5 DEF Reads

\* More bytes arrive.
LEMMA HandAppend ==
  ASSUME NEW held, NEW q, NEW T, held \in Seq(T), q \in Seq(T), NEW x \in T, NEW p, NEW b,
         InLine(held \o q, 1, p, b), x \in ChunksOf(1), x.at = b
  PROVE  InLine(held \o Append(q, x), 1, p, b + x.size)
<1>1. PICK o : o = <<x>>
  OBVIOUS
<1>2. o \in Seq(T)
  BY <1>1
<1>3. PICK s : s = held \o q
  OBVIOUS
<1>a. s \in Seq(T)
  BY <1>3, ConcatProperties
<1>4. Append(s, x) = s \o o
  BY <1>1, <1>a, AppendIsConcat
<1>5. Append(q, x) = q \o o
  BY <1>1, AppendIsConcat
<1>6. (held \o q) \o o = held \o (q \o o)
  BY <1>2, ConcatAssociative
<1>7. InLine(Append(s, x), 1, p, x.at + x.size)
  BY <1>3, LineAppend
<1> QED BY <1>3, <1>4, <1>5, <1>6, <1>7

LEMMA ReadsData ==
  ASSUME NEW t, NEW q, NEW T, t.held \in Seq(T), q \in Seq(T), NEW x \in T,
         NEW a, NEW size, NEW b, Reads(t, q, a, size, b), x \in ChunksOf(1), x.at = b
  PROVE  Reads(t, Append(q, x), a, size, b + x.size)
<1>1. PICK p \in Nat : /\ InLine(t.chunks, 1, a, p) /\ p + t.want = a + size
                       /\ InLine(t.held \o q, 1, p, b)
  BY DEF Reads
<1>2. InLine(t.held \o Append(q, x), 1, p, b + x.size)
  BY <1>1, HandAppend
<1> QED BY <1>1, <1>2 DEF Reads

LEMMA InFrontIn ==
  ASSUME NEW T, NEW S, NEW x \in T, NEW s \in Seq(T), NEW t, t = InFront(x, s), t \in Seq(S)
  PROVE  x \in S /\ s \in Seq(S)
<1>1. IsInFront(t, x, s)
  BY ConsIs
<1>2. Len(t) = Len(s) + 1 /\ t[1] = x /\ Len(s) \in Nat /\ \A i \in 1..Len(s) : t[i + 1] = s[i]
  BY <1>1 DEF IsInFront
<1>3. \A i \in 1..Len(t) : t[i] \in S
  BY ElementOfSeq
<1>4. 1 \in 1..Len(t) /\ \A i \in 1..Len(s) : i + 1 \in 1..Len(t)
  BY <1>2
<1>5. x \in S /\ \A i \in 1..Len(s) : s[i] \in S
  BY <1>2, <1>3, <1>4
<1>6. s \in [1..Len(s) -> S]
  BY <1>5, LenProperties
<1> QED BY <1>2, <1>5, <1>6, SeqDef

\* The next chunk: it is the last the call wants, or not.
TakesNext(t, a, size, b, x, others) ==
  /\ x.size >= t.want =>
       /\ InLine(Append(t.chunks, Cut(x, t.want)), 1, a, a + size)
       /\ InLine(QueueAfter(x, t.want, others), 1, a + size, b)
  /\ x.size < t.want =>
       \A w : w.chunks = Append(t.chunks, Cut(x, t.want)) /\ w.held = <<>>
             /\ w.want = Remaining(x, t.want)
               => Reads(w, QueueAfter(x, t.want, others), a, size, b)

LEMMA ReadsNext ==
  ASSUME NEW t, NEW q, NEW a, NEW size, NEW b, Reads(t, q, a, size, b), t.want \in Nat \ {0},
         NEW x \in Chunk, NEW others \in Seq(Chunk), t.held \o q = InFront(x, others),
         a \in Nat, size \in Nat
  PROVE  TakesNext(t, a, size, b, x, others)
<1>1. PICK p \in Nat : /\ InLine(t.chunks, 1, a, p) /\ p + t.want = a + size
                       /\ InLine(t.held \o q, 1, p, b)
  BY DEF Reads
<1>2. PICK s : s = InFront(x, others)
  OBVIOUS
<1>3. InLine(s, 1, p, b) /\ s \in Seq(ChunksOf(1))
  BY <1>1, <1>2 DEF InLine
<1>4. x \in ChunksOf(1) /\ others \in Seq(ChunksOf(1))
  BY <1>2, <1>3, InFrontIn
<1>5. PICK n : n = t.want
  OBVIOUS
<1>6. PICK c : c = t.chunks
  OBVIOUS
<1>7. n \in Nat \ {0} /\ c \in Seq(ChunksOf(1)) /\ InLine(c, 1, a, p) /\ x.size \in Nat
  BY <1>1, <1>4, <1>5, <1>6, ChunkFields DEF InLine
<1>8. /\ InLine(Append(c, Cut(x, n)), 1, a, p + Part(x, n))
      /\ InLine(QueueAfter(x, n, others), 1, p + Part(x, n), b)
  BY <1>2, <1>3, <1>4, <1>7, LineCut
<1>9. ASSUME x.size >= n
      PROVE  /\ InLine(Append(c, Cut(x, n)), 1, a, a + size)
             /\ InLine(QueueAfter(x, n, others), 1, a + size, b)
  <2>1. Part(x, n) = n
    BY <1>7, <1>9 DEF Part
  <2>2. p + Part(x, n) = a + size
    BY <1>1, <1>5, <2>1
  <2> QED BY <1>8, <2>2
<1>10. ASSUME x.size < n, NEW w, w.chunks = Append(c, Cut(x, n)), w.held = <<>>,
              w.want = Remaining(x, n)
       PROVE  Reads(w, QueueAfter(x, n, others), a, size, b)
  <2>1. Part(x, n) = x.size
    BY <1>7, <1>10 DEF Part
  <2>2. (p + x.size) + w.want = a + size /\ p + x.size \in Nat
    BY <1>1, <1>5, <1>7, <1>10 DEF Remaining
  <2>3. PICK r : r = QueueAfter(x, n, others)
    OBVIOUS
  <2>4. r \in Seq(ChunksOf(1)) /\ InLine(r, 1, p + x.size, b)
    BY <1>8, <2>1, <2>3 DEF InLine
  <2>5. <<>> \o r = r
    BY <2>4, ConcatEmptySeq
  <2> QED BY <1>8, <1>10, <2>1, <2>2, <2>3, <2>4, <2>5 DEF Reads
<1> QED BY <1>5, <1>6, <1>9, <1>10 DEF TakesNext

\* A promise taken from the queue.
LEMMA ReadsTake ==
  ASSUME NEW t, NEW q, NEW a, NEW size, NEW b, Reads(t, q, a, size, b), t.held = <<>>,
         q \in Seq(Chunk), NEW x, NEW s, q = InFront(x, s),
         NEW w, w.chunks = t.chunks, w.want = t.want, w.held = <<x>>
  PROVE  Reads(w, s, a, size, b)
<1>1. <<>> \o q = q
  BY ConcatEmptySeq
<1>2. w.held \o s = t.held \o q
  BY <1>1 DEF InFront
<1> QED BY <1>2 DEF Reads

\* What one caller's call on one socket is at, when M messages were sent:
\* before act two is under way,
Quiet(r, M) ==
  /\ M = 0 /\ ~conn[1].ready /\ conn[1].sent = 0
  /\ queue = <<>> /\ task[r].held = <<>>
  /\ task[r].pc = "act2" =>
       task[r].want = ActTwoSize /\ task[r].chunks = <<>> /\ hs = 1 /\ ws = 1
  /\ conn[1].act1 /\ conn[1].st = "open" => task[r].pc = "act2"

\* while it is,
Opened == conn[1].st \in {"open", "closing", "closed"}
Greeted(r, M) ==
  /\ Opened /\ M = 0 /\ ~conn[1].ready /\ conn[1].sent = ActTwoSize
  /\ task[r].pc = "act2" /\ hs = 1 /\ ws = 1
  /\ Reads(task[r], queue, 0, ActTwoSize, conn[1].arrived)

\* in step with the peer from then on,
Half(n) == [n |-> n, k |-> SessionRx(1).k, ck |-> SessionRx(1).ck]
BetweenReads(r, g) ==
  /\ task[r].pc = "idle" /\ rx = Half(2 * g)
  /\ InLine(queue, 1, Ends(units[1], g), conn[1].arrived)
InHeader(r, g) ==
  /\ task[r].pc = "hdr" /\ rx = Half(2 * g)
  /\ Reads(task[r], queue, Ends(units[1], g), HdrSize, conn[1].arrived)
InBody(r, g, M) ==
  /\ task[r].pc = "body" /\ rx = Half(2 * g + 1) /\ g < M
  /\ Reads(task[r], queue, Ends(units[1], g) + HdrSize, units[1][2 * g + 2].size,
           conn[1].arrived)
InStep(r, M) ==
  /\ Opened /\ conn[1].ready /\ conn[1].sent = Ends(units[1], M)
  /\ \/ BetweenReads(r, Len(got)) \/ InHeader(r, Len(got)) \/ InBody(r, Len(got), M)

\* or done for, once a read was rejected.
Over(r) == conn[1].st = "closed" /\ task[r].pc = "idle"

Phase(r, M) == Over(r) \/ Quiet(r, M) \/ Greeted(r, M) \/ InStep(r, M)

Told(M) ==
  /\ Stream(units[1], M) /\ M <= setup.sends
  /\ Len(got) <= M /\ \A i \in 1..Len(got) : got[i] = units[1][2 * i].plain

Lone(r) == setup.conns = 1 /\ setup.callers = {r}
Others(r) ==
  /\ \A q \in Caller : q # r => task[q] = Idle
  /\ \A c \in Conn : c # 1 => conn[c].st = "unused"
  /\ connected <=> conn[1].st \in {"open", "closing"}

AloneInv(r) == Others(r) /\ \E M : Told(M) /\ Phase(r, M)
ReadInv == \A r \in Caller : Lone(r) => AloneInv(r)

Before(r, M) == JsInv /\ OrderInv /\ r \in Caller /\ Lone(r) /\ Others(r) /\ Told(M) /\ Phase(r, M)

LEMMA Facts ==
  ASSUME NEW r, NEW M, Before(r, M)
  PROVE  /\ 1 \in Conn /\ r \in Caller /\ ConnOK(conn[1]) /\ TaskOK(task[r]) /\ UnitsOK(units[1])
         /\ task = [q \in Caller |-> task[q]] /\ conn = [c \in Conn |-> conn[c]]
         /\ units = [c \in Conn |-> units[c]]
         /\ queue \in Seq(Chunk) /\ task[r].held \in Seq(Chunk) /\ got \in Seq(Msg \cup {NotMsg})
         /\ setup.conns = 1 /\ setup.callers = {r} /\ setup.msgs \subseteq Msg
         /\ setup.pieces \subseteq Nat \ {0} /\ setup.sends \in Nat /\ 2 * setup.sends < RotateAt
         /\ connected => ws = 1
         /\ Len(task[r].held) <= 1 /\ (~setup.blobs => task[r].held = <<>>)
         /\ \A c : c \in Unused => c = 1
<1> USE DEF Before
<1>1. setup \in Setups /\ setup.conns = 1 /\ setup.callers = {r}
  BY DEF JsInv, FlagsOK, Lone
<1>2. /\ setup.conns \in 0..MaxConns /\ setup.msgs \subseteq Msg
      /\ setup.pieces \subseteq Nat \ {0} /\ setup.sends \in Nat /\ 2 * setup.sends < RotateAt
  BY <1>1, JsAssumption
<1>3. 1 \in Conn /\ \A c : c \in Unused => c = 1
  BY <1>1, <1>2, JsAssumption DEF Conn, Unused
<1>4. TaskOK(task[r]) /\ ConnOK(conn[1]) /\ UnitsOK(units[1])
  BY <1>3 DEF JsInv, TasksOK, ConnsOK, StreamsOK
<1>5. /\ task = [q \in Caller |-> task[q]] /\ conn = [c \in Conn |-> conn[c]]
      /\ units = [c \in Conn |-> units[c]]
      /\ queue \in Seq(Chunk) /\ got \in Seq(Msg \cup {NotMsg})
  BY DEF JsInv, TasksOK, ConnsOK, StreamsOK
<1>6. task[r].held \in Seq(Chunk)
  BY <1>4 DEF TaskOK
<1>7. connected => ws = 1
  BY DEF JsInv, FlagTrue, Others
<1>8. Len(task[r].held) <= 1 /\ (~setup.blobs => task[r].held = <<>>)
  BY DEF OrderInv
<1> QED BY <1>1, <1>2, <1>3, <1>4, <1>5, <1>6, <1>7, <1>8

\* Only the state of the socket changes, and it is not opened.
LEMMA StateStep ==
  ASSUME NEW r, NEW M, Before(r, M),
         UNCHANGED <<setup, queue, ws, hs, rx, task, units, got>>,
         NEW st, conn' = [conn EXCEPT ![1].st = st], st \in {"closing", "closed"},
         Opened \/ conn[1].st = "new", conn[1].st # "closed",
         connected' = (st = "closing"), st = "closing" => Opened
  PROVE  AloneInv(r)'
<1> USE Facts
<1>1. DEFINE k == [conn[1] EXCEPT !.st = st]
<1>2. conn' = [conn EXCEPT ![1] = k]
  OBVIOUS
<1>3. /\ k.st = st /\ k.ready = conn[1].ready /\ k.sent = conn[1].sent
      /\ k.arrived = conn[1].arrived /\ k.act1 = conn[1].act1
  BY DEF ConnOK
<1> HIDE DEF k
<1>4. conn'[1] = k /\ \A c \in Conn : c # 1 => conn'[c] = conn[c]
  BY <1>2
<1>5. Others(r)'
  BY <1>3, <1>4 DEF Before, Others
<1>6. Told(M)'
  BY DEF Before, Told
<1>7. Phase(r, M)'
  <2>1. CASE Over(r)
    BY <2>1 DEF Over
  <2>2. CASE Quiet(r, M)
    <3>1. Quiet(r, M)'
      BY <2>2, <1>3, <1>4 DEF Quiet
    <3> QED BY <3>1 DEF Phase
  <2>3. CASE Greeted(r, M)
    <3>1. Greeted(r, M)'
      BY <2>3, <1>3, <1>4 DEF Greeted, Opened
    <3> QED BY <3>1 DEF Phase
  <2>4. CASE InStep(r, M)
    <3>1. InStep(r, M)'
      BY <2>4, <1>3, <1>4 DEF InStep, Opened, BetweenReads, InHeader, InBody
    <3> QED BY <3>1 DEF Phase
  <2> QED BY <2>1, <2>2, <2>3, <2>4 DEF Before, Phase
<1> QED BY <1>5, <1>6, <1>7 DEF AloneInv

\* Only the call changes.
LEMMA CallStep ==
  ASSUME NEW r, NEW M, Before(r, M),
         UNCHANGED <<setup, queue, connected, ws, hs, rx, conn, units, got>>,
         NEW t, task' = [task EXCEPT ![r] = t]
  PROVE  Others(r)' /\ Told(M)' /\ task'[r] = t
<1>1. task'[r] = t /\ \A q \in Caller : q # r => task'[q] = task[q]
  BY Facts
<1> QED BY <1>1 DEF Before, Others, Told

LEMMA ReadStep ==
  ASSUME NEW r, NEW M, Before(r, M), CallRead(r)
  PROVE  AloneInv(r)'
<1>1. /\ UNCHANGED <<setup, queue, connected, ws, hs, rx, conn, units, got>>
      /\ task[r] = Idle /\ task' = [task EXCEPT ![r] = ReadAll("hdr", HdrSize)]
  BY DEF CallRead
<1>2. Others(r)' /\ Told(M)' /\ task'[r] = ReadAll("hdr", HdrSize)
  BY <1>1, CallStep
<1>3. task[r].pc = "idle"
  BY <1>1 DEF Idle, Waiting
<1>4. CASE ~connected
  <2>1. task'[r] = task[r]
    BY <1>1, <1>2, <1>4 DEF ReadAll
  <2>2. Phase(r, M)'
    BY <1>1, <2>1 DEF Before, Phase, Over, Quiet, Greeted, InStep, Opened, BetweenReads,
                      InHeader, InBody
  <2> QED BY <1>2, <2>2 DEF AloneInv
<1>5. CASE connected
  <2>1. PICK t : t = Waiting("hdr", HdrSize, NoConn)
    OBVIOUS
  <2>2. task'[r] = t /\ t.pc = "hdr" /\ t.held = <<>>
    BY <1>2, <1>5, <2>1 DEF ReadAll, Waiting
  <2>3. conn[1].st \in {"open", "closing"}
    BY <1>5 DEF Before, Others
  <2>4. CASE Quiet(r, M)
    <3>1. Quiet(r, M)'
      BY <1>1, <1>3, <2>2, <2>4 DEF Quiet
    <3> QED BY <1>2, <3>1 DEF AloneInv, Phase
  <2>5. CASE InStep(r, M)
    <3>1. BetweenReads(r, Len(got))
      BY <1>3, <2>5 DEF InStep, InHeader, InBody
    <3>2. HdrSize \in Nat
      BY Sizes
    <3>3. Reads(t, queue, Ends(units[1], Len(got)), HdrSize, conn[1].arrived)
      BY <2>1, <3>1, <3>2, ReadsStart DEF BetweenReads
    <3>4. InHeader(r, Len(got))'
      BY <1>1, <2>2, <3>1, <3>3 DEF InHeader, BetweenReads
    <3>5. InStep(r, M)'
      BY <1>1, <2>5, <3>4 DEF InStep, Opened
    <3> QED BY <1>2, <3>5 DEF AloneInv, Phase
  <2> QED BY <1>3, <2>3, <2>4, <2>5 DEF Before, Phase, Over, Greeted
<1> QED BY <1>4, <1>5

LEMMA EndStep ==
  ASSUME NEW r, NEW M, Before(r, M), Timeout(r) \/ TickRejects(r)
  PROVE  AloneInv(r)'
<1>1. /\ UNCHANGED <<setup, queue, connected, ws, hs, rx, conn, units, got>>
      /\ task' = [task EXCEPT ![r] = Idle]
  BY DEF Timeout, TickRejects
<1>2. Others(r)' /\ Told(M)' /\ task'[r] = Idle
  BY <1>1, CallStep
<1>3. Idle.pc = "idle" /\ Idle.held = <<>>
  BY DEF Idle, Waiting
<1>4. CASE Quiet(r, M)
  <2>1. conn[1].act1 /\ conn[1].st = "open" => FALSE
    <3>1. CASE Timeout(r)
      BY <1>4, <3>1 DEF Timeout, Quiet
    <3>2. CASE TickRejects(r)
      BY <3>2 DEF TickRejects, Before, Others
    <3> QED BY <3>1, <3>2
  <2>2. Quiet(r, M)'
    BY <1>1, <1>2, <1>3, <1>4, <2>1 DEF Quiet
  <2> QED BY <1>2, <2>2 DEF AloneInv, Phase
<1>5. CASE Greeted(r, M) \/ InStep(r, M)
  <2>1. task[r].pc # "open"
    BY <1>5 DEF Greeted, InStep, BetweenReads, InHeader, InBody
  <2>2. ~connected
    BY <2>1 DEF Timeout, TickRejects
  <2>3. conn[1].st = "closed"
    BY <1>5, <2>2 DEF Before, Others, Greeted, InStep, Opened
  <2>4. Over(r)'
    BY <1>1, <1>2, <1>3, <2>3 DEF Over
  <2> QED BY <1>2, <2>4 DEF AloneInv, Phase
<1>6. CASE Over(r)
  BY <1>6 DEF Over, Timeout, TickRejects, Polls
<1> QED BY <1>4, <1>5, <1>6 DEF Before, Phase

LEMMA ConnectStep ==
  ASSUME NEW r, NEW M, Before(r, M), Connect(r)
  PROVE  AloneInv(r)'
<1> DEFINE c == CHOOSE x \in Unused : \A d \in Unused : x <= d
<1>0. /\ Unused # {} /\ UNCHANGED <<setup, queue, connected, ws, hs, rx, units, got>>
      /\ conn' = [conn EXCEPT ![c].st = "new"] /\ task' = [task EXCEPT ![r] = Waiting("open", 0, c)]
  BY DEF Connect
<1>1. c = 1 /\ conn[1].st = "unused"
  <2>1. \A x \in Unused : x = 1
    BY Facts
  <2>2. Unused = {1}
    BY <1>0, <2>1
  <2>3. c \in Unused
    BY <2>2
  <2> QED BY <2>2, <2>3 DEF Unused
<1> HIDE DEF c
<1>2. PICK k : k = [conn[1] EXCEPT !.st = "new"]
  OBVIOUS
<1>3. /\ k.st = "new" /\ k.ready = conn[1].ready /\ k.sent = conn[1].sent /\ k.act1 = conn[1].act1
  BY <1>2, Facts DEF ConnOK
<1>4. conn'[1] = k /\ \A d \in Conn : d # 1 => conn'[d] = conn[d]
  BY <1>0, <1>1, <1>2, Facts
<1>5. PICK t : t = Waiting("open", 0, 1)
  OBVIOUS
<1>6. t.pc = "open" /\ t.held = <<>>
  BY <1>5 DEF Waiting
<1>7. task'[r] = t /\ \A q \in Caller : q # r => task'[q] = task[q]
  BY <1>0, <1>1, <1>5, Facts
<1>8. Quiet(r, M)
  BY <1>1 DEF Before, Phase, Over, Greeted, InStep, Opened
<1>9. Quiet(r, M)'
  BY <1>0, <1>3, <1>4, <1>6, <1>7, <1>8 DEF Quiet
<1>10. Others(r)'
  BY <1>0, <1>1, <1>3, <1>4, <1>7 DEF Before, Others
<1>11. Told(M)'
  BY <1>0 DEF Before, Told
<1> QED BY <1>9, <1>10, <1>11 DEF AloneInv, Phase

LEMMA OpenStep ==
  ASSUME NEW r, NEW M, Before(r, M), NEW c \in Conn, Open(c)
  PROVE  AloneInv(r)'
<1> DEFINE waiting == {q \in Caller : task[q].pc = "open" /\ task[q].on = c}
           some == waiting # {}
<1>0. /\ conn[c].st = "new" /\ ws' = c /\ connected' = TRUE
      /\ UNCHANGED <<setup, queue, rx, units, got>>
      /\ conn' = [conn EXCEPT ![c].st = "open", ![c].act1 = some]
      /\ hs' = IF some THEN c ELSE hs
      /\ task' = [q \in Caller |-> IF q \in waiting THEN Waiting("act2", ActTwoSize, NoConn)
                                   ELSE task[q]]
  BY DEF Open
<1>1. c = 1
  BY <1>0 DEF Before, Others
<1>2. \A q \in Caller : q # r => q \notin waiting
  BY DEF Before, Others, Idle, Waiting
<1>a. some => r \in waiting
  BY <1>2
<1>b. some \in BOOLEAN /\ (r \in waiting => some)
  OBVIOUS
<1> HIDE DEF waiting, some
<1>3. PICK k : k = [conn[1] EXCEPT !.st = "open", !.act1 = some]
  OBVIOUS
<1>4. k.st = "open" /\ k.ready = conn[1].ready /\ k.sent = conn[1].sent /\ k.act1 = some
  BY <1>3, Facts DEF ConnOK
<1>5. conn'[1] = k /\ \A d \in Conn : d # 1 => conn'[d] = conn[d]
  BY <1>0, <1>1, <1>3, Facts
<1>6. \A q \in Caller : q # r => task'[q] = task[q]
  BY <1>0, <1>2
<1>7. Others(r)'
  BY <1>0, <1>4, <1>5, <1>6 DEF Before, Others
<1>8. Told(M)'
  BY <1>0 DEF Before, Told
<1>9. Quiet(r, M)
  BY <1>0, <1>1 DEF Before, Phase, Over, Greeted, InStep, Opened
<1>10. PICK t : t = Waiting("act2", ActTwoSize, NoConn)
  OBVIOUS
<1>11. t.pc = "act2" /\ t.held = <<>> /\ t.chunks = <<>> /\ t.want = ActTwoSize
  BY <1>10 DEF Waiting
<1>12. task'[r] = IF some THEN t ELSE task[r]
  BY <1>0, <1>a, <1>b, <1>10, Facts
<1>13. Quiet(r, M)'
  <2>1. CASE some
    BY <1>0, <1>1, <1>4, <1>5, <1>9, <1>11, <1>12, <2>1 DEF Quiet
  <2>2. CASE ~some
    BY <1>0, <1>1, <1>4, <1>5, <1>9, <1>12, <2>2 DEF Quiet
  <2> QED BY <2>1, <2>2
<1> QED BY <1>7, <1>8, <1>13 DEF AloneInv, Phase

\* Only what the peer has sent changes.
LEMMA PeerStep ==
  ASSUME NEW r, NEW M, Before(r, M), UNCHANGED <<setup, connected, task>>,
         NEW k, conn' = [conn EXCEPT ![1] = k], k.st = conn[1].st
  PROVE  Others(r)' /\ conn'[1] = k
<1>1. conn'[1] = k /\ \A d \in Conn : d # 1 => conn'[d] = conn[d]
  BY Facts
<1> QED BY <1>1 DEF Before, Others

LEMMA GreetStep ==
  ASSUME NEW r, NEW M, Before(r, M), NEW c \in Conn, PeerActTwo(c)
  PROVE  AloneInv(r)'
<1>0. /\ conn[c].st = "open" /\ conn[c].act1 /\ conn[c].sent = 0
      /\ conn' = [conn EXCEPT ![c].sent = ActTwoSize]
      /\ UNCHANGED <<setup, queue, connected, ws, hs, rx, task, units, got>>
  BY DEF PeerActTwo
<1>1. c = 1
  BY <1>0 DEF Before, Others
<1>2. PICK k : k = [conn[1] EXCEPT !.sent = ActTwoSize]
  OBVIOUS
<1>3. /\ k.st = conn[1].st /\ k.ready = conn[1].ready /\ k.sent = ActTwoSize
      /\ k.arrived = conn[1].arrived
  BY <1>2, Facts DEF ConnOK
<1>4. conn' = [conn EXCEPT ![1] = k]
  BY <1>0, <1>1, <1>2
<1>5. Others(r)' /\ conn'[1] = k
  BY <1>0, <1>3, <1>4, PeerStep
<1>6. Quiet(r, M)
  <2>1. ~Over(r)
    BY <1>0, <1>1 DEF Over
  <2>2. ~Greeted(r, M)
    BY <1>0, <1>1, JsAssumption DEF Greeted
  <2>3. ~InStep(r, M)
    <3>1. M \in 0..M /\ Stream(units[1], M)
      BY DEF Before, Told, Stream
    <3>2. Ends(units[1], M) # 0
      BY <3>1, EndsNat
    <3> QED BY <1>0, <1>1, <3>2 DEF InStep
  <2> QED BY <2>1, <2>2, <2>3 DEF Before, Phase
<1>7. conn[1].arrived = 0
  BY <1>0, <1>1, Facts DEF ConnOK
<1>8. /\ task[r].pc = "act2" /\ task[r].want = ActTwoSize /\ task[r].chunks = <<>>
      /\ hs = 1 /\ ws = 1 /\ task[r].held = <<>> /\ queue = <<>>
  BY <1>0, <1>1, <1>6 DEF Quiet
<1>9. Reads(task[r], queue, 0, ActTwoSize, 0)
  <2>1. <<>> \o <<>> = <<>>
    OBVIOUS
  <2>2. InLine(<<>>, 1, 0, 0)
    BY LineEmpty
  <2>3. 0 + ActTwoSize = 0 + ActTwoSize /\ 0 \in Nat
    OBVIOUS
  <2>4. InLine(task[r].chunks, 1, 0, 0) /\ InLine(task[r].held \o queue, 1, 0, 0)
    BY <1>8, <2>1, <2>2
  <2> QED BY <1>8, <2>3, <2>4 DEF Reads
<1>10. Greeted(r, M)'
  BY <1>0, <1>1, <1>3, <1>5, <1>6, <1>7, <1>8, <1>9 DEF Greeted, Quiet, Opened
<1>11. Told(M)'
  BY <1>0 DEF Before, Told
<1> QED BY <1>5, <1>10, <1>11 DEF AloneInv, Phase

LEMMA SendStep ==
  ASSUME NEW r, NEW M, Before(r, M), NEW c \in Conn, NEW m \in Msg, PeerSend(c, m)
  PROVE  AloneInv(r)'
<1> DEFINE h == [SessionRx(1) EXCEPT !.n = Len(units[1])]
           e == EncryptMsg(h, conn[1].sent, MsgLen[m], m, NotMsg, FrameSize(MsgLen[m]))
<1>1. c = 1
  BY DEF PeerSend, Before, Others
<1>0. /\ conn[1].st = "open" /\ conn[1].ready /\ Len(units[1]) < 2 * setup.sends
      /\ conn' = [conn EXCEPT ![1].sent = @ + FrameSize(MsgLen[m])]
      /\ units' = [units EXCEPT ![1] = @ \o e]
      /\ UNCHANGED <<setup, queue, connected, ws, hs, rx, task, got>>
  BY <1>1 DEF PeerSend
<1>2. InStep(r, M) /\ conn[1].sent = Ends(units[1], M) /\ Stream(units[1], M)
  BY <1>0 DEF Before, Phase, Over, Quiet, Greeted, InStep, Told
<1>3. PICK u : u = units[1]
  OBVIOUS
<1>4. PICK v : v = u \o e
  OBVIOUS
<1>5. M \in Nat /\ Len(u) = 2 * M /\ UnitsOK(u)
  BY <1>2, <1>3, Facts DEF Stream
<1>6. h.n = 2 * M /\ h.k = SessionRx(1).k
  BY <1>3, <1>5 DEF SessionRx
<1> HIDE DEF h
<1>7. /\ Stream(v, M + 1) /\ Ends(v, M + 1) = conn[1].sent + FrameSize(MsgLen[m])
      /\ \A j \in 0..M : Ends(v, j) = Ends(u, j)
      /\ \A i \in 1..(2 * M) : v[i] = u[i]
  <2>1. PICK s : s = conn[1].sent
    OBVIOUS
  <2>2. PICK hh : hh = h
    OBVIOUS
  <2>3. v = OneMore(u, hh, s, m)
    BY <1>4, <2>1, <2>2 DEF OneMore
  <2>4. s = Ends(u, M) /\ Stream(u, M) /\ hh.n = 2 * M /\ hh.k = SessionRx(1).k
    BY <1>2, <1>3, <1>6, <2>1, <2>2
  <2>5. Grows(v, u, M, s + FrameSize(MsgLen[m]))
    BY <1>5, <2>3, <2>4, StreamGrows
  <2> QED BY <2>1, <2>5 DEF Grows
<1> HIDE DEF e
<1>8. units'[1] = v
  BY <1>0, <1>3, <1>4, Facts
<1>9. PICK k : k = [conn[1] EXCEPT !.sent = conn[1].sent + FrameSize(MsgLen[m])]
  OBVIOUS
<1>10. /\ k.st = conn[1].st /\ k.ready = conn[1].ready /\ k.arrived = conn[1].arrived
       /\ k.sent = conn[1].sent + FrameSize(MsgLen[m])
  BY <1>9, Facts DEF ConnOK
<1>11. conn' = [conn EXCEPT ![1] = k]
  BY <1>0, <1>9
<1>12. Others(r)' /\ conn'[1] = k
  BY <1>0, <1>10, <1>11, PeerStep
<1>13. PICK g : g = Len(got)
  OBVIOUS
<1>14. g \in Nat /\ g <= M /\ \A i \in 1..g : got[i] = u[2 * i].plain
  BY <1>3, <1>13, Facts DEF Before, Told
<1>15. Told(M + 1)'
  <2>1. M + 1 <= setup.sends /\ g <= M + 1
    BY <1>0, <1>3, <1>5, <1>14, Facts
  <2>2. \A i \in 1..g : got[i] = v[2 * i].plain
    <3> TAKE i \in 1..g
    <3>1. 2 * i \in 1..(2 * M)
      BY <1>5, <1>14
    <3> QED BY <1>7, <1>14, <3>1
  <2> QED BY <1>0, <1>7, <1>8, <1>13, <2>1, <2>2 DEF Told
<1>16. InStep(r, M + 1)'
  <2>1. Ends(v, g) = Ends(u, g)
    BY <1>5, <1>7, <1>14
  <2>2. g < M => v[2 * g + 2] = u[2 * g + 2] /\ g < M + 1
    BY <1>5, <1>7, <1>14
  <2>3. BetweenReads(r, g) => BetweenReads(r, g)'
    BY <1>0, <1>3, <1>8, <1>10, <1>12, <2>1 DEF BetweenReads
  <2>4. InHeader(r, g) => InHeader(r, g)'
    BY <1>0, <1>3, <1>8, <1>10, <1>12, <2>1 DEF InHeader
  <2>5. InBody(r, g, M) => InBody(r, g, M + 1)'
    BY <1>0, <1>3, <1>8, <1>10, <1>12, <2>1, <2>2 DEF InBody
  <2>6. Opened' /\ conn'[1].ready /\ conn'[1].sent = Ends(v, M + 1)
    BY <1>2, <1>7, <1>10, <1>12 DEF InStep, Opened
  <2> QED BY <1>0, <1>2, <1>8, <1>13, <2>3, <2>4, <2>5, <2>6 DEF InStep
<1> QED BY <1>12, <1>15, <1>16 DEF AloneInv, Phase

LEMMA DataStep ==
  ASSUME NEW r, NEW M, Before(r, M), NEW c \in Conn, Data(c)
  PROVE  AloneInv(r)'
<1>1. c = 1
  BY DEF Data, Before, Others
<1>0. /\ conn[1].st = "open" /\ conn[1].arrived < conn[1].sent
      /\ UNCHANGED <<setup, connected, ws, hs, rx, task, units, got>>
  BY <1>1 DEF Data
<1>2. PICK n \in setup.pieces \cup {conn[1].sent - conn[1].arrived} :
        /\ queue' = Append(queue, [on |-> 1, at |-> conn[1].arrived, size |-> n])
        /\ conn' = [conn EXCEPT ![1].arrived = @ + n]
  BY <1>1 DEF Data
<1>3. n \in Nat \ {0} /\ conn[1].arrived \in Nat /\ conn[1].sent \in Nat
  BY <1>0, <1>2, Facts DEF ConnOK
<1>4. PICK x : x = [on |-> 1, at |-> conn[1].arrived, size |-> n]
  OBVIOUS
<1>5. x \in ChunksOf(1) /\ x \in Chunk /\ x.at = conn[1].arrived /\ x.size = n
  BY <1>3, <1>4, Facts DEF ChunksOf, Chunk
<1>6. queue' = Append(queue, x)
  BY <1>2, <1>4
<1>7. PICK k : k = [conn[1] EXCEPT !.arrived = conn[1].arrived + n]
  OBVIOUS
<1>8. /\ k.st = conn[1].st /\ k.ready = conn[1].ready /\ k.sent = conn[1].sent
      /\ k.arrived = conn[1].arrived + x.size
  BY <1>5, <1>7, Facts DEF ConnOK
<1>9. conn' = [conn EXCEPT ![1] = k]
  BY <1>2, <1>7
<1>10. Others(r)' /\ conn'[1] = k
  BY <1>0, <1>8, <1>9, PeerStep
<1>11. Told(M)'
  BY <1>0 DEF Before, Told
<1>12. ASSUME NEW a, NEW size, Reads(task[r], queue, a, size, conn[1].arrived)
       PROVE  Reads(task[r], queue', a, size, k.arrived)
  <2>1. Reads(task[r], Append(queue, x), a, size, conn[1].arrived + x.size)
    BY <1>5, <1>12, Facts, ReadsData
  <2> QED BY <1>6, <1>8, <2>1
<1>13. ~Over(r) /\ ~Quiet(r, M)
  BY <1>0, <1>3 DEF Over, Quiet
<1>14. CASE Greeted(r, M)
  <2>1. Greeted(r, M)'
    BY <1>0, <1>8, <1>10, <1>12, <1>14 DEF Greeted, Opened
  <2> QED BY <1>10, <1>11, <2>1 DEF AloneInv, Phase
<1>15. CASE InStep(r, M)
  <2>1. ASSUME NEW g, BetweenReads(r, g) PROVE BetweenReads(r, g)'
    <3>1. InLine(queue, 1, Ends(units[1], g), x.at)
      BY <1>5, <2>1 DEF BetweenReads
    <3>2. InLine(Append(queue, x), 1, Ends(units[1], g), x.at + x.size)
      BY <1>5, <3>1, LineAppend
    <3> QED BY <1>0, <1>5, <1>6, <1>8, <1>10, <2>1, <3>2 DEF BetweenReads
  <2>2. ASSUME NEW g, InHeader(r, g) PROVE InHeader(r, g)'
    BY <1>0, <1>8, <1>10, <1>12, <2>2 DEF InHeader
  <2>3. ASSUME NEW g, InBody(r, g, M) PROVE InBody(r, g, M)'
    BY <1>0, <1>8, <1>10, <1>12, <2>3 DEF InBody
  <2>4. Opened' /\ conn'[1].ready /\ (conn[1].sent = Ends(units[1], M))'
    BY <1>0, <1>8, <1>10, <1>15 DEF InStep, Opened
  <2>5. PICK g : g = Len(got)
    OBVIOUS
  <2>6. BetweenReads(r, g)' \/ InHeader(r, g)' \/ InBody(r, g, M)'
    BY <1>15, <2>1, <2>2, <2>3, <2>5 DEF InStep
  <2>7. Len(got)' = g
    BY <1>0, <2>5
  <2>8. InStep(r, M)'
    BY <1>0, <2>4, <2>5, <2>6, <2>7 DEF InStep, BetweenReads, InHeader, InBody
  <2> QED BY <1>10, <1>11, <2>8 DEF AloneInv, Phase
<1> QED BY <1>13, <1>14, <1>15 DEF Before, Phase

\* All the bytes from a on that a call waited for.
LEMMA WholeLine ==
  ASSUME NEW pieces, NEW a, NEW size \in Nat \ {0}, InLine(pieces, 1, a, a + size)
  PROVE  /\ Solid(pieces) /\ pieces[1].on = 1 /\ pieces[1].at = a
         /\ Bytes(pieces) = size /\ Hits(pieces) = Opens(rx, a, size, units[1])
<1>1. a \in Nat /\ pieces \in Seq(ChunksOf(1)) /\ Solid(pieces)
  BY DEF InLine
<1>2. Bytes(pieces) = size
  <2>1. Bytes(pieces) \in Nat /\ a + size = a + Bytes(pieces)
    BY LineBytes
  <2> QED BY <1>1, <2>1
<1>3. pieces # <<>>
  <2>1. pieces = <<>> => a = a + size
    BY DEF InLine
  <2> QED BY <1>1, <2>1
<1>4. pieces[1].at = a
  BY <1>3 DEF InLine
<1>5. pieces[1].on = 1
  <2>1. pieces[1] \in ChunksOf(1)
    BY <1>1, <1>3
  <2> QED BY <2>1, ChunkFields
<1> QED BY <1>1, <1>2, <1>4, <1>5 DEF Hits

\* What a call does with its last chunk, by what it waited for.
Finished(r, pieces, a, size) ==
  /\ Completes(r, pieces) /\ UNCHANGED <<setup, connected, ws, units>>
  /\ InLine(pieces, 1, a, a + size) /\ InLine(queue', 1, a + size, conn[1].arrived)

LEMMA ActTwoFinished ==
  ASSUME NEW r, NEW M, Before(r, M), Greeted(r, M), NEW pieces,
         Finished(r, pieces, 0, ActTwoSize)
  PROVE  AloneInv(r)'
<1>1. ActTwoSize \in Nat \ {0}
  BY JsAssumption
<1>2. Solid(pieces) /\ pieces[1].on = hs /\ pieces[1].at = 0 /\ hs = 1 /\ ws = 1
  <2>1. InLine(pieces, 1, 0, 0 + ActTwoSize)
    BY DEF Finished
  <2>2. Solid(pieces) /\ pieces[1].on = 1 /\ pieces[1].at = 0
    BY <1>1, <2>1, WholeLine
  <2> QED BY <2>2 DEF Greeted
<1>3. ActTwoRead(r, pieces)
  BY DEF Greeted, Finished, Completes, HeaderRead, BodyRead
<1>4. /\ rx' = SessionRx(hs) /\ conn' = [conn EXCEPT ![ws].ready = @ \/ ws = hs]
      /\ task' = [task EXCEPT ![r] = Idle] /\ got' = got
      /\ UNCHANGED <<setup, connected, ws, units>>
  BY <1>2, <1>3 DEF ActTwoRead, Finished
<1>5. PICK k : k = [conn[1] EXCEPT !.ready = TRUE]
  OBVIOUS
<1>6. /\ k.st = conn[1].st /\ k.ready /\ k.sent = conn[1].sent /\ k.arrived = conn[1].arrived
  BY <1>5, Facts DEF ConnOK
<1>7. conn'[1] = k /\ \A c \in Conn : c # 1 => conn'[c] = conn[c]
  <2>1. (conn[1].ready \/ 1 = 1) = TRUE
    OBVIOUS
  <2>2. conn' = [conn EXCEPT ![1] = k]
    BY <1>2, <1>4, <1>5, <2>1
  <2> QED BY <2>2, Facts
<1>8. task'[r] = Idle /\ \A q \in Caller : q # r => task'[q] = task[q]
  BY <1>4, Facts
<1>9. Others(r)'
  BY <1>4, <1>6, <1>7, <1>8 DEF Before, Others
<1>10. Told(M)'
  BY <1>4 DEF Before, Told
<1>11. M = 0 /\ Len(got) = 0 /\ Ends(units[1], 0) = ActTwoSize
  BY Facts DEF Greeted, Before, Told, Ends
<1>12. InLine(queue', 1, ActTwoSize, conn[1].arrived)
  <2>1. 0 + ActTwoSize = ActTwoSize
    BY <1>1
  <2> QED BY <2>1 DEF Finished
<1>13. BetweenReads(r, 0)'
  <2>1. Idle.pc = "idle"
    BY DEF Idle, Waiting
  <2>2. SessionRx(1) = Half(2 * 0)
    BY DEF SessionRx, Half
  <2> QED BY <1>2, <1>4, <1>6, <1>7, <1>8, <1>11, <1>12, <2>1, <2>2 DEF BetweenReads
<1>14. InStep(r, M)'
  <2>1. Opened' /\ conn'[1].ready /\ conn'[1].sent = Ends(units'[1], M)
    BY <1>4, <1>6, <1>7, <1>11 DEF Greeted, Opened
  <2>2. Len(got') = 0
    BY <1>4, <1>11
  <2> QED BY <1>13, <2>1, <2>2 DEF InStep, BetweenReads
<1> QED BY <1>9, <1>10, <1>14 DEF AloneInv, Phase

\* What is in step after a read.
LEMMA StillInStep ==
  ASSUME NEW r, NEW M, InStep(r, M), UNCHANGED <<conn, units>>, NEW g, Len(got') = g,
         BetweenReads(r, g)' \/ InHeader(r, g)' \/ InBody(r, g, M)'
  PROVE  InStep(r, M)'
BY DEF InStep, Opened, BetweenReads, InHeader, InBody

LEMMA HeaderFinished ==
  ASSUME NEW r, NEW M, Before(r, M), InStep(r, M), NEW g, g = Len(got), InHeader(r, g),
         NEW pieces, Finished(r, pieces, Ends(units[1], g), HdrSize)
  PROVE  AloneInv(r)'
<1> DEFINE u == units[1]
           a == Ends(units[1], g)
<1>0. g \in Nat /\ g <= M /\ M \in Nat /\ Stream(u, M) /\ UnitsOK(u)
  BY Facts DEF Before, Told, Stream
<1>1. a \in Nat /\ HdrSize \in Nat \ {0}
  BY <1>0, EndsNat, Sizes
<1>2. HeaderRead(r, pieces)
  BY DEF InHeader, Finished, Completes, BodyRead, ActTwoRead
<1>3. g < M
  <2>1. a + HdrSize <= conn[1].arrived /\ conn[1].arrived \in Nat
    BY LineBytes DEF Finished, InLine
  <2>2. conn[1].arrived <= conn[1].sent /\ conn[1].sent \in Nat
    BY Facts DEF ConnOK
  <2>3. conn[1].sent = Ends(u, M)
    BY DEF InStep
  <2>4. g # M
    BY <1>1, <2>1, <2>2, <2>3
  <2> QED BY <1>0, <2>4
<1>4. rx = Half(2 * g)
  BY DEF InHeader
<1>5. PICK v : v = u[2 * g + 1]
  OBVIOUS
<1>6. PICK size : size = u[2 * g + 2].size
  OBVIOUS
<1>7. /\ v.head /\ v.len \in Nat \ {0} /\ size = BodySize(v.len)
      /\ Opens(rx, a, HdrSize, u) = {v}
  <2>1. PICK h : h = rx
    OBVIOUS
  <2>2. h.n = 2 * g /\ h.k = SessionRx(1).k
    BY <1>4, <2>1 DEF Half
  <2>3. g \in 0..(M - 1)
    BY <1>0, <1>3
  <2>4. PICK uu : uu = u
    OBVIOUS
  <2>5. Stream(uu, M) /\ UnitsOK(uu)
    BY <1>0, <2>4
  <2>6. OpensNext(uu, g, h)
    BY <2>2, <2>3, <2>5, NextOpens
  <2>7. a = Ends(u, g)
    OBVIOUS
  <2> HIDE DEF u, a
  <2>8. OpensNext(u, g, rx)
    BY <2>1, <2>4, <2>6
  <2> QED BY <1>5, <1>6, <2>1, <2>2, <2>7, <2>8 DEF OpensNext
<1> HIDE DEF u, a
<1>8. Hits(pieces) = {v}
  <2>1. InLine(pieces, 1, a, a + HdrSize)
    BY DEF Finished, a
  <2>2. Hits(pieces) = Opens(rx, a, HdrSize, units[1])
    BY <1>1, <2>1, WholeLine
  <2> QED BY <1>7, <2>2 DEF u
<1>9. \A n \in SizesIn(Hits(pieces)) : BodySize(n) = size
  BY <1>7, <1>8 DEF SizesIn
<1>10. /\ task' = [task EXCEPT ![r] = ReadAll("body", size)]
       /\ rx' = AfterDecryptHeader(rx)
       /\ UNCHANGED <<setup, connected, ws, hs, conn, units, got>>
  BY <1>2, <1>9 DEF HeaderRead, Finished
<1>11. rx' = Half(2 * g + 1)
  BY <1>4, <1>10 DEF AfterDecryptHeader, Half
<1>12. task'[r] = ReadAll("body", size) /\ \A q \in Caller : q # r => task'[q] = task[q]
  BY <1>10, Facts
<1>13. Others(r)' /\ Told(M)'
  BY <1>10, <1>12 DEF Before, Others, Told
<1>14. CASE ~connected
  <2>1. conn[1].st = "closed"
    BY <1>14 DEF Before, Others, InStep, Opened
  <2>2. task'[r].pc = "idle"
    BY <1>12, <1>14 DEF ReadAll, Idle, Waiting
  <2>3. Over(r)'
    BY <1>10, <2>1, <2>2 DEF Over
  <2> QED BY <1>13, <2>3 DEF AloneInv, Phase
<1>15. CASE connected
  <2>1. PICK t : t = Waiting("body", size, NoConn)
    OBVIOUS
  <2>2. task'[r] = t /\ t.pc = "body"
    BY <1>12, <1>15, <2>1 DEF ReadAll, Waiting
  <2>3. size \in Nat
    BY <1>7, Sizes
  <2>4. Reads(t, queue', a + HdrSize, size, conn[1].arrived)
    <3>1. InLine(queue', 1, a + HdrSize, conn[1].arrived)
      BY DEF Finished, a
    <3>2. PICK q : q = queue'
      OBVIOUS
    <3>3. InLine(q, 1, a + HdrSize, conn[1].arrived)
      BY <3>1, <3>2
    <3>4. Reads(t, q, a + HdrSize, size, conn[1].arrived)
      BY <2>1, <2>3, <3>3, ReadsStart
    <3> QED BY <3>2, <3>4
  <2>5. InBody(r, g, M)'
    BY <1>3, <1>6, <1>10, <1>11, <2>2, <2>4 DEF InBody, a, u
  <2>6. InStep(r, M)'
    BY <1>10, <2>5, StillInStep
  <2> QED BY <1>13, <2>6 DEF AloneInv, Phase
<1> QED BY <1>14, <1>15

LEMMA BodyFinished ==
  ASSUME NEW r, NEW M, Before(r, M), InStep(r, M), NEW g, g = Len(got), InBody(r, g, M),
         NEW pieces,
         Finished(r, pieces, Ends(units[1], g) + HdrSize, units[1][2 * g + 2].size)
  PROVE  AloneInv(r)'
<1> DEFINE u == units[1]
           a == Ends(units[1], g)
           v == units[1][2 * g + 2]
<1>0. g \in Nat /\ g < M /\ M \in Nat /\ Stream(u, M) /\ UnitsOK(u) /\ M <= setup.sends
  BY Facts DEF Before, Told, Stream, InBody
<1>1. a \in Nat /\ HdrSize \in Nat /\ a + HdrSize \in Nat
  BY <1>0, EndsNat, Sizes
<1>2. BodyRead(r, pieces)
  BY DEF InBody, Finished, Completes, HeaderRead, ActTwoRead
<1>3. rx = Half(2 * g + 1)
  BY DEF InBody
<1>4. /\ v.size \in Nat \ {0} /\ v.size > Tag
      /\ Opens(rx, a + HdrSize, v.size, u) = {v}
      /\ Ends(u, g + 1) = a + HdrSize + v.size
  <2>1. rx.n = 2 * g + 1 /\ rx.k = SessionRx(1).k
    BY <1>3 DEF Half
  <2>2. g \in 0..(M - 1)
    BY <1>0
  <2>3. /\ u[2 * g + 1].len \in Nat \ {0} /\ v.size = BodySize(u[2 * g + 1].len)
        /\ Opens(rx, a + HdrSize, v.size, u) = {v}
        /\ Ends(u, g + 1) = a + HdrSize + v.size
    <3>1. PICK h : h = rx
      OBVIOUS
    <3>2. PICK uu : uu = u
      OBVIOUS
    <3>3. Stream(uu, M) /\ UnitsOK(uu) /\ h.k = SessionRx(1).k
      BY <1>0, <2>1, <3>1, <3>2
    <3>4. OpensNext(uu, g, h)
      BY <2>2, <3>3, NextOpens
    <3>5. v = u[2 * g + 2] /\ a = Ends(u, g)
      OBVIOUS
    <3> HIDE DEF u, a, v
    <3>6. OpensNext(u, g, rx)
      BY <3>1, <3>2, <3>4
    <3> QED BY <2>1, <3>5, <3>6 DEF OpensNext
  <2>4. PICK len : len = u[2 * g + 1].len
    OBVIOUS
  <2>5. len \in Nat \ {0} /\ v.size = len + Tag /\ Tag \in Nat
    BY <2>3, <2>4, CryptoAssumption DEF BodySize
  <2>6. v.size \in Nat \ {0} /\ v.size > Tag
    BY <2>5
  <2> QED BY <2>3, <2>6
<1> HIDE DEF u, a, v
<1>5. Hits(pieces) = {v} /\ Bytes(pieces) = v.size
  <2>1. PICK b : b = a + HdrSize
    OBVIOUS
  <2>2. InLine(pieces, 1, b, b + v.size)
    BY <2>1 DEF Finished, a, v
  <2>3. Bytes(pieces) = v.size /\ Hits(pieces) = Opens(rx, b, v.size, units[1])
    BY <1>4, <2>2, WholeLine
  <2> QED BY <1>4, <2>1, <2>3 DEF u
<1>6. /\ task' = [task EXCEPT ![r] = Idle] /\ got' = Append(got, v.plain)
      /\ rx' = AfterDecryptBody(rx, TRUE)
      /\ UNCHANGED <<setup, connected, ws, hs, conn, units>>
  <2>1. (Hits(pieces) # {}) = TRUE
    BY <1>5
  <2>2. Bytes(pieces) # Tag /\ ~(Hits(pieces) = {})
    BY <1>4, <1>5, CryptoAssumption
  <2>3. \E w \in Hits(pieces) : got' = Append(got, w.plain)
    BY <1>2, <2>2 DEF BodyRead
  <2> QED BY <1>2, <1>5, <2>1, <2>3 DEF BodyRead, Finished
<1>7. rx' = Half(2 * (g + 1))
  <2>1. 2 * g + 2 # RotateAt /\ (2 * g + 1) + 1 = 2 * g + 2 /\ 2 * (g + 1) = 2 * g + 2
    BY <1>0, Facts, CryptoAssumption
  <2>2. PICK h : h = [rx EXCEPT !.n = @ + 1]
    OBVIOUS
  <2>3. h = Half(2 * g + 2) /\ h.n = 2 * g + 2
    BY <1>3, <2>1, <2>2 DEF Half
  <2>4. rx' = MaybeRotateKey(h)
    BY <1>6, <2>2 DEF AfterDecryptBody
  <2> QED BY <2>1, <2>3, <2>4 DEF MaybeRotateKey
<1>8. task'[r] = Idle /\ \A q \in Caller : q # r => task'[q] = task[q]
  BY <1>6, Facts
<1>9. Others(r)'
  BY <1>6, <1>8 DEF Before, Others
<1>10. v.plain \in Msg \cup {NotMsg}
  <2>1. 2 * g + 2 \in 1..Len(u)
    BY <1>0 DEF Stream
  <2>2. PlainOK(u[2 * g + 2])
    BY <1>0, <2>1 DEF UnitsOK
  <2> QED BY <2>2 DEF PlainOK, u, v
<1>11. /\ Len(got') = g + 1 /\ got'[g + 1] = v.plain
       /\ \A i \in 1..g : got'[i] = got[i]
  <2>1. got \in Seq(Msg \cup {NotMsg})
    BY Facts
  <2>2. PICK p : p = v.plain
    OBVIOUS
  <2> QED BY <1>6, <1>10, <2>1, <2>2, AppendProperties
<1>12. Told(M)'
  <2>1. ASSUME NEW i \in 1..(g + 1) PROVE got'[i] = u[2 * i].plain
    <3>1. CASE i = g + 1
      <4>1. 2 * i = 2 * g + 2
        BY <1>0, <3>1
      <4> QED BY <1>11, <3>1, <4>1 DEF u, v
    <3>2. CASE i # g + 1
      <4>1. i \in 1..g
        BY <1>0, <3>2
      <4> QED BY <1>11, <4>1 DEF Before, Told, u
    <3> QED BY <3>1, <3>2
  <2>2. g + 1 <= M
    BY <1>0
  <2> QED BY <1>0, <1>6, <1>11, <2>1, <2>2 DEF Told, u
<1>13. BetweenReads(r, g + 1)'
  <2>1. Idle.pc = "idle"
    BY DEF Idle, Waiting
  <2>2. InLine(queue', 1, Ends(u, g + 1), conn[1].arrived)
    BY <1>4 DEF Finished, a, v
  <2> QED BY <1>6, <1>7, <1>8, <2>1, <2>2 DEF BetweenReads, u
<1>14. InStep(r, M)'
  BY <1>6, <1>11, <1>13, StillInStep
<1> QED BY <1>9, <1>12, <1>14 DEF AloneInv, Phase

\* A call that still waits.
StillReads(r, a, size) ==
  /\ Reads(task'[r], queue', a, size, conn[1].arrived) /\ task'[r].pc = task[r].pc
  /\ UNCHANGED <<setup, connected, ws, units, hs, rx, conn, got>>
  /\ \A q \in Caller : q # r => task'[q] = task[q]

LEMMA GoesOn ==
  ASSUME NEW r, NEW M, Before(r, M), NEW x \in Chunk, NEW others \in Seq(Chunk),
         task[r].held \o queue = InFront(x, others), task[r].want \in Nat \ {0},
         GoOn(r, x, others), UNCHANGED <<setup, connected, ws, units>>,
         NEW a \in Nat, NEW size \in Nat, Reads(task[r], queue, a, size, conn[1].arrived)
  PROVE  (\E pieces : Finished(r, pieces, a, size)) \/ StillReads(r, a, size)
<1>1. PICK t : t = task[r]
  OBVIOUS
<1>2. PICK q : q = queue
  OBVIOUS
<1>3. PICK b : b = conn[1].arrived
  OBVIOUS
<1>4. PICK n : n = t.want
  OBVIOUS
<1>5. PICK have : have = Append(t.chunks, Cut(x, n))
  OBVIOUS
<1>6. queue' = QueueAfter(x, n, others)
  BY <1>1, <1>4 DEF GoOn
<1>7. PICK next : next = QueueAfter(x, n, others)
  OBVIOUS
<1>8. x.size \in Nat /\ n \in Nat \ {0}
  BY <1>1, <1>4, ChunkFields DEF Chunk
<1>9. TakesNext(t, a, size, b, x, others)
  <2>1. Reads(t, q, a, size, b) /\ t.want \in Nat \ {0} /\ t.held \o q = InFront(x, others)
    BY <1>1, <1>2, <1>3
  <2> QED BY <2>1, ReadsNext
<1>10. CASE x.size >= n
  <2>1. InLine(have, 1, a, a + size) /\ InLine(next, 1, a + size, b)
    BY <1>4, <1>5, <1>7, <1>9, <1>10 DEF TakesNext
  <2>2. Completes(r, have)
    BY <1>1, <1>4, <1>5, <1>8, <1>10 DEF GoOn, Cut
  <2>3. Finished(r, have, a, size)
    BY <1>3, <1>6, <1>7, <2>1, <2>2 DEF Finished
  <2> QED BY <2>3
<1>11. CASE x.size < n
  <2>1. /\ task' = [task EXCEPT ![r].chunks = have, ![r].held = <<>>,
                                ![r].want = Remaining(x, n)]
        /\ UNCHANGED <<hs, rx, conn, got>>
    <3>1. ~(x.size >= n)
      BY <1>8, <1>11
    <3>2. have = Append(task[r].chunks, [x EXCEPT !.size = IF @ > n THEN n ELSE @])
      BY <1>1, <1>5 DEF Cut
    <3>3. n = task[r].want
      BY <1>1, <1>4
    <3> QED BY <3>1, <3>2, <3>3 DEF GoOn
  <2>2. PICK w : w = [t EXCEPT !.chunks = have, !.held = <<>>, !.want = Remaining(x, n)]
    OBVIOUS
  <2>3. TaskOK(t)
    BY <1>1, Facts
  <2>4. w.chunks = have /\ w.held = <<>> /\ w.want = Remaining(x, n) /\ w.pc = t.pc
    BY <2>2, <2>3 DEF TaskOK
  <2>5. task' = [task EXCEPT ![r] = w]
    BY <1>1, <2>1, <2>2
  <2>6. task'[r] = w /\ \A o \in Caller : o # r => task'[o] = task[o]
    BY <2>5, Facts
  <2>7. Reads(w, next, a, size, b)
    BY <1>4, <1>5, <1>7, <1>9, <1>11, <2>4 DEF TakesNext
  <2> QED BY <1>1, <1>3, <1>6, <1>7, <2>1, <2>4, <2>6, <2>7 DEF StillReads
<1> QED BY <1>8, <1>10, <1>11

\* A call that polls takes a step on its way: it ends, or still waits.
Progress(r) ==
  \A a \in Nat, size \in Nat :
    Reads(task[r], queue, a, size, conn[1].arrived)
      => (\E pieces : Finished(r, pieces, a, size)) \/ StillReads(r, a, size)

LEMMA StepAlone ==
  ASSUME NEW r, NEW M, Before(r, M), task[r].pc \in Polling, ~Quiet(r, M), Progress(r)
  PROVE  AloneInv(r)'
<1>2. ASSUME NEW a \in Nat, NEW size \in Nat, StillReads(r, a, size)
      PROVE  Others(r)' /\ Told(M)'
  BY <1>2 DEF StillReads, Before, Others, Told
<1>3. ~Over(r)
  BY DEF Over, Polling
<1>5. CASE Greeted(r, M)
  <2>1. Reads(task[r], queue, 0, ActTwoSize, conn[1].arrived)
    BY <1>5 DEF Greeted
  <2>2. 0 \in Nat /\ ActTwoSize \in Nat
    BY JsAssumption
  <2>3. ASSUME NEW pieces, Finished(r, pieces, 0, ActTwoSize) PROVE AloneInv(r)'
    BY <1>5, <2>3, ActTwoFinished
  <2>4. ASSUME StillReads(r, 0, ActTwoSize) PROVE AloneInv(r)'
    <3>1. Greeted(r, M)'
      BY <1>5, <2>4 DEF StillReads, Greeted, Opened
    <3>2. Others(r)' /\ Told(M)'
      BY <1>2, <2>2, <2>4
    <3> QED BY <3>1, <3>2 DEF AloneInv, Phase
  <2>5. (\E pieces : Finished(r, pieces, 0, ActTwoSize)) \/ StillReads(r, 0, ActTwoSize)
    BY <2>1, <2>2 DEF Progress
  <2> QED BY <2>3, <2>4, <2>5
<1>6. CASE InStep(r, M)
  <2>1. PICK g : g = Len(got)
    OBVIOUS
  <2>2. g \in 0..M /\ Stream(units[1], M)
    BY <2>1, Facts DEF Before, Told, Stream
  <2>3. PICK a : a = Ends(units[1], g)
    OBVIOUS
  <2>4. a \in Nat /\ HdrSize \in Nat /\ a + HdrSize \in Nat
    <3>1. PICK u : u = units[1]
      OBVIOUS
    <3>2. Ends(u, g) \in Nat
      <4>1. Stream(u, M)
        BY <2>2, <3>1
      <4> QED BY <2>2, <4>1, EndsNat
    <3>3. HdrSize \in Nat
      BY Sizes
    <3> QED BY <2>3, <3>1, <3>2, <3>3
  <2>5. CASE InHeader(r, g)
    <3>1. Reads(task[r], queue, a, HdrSize, conn[1].arrived)
      BY <2>3, <2>5 DEF InHeader
    <3>2. ASSUME NEW pieces, Finished(r, pieces, a, HdrSize) PROVE AloneInv(r)'
      BY <1>6, <2>1, <2>3, <2>5, <3>2, HeaderFinished
    <3>3. ASSUME StillReads(r, a, HdrSize) PROVE AloneInv(r)'
      <4>1. InHeader(r, g)'
        BY <2>3, <2>5, <3>3 DEF StillReads, InHeader
      <4>2. Others(r)' /\ Told(M)'
        BY <1>2, <2>4, <3>3
      <4>3. Len(got') = g /\ UNCHANGED <<conn, units>>
        BY <2>1, <3>3 DEF StillReads
      <4>4. InStep(r, M)'
        BY <1>6, <4>1, <4>3, StillInStep
      <4> QED BY <4>2, <4>4 DEF AloneInv, Phase
    <3>4. (\E pieces : Finished(r, pieces, a, HdrSize)) \/ StillReads(r, a, HdrSize)
      BY <2>4, <3>1 DEF Progress
    <3> QED BY <3>2, <3>3, <3>4
  <2>6. CASE InBody(r, g, M)
    <3>1. PICK size : size = units[1][2 * g + 2].size
      OBVIOUS
    <3>2. Reads(task[r], queue, a + HdrSize, size, conn[1].arrived)
      BY <2>3, <2>6, <3>1 DEF InBody
    <3>3. size \in Nat
      <4>1. PICK j : j = g + 1 /\ j \in 1..M
        BY <2>2, <2>6 DEF InBody, Stream
      <4>2. IsMessage(units[1], j) /\ 2 * j = 2 * g + 2
        BY <2>2, <4>1 DEF Stream
      <4>3. size = BodySize(units[1][2 * j - 1].len) /\ units[1][2 * j - 1].len \in Nat \ {0}
        BY <3>1, <4>2 DEF IsMessage, IsUnit
      <4> QED BY <4>3, Sizes
    <3>4. ASSUME NEW pieces, Finished(r, pieces, a + HdrSize, size) PROVE AloneInv(r)'
      BY <1>6, <2>1, <2>3, <2>6, <3>1, <3>4, BodyFinished
    <3>5. ASSUME StillReads(r, a + HdrSize, size) PROVE AloneInv(r)'
      <4>1. InBody(r, g, M)'
        BY <2>3, <2>6, <3>1, <3>5 DEF StillReads, InBody
      <4>2. Others(r)' /\ Told(M)'
        BY <1>2, <2>4, <3>3, <3>5
      <4>3. Len(got') = g /\ UNCHANGED <<conn, units>>
        BY <2>1, <3>5 DEF StillReads
      <4>4. InStep(r, M)'
        BY <1>6, <4>1, <4>3, StillInStep
      <4> QED BY <4>2, <4>4 DEF AloneInv, Phase
    <3>6. PICK p : p = a + HdrSize
      OBVIOUS
    <3>7. (\E pieces : Finished(r, pieces, p, size)) \/ StillReads(r, p, size)
      BY <2>4, <3>2, <3>3, <3>6 DEF Progress
    <3> QED BY <3>4, <3>5, <3>6, <3>7
  <2> QED BY <1>6, <2>1, <2>5, <2>6 DEF InStep, BetweenReads, Polling
<1> QED BY <1>3, <1>5, <1>6 DEF Before, Phase

LEMMA NotQuiet ==
  ASSUME NEW r, NEW M, Quiet(r, M)
  PROVE  queue = <<>> /\ task[r].held = <<>>
BY DEF Quiet

LEMMA FulfilledAlone ==
  ASSUME NEW r, NEW M, Before(r, M), Fulfilled(r)
  PROVE  AloneInv(r)'
<1>1. task[r].held # <<>> /\ UNCHANGED <<setup, connected, ws, units>>
  BY DEF Fulfilled
<1>2. PICK x : x = Head(task[r].held)
  OBVIOUS
<1>3. JsInv /\ r \in Caller /\ Len(task[r].held) <= 1
  BY Facts DEF Before
<1>4. x \in Chunk /\ task[r].held \o queue = InFront(x, queue)
  BY <1>1, <1>2, <1>3, InHandIs DEF InHand
<1>5. GoOn(r, x, queue)
  BY <1>2 DEF Fulfilled
<1>6. task[r].pc \in Polling /\ task[r].want \in Nat \ {0}
  BY <1>1, Facts DEF TaskOK
<1>7. queue \in Seq(Chunk)
  BY Facts
<1>8. Progress(r)
  BY <1>1, <1>4, <1>5, <1>6, <1>7, GoesOn DEF Progress
<1>9. ~Quiet(r, M)
  BY <1>1, NotQuiet
<1> QED BY <1>6, <1>8, <1>9, StepAlone

LEMMA TickAlone ==
  ASSUME NEW r, NEW M, Before(r, M), TickFinds(r)
  PROVE  AloneInv(r)'
<1>1. /\ queue # <<>> /\ task[r].held = <<>> /\ task[r].pc \in Polling
      /\ UNCHANGED <<setup, connected, ws, units>>
  BY DEF TickFinds, Polls, Polling
<1>2. PICK x : x = Head(queue)
  OBVIOUS
<1>3. PICK s : s = Tail(queue)
  OBVIOUS
<1>4. queue \in Seq(Chunk) /\ TaskOK(task[r])
  BY Facts
<1>5. x \in Chunk /\ s \in Seq(Chunk) /\ queue = InFront(x, s)
  BY <1>1, <1>2, <1>3, <1>4, HeadCons
<1>6. task[r].want \in Nat \ {0}
  BY <1>1, <1>4 DEF TaskOK
<1>7. ~Quiet(r, M)
  BY <1>1, NotQuiet
<1>8. CASE ~setup.blobs
  <2>1. GoOn(r, x, s)
    BY <1>2, <1>3, <1>8 DEF TickFinds
  <2>2. <<>> \o queue = queue
    BY <1>4, ConcatEmptySeq
  <2>3. task[r].held \o queue = InFront(x, s)
    BY <1>1, <1>5, <2>2
  <2>4. Progress(r)
    BY <1>1, <1>5, <1>6, <2>1, <2>3, GoesOn DEF Progress
  <2> QED BY <1>1, <1>7, <2>4, StepAlone
<1>9. CASE setup.blobs
  <2>1. /\ task' = [task EXCEPT ![r].held = <<x>>] /\ queue' = s
        /\ UNCHANGED <<hs, rx, conn, got>>
    BY <1>2, <1>3, <1>9 DEF TickFinds
  <2>2. PICK o : o = <<x>>
    OBVIOUS
  <2>3. PICK w : w = [task[r] EXCEPT !.held = o]
    OBVIOUS
  <2>4. w.chunks = task[r].chunks /\ w.want = task[r].want /\ w.held = o /\ w.pc = task[r].pc
    BY <1>4, <2>3 DEF TaskOK
  <2>5. task'[r] = w /\ \A q \in Caller : q # r => task'[q] = task[q]
    BY <2>1, <2>2, <2>3, Facts
  <2>6. ASSUME NEW a \in Nat, NEW size \in Nat, Reads(task[r], queue, a, size, conn[1].arrived)
        PROVE  StillReads(r, a, size)
    <3>1. PICK t : t = task[r]
      OBVIOUS
    <3>2. PICK q : q = queue
      OBVIOUS
    <3>3. PICK b : b = conn[1].arrived
      OBVIOUS
    <3>4. Reads(t, q, a, size, b) /\ t.held = <<>> /\ q \in Seq(Chunk) /\ q = InFront(x, s)
      BY <1>1, <1>4, <1>5, <2>6, <3>1, <3>2, <3>3
    <3>5. w.chunks = t.chunks /\ w.want = t.want /\ w.held = <<x>>
      BY <2>2, <2>4, <3>1
    <3>6. Reads(w, s, a, size, b)
      BY <3>4, <3>5, ReadsTake
    <3> QED BY <1>1, <2>1, <2>4, <2>5, <3>3, <3>6 DEF StillReads
  <2>7. Progress(r)
    BY <2>6 DEF Progress
  <2> QED BY <1>1, <1>7, <2>7, StepAlone
<1> QED BY <1>8, <1>9

LEMMA EndsSocket ==
  ASSUME NEW r, NEW M, Before(r, M), (\E c \in Conn : Close(c)) \/ Disconnect
  PROVE  AloneInv(r)'
<1>1. ASSUME NEW c \in Conn, Close(c) PROVE AloneInv(r)'
  <2>1. /\ conn[c].st \in {"new", "open", "closing"} /\ connected' = FALSE
        /\ conn' = [conn EXCEPT ![c].st = "closed"]
        /\ UNCHANGED <<setup, queue, ws, hs, rx, task, units, got>>
    BY <1>1 DEF Close
  <2>2. c = 1
    BY <2>1 DEF Before, Others
  <2>3. (Opened \/ conn[1].st = "new") /\ conn[1].st # "closed"
    BY <2>1, <2>2 DEF Opened
  <2>4. PICK st : st = "closed"
    OBVIOUS
  <2>5. /\ conn' = [conn EXCEPT ![1].st = st] /\ st \in {"closing", "closed"}
        /\ connected' = (st = "closing") /\ (st = "closing" => Opened)
    BY <2>1, <2>2, <2>4
  <2> QED BY <2>1, <2>3, <2>5, StateStep
<1>2. ASSUME Disconnect PROVE AloneInv(r)'
  <2>1. /\ connected /\ conn[ws].st = "open" /\ conn' = [conn EXCEPT ![ws].st = "closing"]
        /\ UNCHANGED <<setup, queue, connected, ws, hs, rx, task, units, got>>
    BY <1>2 DEF Disconnect
  <2>2. ws = 1
    BY <2>1, Facts
  <2>3. Opened /\ conn[1].st # "closed"
    BY <2>1, <2>2 DEF Opened
  <2>4. PICK st : st = "closing"
    OBVIOUS
  <2>5. connected' = TRUE
    BY <2>1 DEF Before, JsInv, FlagsOK
  <2>6. /\ conn' = [conn EXCEPT ![1].st = st] /\ st \in {"closing", "closed"}
        /\ connected' = (st = "closing") /\ (st = "closing" => Opened)
    BY <2>1, <2>2, <2>3, <2>4, <2>5
  <2> QED BY <2>1, <2>3, <2>6, StateStep
<1> QED BY <1>1, <1>2

LEMMA AloneStep ==
  ASSUME NEW r, NEW M, Before(r, M), [Next]_vars
  PROVE  AloneInv(r)'
<1>1. setup.callers = {r} /\ setup.msgs \subseteq Msg
  BY Facts
<1>2. ASSUME NEW q \in setup.callers, Connect(q) \/ CallRead(q) \/ Runs(q) PROVE AloneInv(r)'
  <2>1. q = r
    BY <1>1
  <2> QED BY <1>2, <2>1, ConnectStep, ReadStep, TickAlone, FulfilledAlone, EndStep DEF Runs
<1>3. ASSUME NEW c \in Conn, Open(c) \/ PeerActTwo(c) \/ Data(c) PROVE AloneInv(r)'
  BY <1>3, OpenStep, GreetStep, DataStep
<1>4. ASSUME NEW c \in Conn, NEW m \in setup.msgs, PeerSend(c, m) PROVE AloneInv(r)'
  BY <1>1, <1>4, SendStep
<1>5. ASSUME (\E c \in Conn : Close(c)) \/ Disconnect PROVE AloneInv(r)'
  BY <1>5, EndsSocket
<1>6. CASE UNCHANGED vars
  <2>1. Others(r)' /\ Told(M)'
    BY <1>6 DEF vars, Before, Others, Told
  <2>2. Phase(r, M)'
    BY <1>6 DEF vars, Before, Phase, Over, Quiet, Greeted, InStep, Opened, BetweenReads,
                InHeader, InBody
  <2> QED BY <2>1, <2>2 DEF AloneInv
<1> QED BY <1>2, <1>3, <1>4, <1>5, <1>6 DEF Next

LEMMA ReadStepInv == JsInv /\ OrderInv /\ ReadInv /\ [Next]_vars => ReadInv'
<1> SUFFICES ASSUME JsInv, OrderInv, ReadInv, [Next]_vars, NEW r \in Caller, Lone(r)'
             PROVE  AloneInv(r)'
  BY DEF ReadInv
<1>1. setup' = setup
  BY DEF Next, vars, Connect, CallRead, Runs, TickFinds, Fulfilled, TickRejects, Timeout, Open,
         Close, PeerActTwo, Data, PeerSend, Disconnect
<1>2. Lone(r)
  BY <1>1 DEF Lone
<1>3. PICK M : Told(M) /\ Phase(r, M)
  BY <1>2 DEF ReadInv, AloneInv
<1>4. Before(r, M)
  BY <1>2, <1>3 DEF Before, ReadInv, AloneInv
<1> QED BY <1>4, AloneStep

LEMMA ReadInit == Init => ReadInv
<1> SUFFICES ASSUME Init, NEW r \in Caller, Lone(r) PROVE AloneInv(r)
  BY DEF ReadInv
<1>1. setup.conns = 1 /\ setup \in Setups
  BY DEF Lone, Init
<1>2. 1 \in Conn
  BY <1>1, JsAssumption DEF Conn
<1>3. Idle.pc = "idle" /\ Idle.held = <<>>
  BY DEF Idle, Waiting
<1>4. /\ queue = <<>> /\ connected = FALSE /\ got = <<>> /\ units[1] = <<>>
      /\ \A q \in Caller : task[q] = Idle
      /\ \A c \in Conn : conn[c].st = "unused"
      /\ ~conn[1].ready /\ conn[1].sent = 0 /\ ~conn[1].act1
  BY <1>2 DEF Init
<1>5. Others(r)
  BY <1>2, <1>4 DEF Others
<1>6. Told(0)
  <2>1. Len(<<>>) = 0
    OBVIOUS
  <2>2. setup.sends \in Nat
    BY <1>1, JsAssumption
  <2> QED BY <1>4, <2>1, <2>2 DEF Told, Stream
<1>7. Quiet(r, 0)
  BY <1>3, <1>4 DEF Quiet
<1> QED BY <1>5, <1>6, <1>7 DEF AloneInv, Phase


-----------------------------------------------------------------------------
(* The theorems *)

\* In every reachable state the variables have their types: whatever is cut
\* into events, and whichever calls are under way, read_all never puts back an
\* empty chunk and no call polls for nothing.
THEOREM JsTypeCorrect == Spec => []TypeOK
<1>1. JsInv => TypeOK
  <2> SUFFICES ASSUME JsInv PROVE TypeOK
    OBVIOUS
  <2>2. \A r \in Caller :
          /\ task[r].pc \in {"idle", "open", "act2", "hdr", "body"}
          /\ task[r].want > 0 <=> task[r].pc \in {"act2", "hdr", "body"}
          /\ task[r].chunks \in Seq(Chunk)
    BY DEF JsInv, TasksOK, TaskOK, Polling
  <2>3. \A c \in Conn : conn[c].arrived <= conn[c].sent
    BY DEF JsInv, ConnsOK, ConnOK
  <2> QED BY <2>2, <2>3 DEF JsInv, FlagsOK, TypeOK
<1> QED BY <1>1, JsInit, JsStep, PTL DEF Spec

\* However the events of any number of sockets interleave, connected is never
\* true of a socket that has closed.
THEOREM FlagTellsTruth == Spec => []ConnectedMeansOpen
<1>1. JsInv => ConnectedMeansOpen
  BY ConnIsNat DEF JsInv, FlagTrue, ConnectedMeansOpen
<1> QED BY <1>1, JsInit, JsStep, PTL DEF Spec

\* Whatever calls read at the same time, or in a browser one call at a time,
\* the bytes of each socket that wait in the queue are in order, and none is
\* missing up to the last that arrived: read_all's rest of a chunk always
\* comes back in front of what it was cut from.
THEOREM QueueInOrder == Spec => []QueueKeepsOrder
<1>1. JsInv /\ OrderInv => QueueKeepsOrder
  <2> SUFFICES ASSUME JsInv, OrderInv, NEW c \in Conn,
                      setup.blobs => \E r \in Caller : setup.callers = {r}
               PROVE  LET mine == Only(queue, ChunksOf(c))
                      IN  /\ Solid(mine)
                          /\ mine # <<>> => Last(mine).at + Last(mine).size = conn[c].arrived
    BY DEF QueueKeepsOrder
  <2>1. Lined(queue, conn)
    <3>1. CASE ~setup.blobs
      BY <3>1 DEF OrderInv
    <3>2. CASE setup.blobs
      <4>1. PICK r \in Caller : setup.callers = {r}
        BY <3>2
      <4>2. Lined(InHand(r), conn) /\ Len(task[r].held) <= 1
        BY <3>2, <4>1 DEF OrderInv
      <4>3. CASE task[r].held = <<>>
        BY <4>2, <4>3, InHandIs
      <4>4. CASE task[r].held # <<>>
        <5>1. PICK x : x = Head(task[r].held)
          OBVIOUS
        <5>2. x \in Chunk /\ InHand(r) = InFront(x, queue) /\ queue \in Seq(Chunk)
          BY <4>2, <4>4, <5>1, InHandIs DEF JsInv
        <5> QED BY <4>2, <5>2, LinedTail
      <4> QED BY <4>3, <4>4
    <3> QED BY <3>1, <3>2
  <2>2. PICK a \in Nat : InLine(Only(queue, ChunksOf(c)), c, a, conn[c].arrived)
    BY <2>1 DEF Lined
  <2> QED BY <2>2 DEF InLine, Last
<1> QED BY <1>1, JsInit, JsStep, OrderInit, OrderStep, PTL DEF Spec

\* One caller on one socket: its reads return what the peer sent, in order, with
\* nothing lost in between, however the bytes are cut into events, whenever the
\* socket closes, and with reads that failed before.
THEOREM ReadsReturnInOrder == Spec => []ReadsInOrder
<1>1. JsInv /\ ReadInv => ReadsInOrder
  <2> SUFFICES ASSUME JsInv, ReadInv, NEW r \in Caller, setup.conns = 1, setup.callers = {r}
               PROVE  IsPrefix(got, [i \in 1..(Len(units[1]) \div 2) |-> units[1][2 * i].plain])
    BY DEF ReadsInOrder, Alone
  <2>1. PICK M : Told(M)
    BY DEF ReadInv, AloneInv, Lone
  <2>2. PICK u : u = units[1]
    OBVIOUS
  <2>3. PICK t : t = [i \in 1..(Len(u) \div 2) |-> u[2 * i].plain]
    OBVIOUS
  <2>4. PICK g : g = Len(got)
    OBVIOUS
  <2>5. /\ M \in Nat /\ Len(u) = 2 * M /\ g <= M /\ g \in Nat
        /\ \A i \in 1..g : got[i] = u[2 * i].plain
    BY <2>1, <2>2, <2>4 DEF Told, Stream, JsInv
  <2>6. Len(u) \div 2 = M
    BY <2>5
  <2>7. t = [i \in 1..M |-> u[2 * i].plain]
    BY <2>3, <2>6
  <2>8. Len(t) = M /\ \A i \in 1..g : t[i] = got[i]
    BY <2>5, <2>7
  <2>9. SubSeq(t, 1, g) = got
    <3>1. got \in Seq(Msg \cup {NotMsg})
      BY DEF JsInv
    <3>2. PICK S : S = Msg \cup {NotMsg}
      OBVIOUS
    <3>3. got \in Seq(S) /\ Len(got) = g
      BY <2>4, <3>1, <3>2
    <3>4. \A i \in 1..g : t[i] \in S
      <4>1. \A i \in 1..g : got[i] \in S
        BY <3>3, ElementOfSeq
      <4> QED BY <2>8, <4>1
    <3>5. PICK s : s = SubSeq(t, 1, g)
      OBVIOUS
    <3>6. 1 \in Int /\ g \in Int
      BY <2>5
    <3>7. /\ s \in Seq(S) /\ Len(s) = (IF 1 <= g THEN g - 1 + 1 ELSE 0)
          /\ \A i \in 1..(g - 1 + 1) : s[i] = t[1 + i - 1]
      BY <3>4, <3>5, <3>6, SubSeqProperties
    <3>8. Len(s) = g /\ \A i \in 1..g : s[i] = got[i]
      BY <2>5, <2>8, <3>7
    <3>9. s = got
      BY <3>3, <3>7, <3>8, SeqEqual
    <3> QED BY <3>5, <3>9
  <2>10. SubSeq(got, 1, g) = got
    BY <2>4, SubSeqFull DEF JsInv
  <2>11. IsPrefix(got, t)
    BY <2>4, <2>5, <2>8, <2>9, <2>10 DEF IsPrefix
  <2> QED BY <2>2, <2>3, <2>11
<1> QED BY <1>1, JsInit, JsStep, OrderInit, OrderStep, ReadInit, ReadStepInv, PTL DEF Spec
=============================================================================
