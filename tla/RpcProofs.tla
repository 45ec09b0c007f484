------------------------------ MODULE RpcProofs -------------------------------
(***************************************************************************)
(* Proofs about Rpc, for every bound, buffer and length of a request: the  *)
(* types, and that what lnrpc prints and what a call of a binding returns  *)
(* is the node's reply to its request.                                     *)
(***************************************************************************)
EXTENDS Rpc, DataProofs

-----------------------------------------------------------------------------
(* The lengths of what a client writes *)

LEMMA MaxMessageIs == MaxMessage \in Nat /\ MaxMessage > 1024
BY DEF MaxMessage

\* Pushed adds the lengths up, as long as each fits.
LEMMA PushedIs ==
  ASSUME NEW lens \in Seq(Nat), NEW cap \in Nat
  PROVE  \E u : /\ u[0] = 0
                /\ \A i \in 1..Len(lens) : u[i] \in Nat /\ u[i] = u[i - 1] + lens[i]
                /\ Pushed(lens, cap) = IF \A i \in 1..Len(lens) : u[i - 1] + lens[i] < cap
                                       THEN u[Len(lens)] ELSE 0
<1> DEFINE N == Len(lens)
           step == [p \in (1..N) \X Nat |-> p[2] + lens[p[1]]]
           Is(f) == f = [i \in 0..N |-> IF i = 0 THEN 0 ELSE f[i - 1] + lens[i]]
           u == CHOOSE f : Is(f)
<1>1. N \in Nat /\ \A i \in 1..N : lens[i] \in Nat
  BY ElementOfSeq
<1>2. \A i \in 1..N : \A v \in Nat : step[<<i, v>>] = v + lens[i] /\ step[<<i, v>>] \in Nat
  BY <1>1
<1> HIDE DEF step, N
<1>3. Closed(step, N, Nat)
  BY <1>2 DEF Closed
<1>4. PICK f : Follows(f, step, N, Nat, 0)
  BY <1>1, <1>3, Recursion
<1>5. f \in [0..N -> Nat] /\ f[0] = 0 /\ \A i \in 1..N : f[i] = step[<<i, f[i - 1]>>]
  BY <1>4 DEF Follows
<1>6. \A i \in 1..N : i - 1 \in 0..N /\ f[i - 1] \in Nat
  BY <1>1, <1>5
<1>7. \A i \in 1..N : f[i] = f[i - 1] + lens[i]
  BY <1>2, <1>5, <1>6
<1>8. \A i \in 0..N : i = 0 \/ i \in 1..N
  BY <1>1
<1>9. Is(f)
  BY <1>5, <1>7, <1>8
<1>10. Is(u)
  <2> HIDE DEF Is
  <2> QED BY <1>9
<1>11. PICK g : g = u
  OBVIOUS
<1>12. g = [i \in 0..N |-> IF i = 0 THEN 0 ELSE g[i - 1] + lens[i]]
  BY <1>10, <1>11
<1> HIDE DEF u, Is
<1>13. \A i \in 0..N : g[i] = IF i = 0 THEN 0 ELSE g[i - 1] + lens[i]
  BY <1>12, Zenon
<1>14. 0 \in 0..N /\ \A i \in 1..N : i \in 0..N /\ i # 0
  BY <1>1
<1>15. g[0] = 0 /\ \A i \in 1..N : g[i] = g[i - 1] + lens[i]
  BY <1>13, <1>14, Zenon
<1>16. \A i \in 0..N : g[i] \in Nat
  <2> DEFINE I == {i \in 0..N : g[i] \in Nat}
  <2>1. 0 \in I
    BY <1>14, <1>15
  <2>2. ASSUME NEW n \in 0..(N - 1), n \in I PROVE n + 1 \in I
    <3>1. n + 1 \in 1..N /\ n + 1 \in 0..N /\ (n + 1) - 1 = n
      BY <1>1
    <3> QED BY <1>1, <1>15, <2>2, <3>1
  <2> HIDE DEF I
  <2>3. \A n \in 0..N : n \in I
    BY <1>1, <2>1, <2>2, Induct
  <2> QED BY <2>3 DEF I
<1>17. Pushed(lens, cap) = IF \A i \in 1..N : g[i - 1] + lens[i] < cap THEN g[N] ELSE 0
  <2>1. Pushed(lens, cap) = IF \A i \in 1..N : u[i - 1] + lens[i] < cap THEN u[N] ELSE 0
    BY DEF Pushed, PushFits, u, Is, N
  <2> QED BY <1>11, <2>1
<1> QED BY <1>14, <1>15, <1>16, <1>17 DEF N

\* The steps of that sum, one by one.
LEMMA PushedTwo ==
  ASSUME NEW a \in Nat, NEW b \in Nat, NEW cap \in Nat
  PROVE  Pushed(<<a, b>>, cap) = IF a + b < cap THEN a + b ELSE 0
<1>1. <<a, b>> \in Seq(Nat) /\ Len(<<a, b>>) = 2 /\ <<a, b>>[1] = a /\ <<a, b>>[2] = b
  OBVIOUS
<1>2. PICK l : l = <<a, b>>
  OBVIOUS
<1>3. l \in Seq(Nat) /\ Len(l) = 2 /\ l[1] = a /\ l[2] = b
  BY <1>1, <1>2
<1>4. PICK u : /\ u[0] = 0
               /\ \A i \in 1..2 : u[i] \in Nat /\ u[i] = u[i - 1] + l[i]
               /\ Pushed(l, cap) = IF \A i \in 1..2 : u[i - 1] + l[i] < cap THEN u[2] ELSE 0
  BY <1>3, PushedIs
<1>5. 1 \in 1..2 /\ 2 \in 1..2 /\ 1 - 1 = 0 /\ 2 - 1 = 1
  OBVIOUS
<1>6. u[1] = a
  BY <1>3, <1>4, <1>5
<1>7. u[2] = a + b
  BY <1>3, <1>4, <1>5, <1>6
<1>8. \A i \in 1..2 : i = 1 \/ i = 2
  OBVIOUS
<1>9. (\A i \in 1..2 : u[i - 1] + l[i] < cap) <=> a + b < cap
  BY <1>3, <1>4, <1>5, <1>6, <1>7, <1>8
<1> QED BY <1>2, <1>4, <1>7, <1>9

LEMMA MakeInitIs == MakeInit(1024) = 13
<1>1. /\ <<2, 2, 2, 2, 5>> \in Seq(Nat) /\ Len(<<2, 2, 2, 2, 5>>) = 5
      /\ <<2, 2, 2, 2, 5>>[1] = 2 /\ <<2, 2, 2, 2, 5>>[2] = 2 /\ <<2, 2, 2, 2, 5>>[3] = 2
      /\ <<2, 2, 2, 2, 5>>[4] = 2 /\ <<2, 2, 2, 2, 5>>[5] = 5
  OBVIOUS
<1>2. PICK l : l = <<2, 2, 2, 2, 5>>
  OBVIOUS
<1>3. l \in Seq(Nat) /\ Len(l) = 5 /\ l[1] = 2 /\ l[2] = 2 /\ l[3] = 2 /\ l[4] = 2 /\ l[5] = 5
  BY <1>1, <1>2
<1>4. PICK cap \in Nat : cap = 1024
  OBVIOUS
<1>5. PICK u : /\ u[0] = 0
               /\ \A i \in 1..5 : u[i] \in Nat /\ u[i] = u[i - 1] + l[i]
               /\ Pushed(l, cap) = IF \A i \in 1..5 : u[i - 1] + l[i] < cap THEN u[5] ELSE 0
  BY <1>3, PushedIs
<1>6. /\ 1 \in 1..5 /\ 2 \in 1..5 /\ 3 \in 1..5 /\ 4 \in 1..5 /\ 5 \in 1..5
      /\ 1 - 1 = 0 /\ 2 - 1 = 1 /\ 3 - 1 = 2 /\ 4 - 1 = 3 /\ 5 - 1 = 4
      /\ \A i \in 1..5 : i = 1 \/ i = 2 \/ i = 3 \/ i = 4 \/ i = 5
  OBVIOUS
<1>7. u[1] = 2
  BY <1>3, <1>5, <1>6
<1>8. u[2] = 4
  BY <1>3, <1>5, <1>6, <1>7
<1>9. u[3] = 6
  BY <1>3, <1>5, <1>6, <1>8
<1>10. u[4] = 8
  BY <1>3, <1>5, <1>6, <1>9
<1>11. u[5] = 13
  BY <1>3, <1>5, <1>6, <1>10
<1>12. \A i \in 1..5 : u[i - 1] + l[i] < cap
  BY <1>3, <1>4, <1>5, <1>6, <1>7, <1>8, <1>9, <1>10, <1>11
<1> QED BY <1>2, <1>4, <1>5, <1>11, <1>12 DEF MakeInit

\* A request is shorter than the buffer it is built in.
LEMMA MakeRpcIs ==
  ASSUME NEW strings \in Nat, NEW cap \in 0..MaxMessage
  PROVE  MakeRpc(strings, cap) \in 0..MaxMessage
<1>1. /\ <<2, 8, strings>> \in Seq(Nat) /\ Len(<<2, 8, strings>>) = 3
      /\ <<2, 8, strings>>[3] = strings
  OBVIOUS
<1>2. PICK l : l = <<2, 8, strings>>
  OBVIOUS
<1>3. l \in Seq(Nat) /\ Len(l) = 3 /\ l[3] = strings
  BY <1>1, <1>2
<1>a. cap \in Nat
  BY MaxMessageIs
<1>4. PICK u : /\ u[0] = 0
               /\ \A i \in 1..3 : u[i] \in Nat /\ u[i] = u[i - 1] + l[i]
               /\ Pushed(l, cap) = IF \A i \in 1..3 : u[i - 1] + l[i] < cap THEN u[3] ELSE 0
  BY <1>3, <1>a, PushedIs
<1>5. 3 \in 1..3
  OBVIOUS
<1>6. u[3] \in Nat /\ u[3] = u[3 - 1] + l[3]
  BY <1>4, <1>5
<1>7. Pushed(l, cap) \in 0..MaxMessage
  BY <1>4, <1>5, <1>6, MaxMessageIs
<1> QED BY <1>2, <1>7 DEF MakeRpc

\* lnsocket_pong can make every pong that a ping asks for.
LEMMA MakePongIs ==
  ASSUME NEW asked \in 0..MaxMessage, NEW cap \in Nat, cap >= MaxMessage
  PROVE  MakePong(asked, cap) = IF asked < 4 THEN 4 ELSE asked
<1>1. Pushed(<<2, 2>>, cap) = 4
  <2>1. 2 \in Nat /\ 2 + 2 = 4 /\ 2 + 2 < cap
    BY MaxMessageIs
  <2> QED BY <2>1, PushedTwo
<1> QED BY <1>1, MaxMessageIs DEF MakePong, RoomFor

-----------------------------------------------------------------------------
(* The invariant *)

\* The messages a node sends, and what a client writes.
MessageTypes == {"init", "continues", "term", "ping", "other", "short"}
Messages == [type : MessageTypes, n : Nat, req : Nat]
Writes == [type : {"init", "rpc", "pong"}, len : 1..MaxMessage]
Calls == [req : Nat, ok : BOOLEAN, parts : Seq(Nat \X Nat)]

Types ==
  /\ TypeOK
  /\ sent \in Seq(Messages) /\ wrote \in Seq(Writes) /\ results \in Seq(Calls)
  /\ client # "lnrpc" /\ pc \in {"recv", "wait"} => Len(results) < MaxCalls

\* How many replies have ended among the first k messages.
Terms(k) == Len(Kept(sent, Sent({"term"}, Nat))[k])

\* A piece of a reply belongs to the request after those whose replies have
\* ended, and that request was written.
NodeOK ==
  /\ sent # <<>> => sent[1].type = "init"
  /\ \A k \in 1..Len(sent) :
       /\ sent[k].type \in Pieces => sent[k].req = Terms(k - 1) + 1 /\ sent[k].req <= Asked
       /\ sent[k].type = "ping" => sent[k].n <= MaxMessage

\* lnrpc has printed what it read of the reply, which had no end yet unless
\* main() left its loop for that; it has answered the pings it read, as long as
\* the connection is up; and it writes one request.
Reply(req) == Kept(sent, Sent(Pieces, {req}))
PongsSent ==
  LET pongs == WroteOf("pong") IN [i \in DOMAIN pongs |-> pongs[i].len]

PrintedOK == printed = Numbers(Reply(1)[read])
NoTerm == \A k \in 1..read : sent[k].type # "term"
PongsOK == up => PongsSent = PongLens(read)

LnRpcOK ==
  /\ Asked <= 1 /\ results = <<>>
  /\ pc \in {"connect", "init", "answer", "ask"} => Asked = 0
  /\ pc \in {"connect", "init"} => read = 0
  /\ PrintedOK
  /\ pc # "exit" => ok
  /\ ~(pc = "exit" /\ ok) => NoTerm
  /\ pc = "exit" /\ ok => read > 0 /\ sent[read].type = "term"
  /\ PongsOK

\* No call before the k-th failed with its request written.
CleanBefore(k) == \A j \in 1..(k - 1) : results[j].ok \/ results[j].req = 0
Clean == CleanBefore(Len(results) + 1)

\* The calls of a binding are in step with the node's replies as long as none
\* has failed with its request written: before a call all replies were read,
\* and in one the chunks are what was read of the reply to it.
InStep ==
  Clean =>
    /\ pc = "idle" => Terms(read) = Asked
    /\ pc \in {"recv", "wait"} => Terms(read) + 1 = Asked /\ chunks = Numbers(Reply(Asked)[read])

\* A result is the whole of a reply that the node has ended.
Told(req, parts) ==
  /\ req >= 1 /\ req <= Terms(Len(sent))
  /\ parts = Numbers(ReplyTo(req)) /\ Whole(ReplyTo(req))
ResultsOK ==
  \A k \in 1..Len(results) :
    results[k].ok /\ CleanBefore(k) => Told(results[k].req, results[k].parts)

BindingOK ==
  /\ pc \in {"connect", "greet", "hear"} => Asked = 0
  /\ pc \in {"recv", "wait"} => Asked >= 1
  /\ pc \notin {"recv", "wait"} => chunks = <<>>
  /\ InStep /\ ResultsOK

Inv ==
  /\ Types /\ NodeOK
  /\ client = "lnrpc" => LnRpcOK
  /\ client # "lnrpc" => BindingOK

-----------------------------------------------------------------------------
(* What was sent, and what was written *)

LEMMA InSent ==
  ASSUME NEW m \in Messages, NEW types, NEW reqs
  PROVE  m \in Sent(types, reqs) <=> m.type \in types /\ m.req \in reqs
BY DEF Messages, Sent

LEMMA SentAt ==
  ASSUME Types
  PROVE  /\ Len(sent) \in Nat
         /\ \A k \in 1..Len(sent) :
              /\ sent[k] \in Messages /\ sent[k].type \in MessageTypes
              /\ sent[k].n \in Nat /\ sent[k].req \in Nat
<1>1. sent \in Seq(Messages)
  BY DEF Types
<1>2. \A k \in 1..Len(sent) : sent[k] \in Messages
  BY <1>1, ElementOfSeq
<1> QED BY <1>1, <1>2 DEF Messages

LEMMA TermsIs ==
  ASSUME Types
  PROVE  /\ Terms(0) = 0
         /\ \A k \in 0..Len(sent) : Terms(k) \in Nat
         /\ \A k \in 1..Len(sent) :
              Terms(k) = IF sent[k].type = "term" THEN Terms(k - 1) + 1 ELSE Terms(k - 1)
<1> DEFINE S == Sent({"term"}, Nat)
<1>1. sent \in Seq(Messages)
  BY DEF Types
<1>2. /\ Kept(sent, S) \in [0..Len(sent) -> Seq(Messages)]
      /\ Kept(sent, S)[0] = <<>>
      /\ \A i \in 1..Len(sent) :
           Kept(sent, S)[i] = IF sent[i] \in S THEN Append(Kept(sent, S)[i - 1], sent[i])
                              ELSE Kept(sent, S)[i - 1]
  BY <1>1, KeptIs
<1>3. \A k \in 1..Len(sent) : sent[k] \in S <=> sent[k].type = "term"
  BY SentAt, InSent
<1> HIDE DEF S
<1>4. Len(sent) \in Nat
  BY SentAt
<1>5. \A k \in 0..Len(sent) : Len(Kept(sent, S)[k]) \in Nat
  BY <1>2
<1>6. ASSUME NEW k \in 1..Len(sent)
      PROVE  Len(Kept(sent, S)[k]) = IF sent[k].type = "term" THEN Len(Kept(sent, S)[k - 1]) + 1
                                     ELSE Len(Kept(sent, S)[k - 1])
  <2>1. k - 1 \in 0..Len(sent) /\ sent[k] \in Messages
    BY <1>4, SentAt
  <2>2. PICK q \in Seq(Messages) : q = Kept(sent, S)[k - 1]
    BY <1>2, <2>1
  <2>3. Len(Append(q, sent[k])) = Len(q) + 1
    BY <2>1, <2>2, AppendProperties
  <2> QED BY <1>2, <1>3, <2>2, <2>3
<1>7. Len(Kept(sent, S)[0]) = 0
  BY <1>2
<1> QED BY <1>5, <1>6, <1>7 DEF Terms, S

LEMMA TermsGrow ==
  ASSUME Types, NEW i \in 0..Len(sent), NEW j \in i..Len(sent)
  PROVE  Terms(i) <= Terms(j)
<1>1. sent \in Seq(Messages)
  BY DEF Types
<1> QED BY <1>1, KeptGrows DEF Terms, IsStart

LEMMA WroteIs ==
  ASSUME Types, NEW type
  PROVE  WroteOf(type) \in Seq(Writes) /\ Len(WroteOf(type)) \in Nat
<1>1. wrote \in Seq(Writes)
  BY DEF Types
<1>2. WroteOf(type) \in Seq(Writes)
  BY <1>1, OnlyType DEF WroteOf
<1> QED BY <1>2

\* One more message is handed to the connection.
LEMMA WroteMore ==
  ASSUME Types, NEW t \in {"init", "rpc", "pong"}, NEW len \in 1..MaxMessage, Written(t, len)
  PROVE  /\ wrote' \in Seq(Writes)
         /\ WroteOf("rpc")' = IF t = "rpc" THEN Append(WroteOf("rpc"), [type |-> t, len |-> len])
                              ELSE WroteOf("rpc")
         /\ WroteOf("pong")' = IF t = "pong" THEN Append(WroteOf("pong"), [type |-> t, len |-> len])
                               ELSE WroteOf("pong")
<1> DEFINE e == [type |-> t, len |-> len]
           S(type) == [type : {type}, len : Nat]
<1>1. wrote \in Seq(Writes) /\ wrote' = Append(wrote, e)
  BY DEF Types, Written
<1>2. e \in Writes /\ len \in Nat
  BY MaxMessageIs DEF Writes
<1>3. e \in S("rpc") <=> t = "rpc"
  BY <1>2
<1>4. e \in S("pong") <=> t = "pong"
  BY <1>2
<1>5. wrote' \in Seq(Writes)
  BY <1>1, <1>2, AppendProperties
<1> HIDE DEF e, S
<1>6. Only(wrote', S("rpc")) = IF t = "rpc" THEN Append(Only(wrote, S("rpc")), e) ELSE Only(wrote, S("rpc"))
  BY <1>1, <1>2, <1>3, OnlyAppend
<1>7. Only(wrote', S("pong")) = IF t = "pong" THEN Append(Only(wrote, S("pong")), e) ELSE Only(wrote, S("pong"))
  BY <1>1, <1>2, <1>4, OnlyAppend
<1>8. /\ WroteOf("rpc") = Only(wrote, S("rpc")) /\ WroteOf("rpc")' = Only(wrote', S("rpc"))
      /\ WroteOf("pong") = Only(wrote, S("pong")) /\ WroteOf("pong")' = Only(wrote', S("pong"))
  BY DEF WroteOf, S
<1> QED BY <1>5, <1>6, <1>7, <1>8 DEF e

LEMMA AskedMore ==
  ASSUME Types, NEW t \in {"init", "rpc", "pong"}, NEW len \in 1..MaxMessage, Written(t, len)
  PROVE  Asked' = (IF t = "rpc" THEN Asked + 1 ELSE Asked)
<1>1. PICK e : e = [type |-> t, len |-> len]
  OBVIOUS
<1>2. e \in Writes
  BY <1>1 DEF Writes
<1>3. WroteOf("rpc") \in Seq(Writes)
  BY WroteIs
<1>4. WroteOf("rpc")' = IF t = "rpc" THEN Append(WroteOf("rpc"), e) ELSE WroteOf("rpc")
  BY <1>1, WroteMore
<1>5. Len(Append(WroteOf("rpc"), e)) = Len(WroteOf("rpc")) + 1
  BY <1>2, <1>3, AppendProperties
<1> QED BY <1>4, <1>5 DEF Asked

-----------------------------------------------------------------------------
(* The node *)

\* What a step of the node sends, if it sends anything.
Sendable(m) ==
  \/ sent = <<>> /\ m.type = "init"
  \/ sent # <<>> /\ m.type \in Pieces /\ m.req = Terms(Len(sent)) + 1 /\ m.req <= Asked
  \/ sent # <<>> /\ m.type \in {"ping", "other", "short"} /\ m.n <= MaxMessage

LEMMA NodeSends ==
  ASSUME Types, Node
  PROVE  \/ sent' = sent
         \/ \E m \in Messages : sent' = Append(sent, m) /\ Sendable(m)
<1> DEFINE M(type, n, req) == [type |-> type, n |-> n, req |-> req]
<1>0. /\ \A type \in MessageTypes : \A n, req \in Nat :
           /\ M(type, n, req) \in Messages
           /\ M(type, n, req).type = type /\ M(type, n, req).n = n /\ M(type, n, req).req = req
      /\ \A type, n, req : Sends(type, n, req) => sent' = Append(sent, M(type, n, req))
  BY DEF Messages, Sends
<1>a. 0 \in Nat /\ 0 <= MaxMessage
  BY MaxMessageIs
<1>1. CASE NodeInit
  <2>1. "init" \in MessageTypes /\ Sends("init", 0, 0) /\ sent = <<>>
    BY <1>1 DEF NodeInit, MessageTypes
  <2> HIDE DEF M
  <2>2. Sendable(M("init", 0, 0))
    BY <1>0, <1>a, <2>1 DEF Sendable
  <2> QED BY <1>0, <1>a, <2>1, <2>2
<1>2. CASE NodeReply
  <2>1. PICK n, req : /\ req = Len(SentOf({"term"})) + 1 /\ n = Len(ReplyTo(req)) + 1
                      /\ req <= Len(WroteOf("rpc")) /\ sent # <<>>
                      /\ Sends("continues", n, req) \/ Sends("term", n, req)
    BY <1>2 DEF NodeReply
  <2>2. sent \in Seq(Messages)
    BY DEF Types
  <2>3. SentOf({"term"}) \in Seq(Messages) /\ ReplyTo(req) \in Seq(Messages)
    BY <2>2, OnlyType DEF SentOf, ReplyTo
  <2>4. n \in Nat /\ req \in Nat
    BY <2>1, <2>3
  <2>5. req = Terms(Len(sent)) + 1 /\ req <= Asked
    BY <2>1 DEF Terms, SentOf, Only, Asked
  <2>6. {"continues", "term"} \subseteq MessageTypes /\ {"continues", "term"} \subseteq Pieces
    BY DEF MessageTypes, Pieces
  <2> HIDE DEF M
  <2>7. ASSUME NEW t \in {"continues", "term"}, Sends(t, n, req)
        PROVE  \E m \in Messages : sent' = Append(sent, m) /\ Sendable(m)
    <3>1. Sendable(M(t, n, req))
      BY <1>0, <2>1, <2>4, <2>5, <2>6 DEF Sendable
    <3> QED BY <1>0, <2>4, <2>6, <2>7, <3>1
  <2> QED BY <2>1, <2>7
<1>3. CASE NodeExtra
  <2>1. PICK t \in {"ping", "other", "short"}, n \in Nat :
          Sends(t, n, 0) /\ n <= MaxMessage /\ sent # <<>>
    <3>1. \A asked \in Asks : asked \in Nat /\ asked <= MaxMessage
      BY NodeAssumption, MaxMessageIs DEF Asks
    <3> QED BY <1>3, <1>a, <3>1 DEF NodeExtra
  <2>2. t \in MessageTypes
    BY DEF MessageTypes
  <2> HIDE DEF M
  <2>3. Sendable(M(t, n, 0))
    BY <1>0, <1>a, <2>1, <2>2 DEF Sendable
  <2> QED BY <1>0, <1>a, <2>1, <2>2, <2>3
<1>4. CASE ArriveSome \/ ArriveWhole \/ Breaks
  BY <1>4 DEF ArriveSome, ArriveWhole, Breaks
<1> QED BY <1>1, <1>2, <1>3, <1>4 DEF Node

\* The node sends one message more.
LEMMA SentMore ==
  ASSUME Types, NEW m \in Messages, sent' = Append(sent, m)
  PROVE  /\ sent' \in Seq(Messages) /\ Len(sent') = Len(sent) + 1 /\ sent' # <<>>
         /\ sent'[Len(sent) + 1] = m /\ \A k \in 1..Len(sent) : sent'[k] = sent[k]
         /\ \A k \in 0..Len(sent) : Terms(k)' = Terms(k)
<1>1. sent \in Seq(Messages)
  BY DEF Types
<1>2. \A k \in 0..Len(sent) : Terms(k)' = Terms(k)
  BY <1>1, KeptAppend DEF Terms
<1>3. /\ sent' \in Seq(Messages) /\ Len(sent') = Len(sent) + 1
      /\ sent'[Len(sent) + 1] = m /\ \A k \in 1..Len(sent) : sent'[k] = sent[k]
  BY <1>1, AppendProperties
<1>4. sent' # <<>>
  BY <1>1, <1>3
<1> QED BY <1>2, <1>3, <1>4

LEMMA NodeOKSends ==
  ASSUME Types, NodeOK, NEW m \in Messages, sent' = Append(sent, m), Sendable(m), wrote' = wrote
  PROVE  NodeOK'
<1>1. /\ Len(sent) \in Nat /\ Len(sent') = Len(sent) + 1
      /\ sent'[Len(sent) + 1] = m /\ \A k \in 1..Len(sent) : sent'[k] = sent[k]
      /\ \A k \in 0..Len(sent) : Terms(k)' = Terms(k)
  BY SentMore, SentAt
<1>2. Asked' = Asked
  BY DEF Asked, WroteOf
<1>3. sent'[1].type = "init"
  <2>1. CASE sent = <<>>
    BY <1>1, <2>1 DEF Sendable
  <2>2. CASE sent # <<>>
    <3>1. 1 \in 1..Len(sent)
      BY <1>1, <2>2, EmptySeq DEF Types
    <3> QED BY <1>1, <2>2, <3>1 DEF NodeOK
  <2> QED BY <2>1, <2>2
<1>4. ASSUME NEW k \in 1..Len(sent')
      PROVE  /\ sent'[k].type \in Pieces => sent'[k].req = Terms(k - 1)' + 1 /\ sent'[k].req <= Asked
             /\ sent'[k].type = "ping" => sent'[k].n <= MaxMessage
  <2>1. CASE k \in 1..Len(sent)
    <3>1. k - 1 \in 0..Len(sent)
      BY <1>1, <2>1
    <3> QED BY <1>1, <2>1, <3>1 DEF NodeOK
  <2>2. CASE k = Len(sent) + 1
    <3>1. k - 1 = Len(sent) /\ Len(sent) \in 0..Len(sent) /\ sent'[k] = m
      BY <1>1, <2>2
    <3> QED BY <1>1, <3>1 DEF Sendable, Pieces
  <2> QED BY <1>1, <2>1, <2>2
<1> QED BY <1>2, <1>3, <1>4 DEF NodeOK

\* A client does not disturb what the node has sent: it only writes more.
LEMMA NodeOKKept ==
  ASSUME Types, NodeOK, sent' = sent, Asked' \in Nat, Asked' >= Asked
  PROVE  NodeOK'
<1>1. Asked \in Nat
  BY WroteIs DEF Asked
<1>2. \A k \in 1..Len(sent) : Terms(k - 1)' = Terms(k - 1)
  BY DEF Terms
<1>3. \A k \in 1..Len(sent) : sent[k].req \in Nat
  BY SentAt
<1> QED BY <1>1, <1>2, <1>3 DEF NodeOK

\* What the node's pieces say of the requests.
LEMMA PieceIs ==
  ASSUME Types, NodeOK, NEW k \in 1..Len(sent), sent[k].type \in Pieces
  PROVE  /\ sent[k].req \in Nat /\ sent[k].req >= 1 /\ sent[k].req <= Asked
         /\ sent[k].req = Terms(k - 1) + 1
         /\ Terms(k - 1) \in Nat /\ Asked \in Nat
<1>1. Asked \in Nat
  BY WroteIs DEF Asked
<1>2. k - 1 \in 0..Len(sent) /\ sent[k].req \in Nat
  BY SentAt
<1>3. Terms(k - 1) \in Nat
  BY <1>2, TermsIs
<1> QED BY <1>1, <1>2, <1>3 DEF NodeOK

\* No piece of a reply comes after its last.
LEMMA PieceAfterTerm ==
  ASSUME Types, NodeOK, NEW j \in 0..Len(sent), NEW k \in (j + 1)..Len(sent),
         sent[k].type \in Pieces
  PROVE  sent[k].req >= Terms(j) + 1
<1>1. k \in 1..Len(sent) /\ j \in 0..Len(sent) /\ k - 1 \in j..Len(sent)
  BY SentAt
<1>2. Terms(j) <= Terms(k - 1)
  BY <1>1, TermsGrow
<1>3. Terms(j) \in Nat
  BY <1>1, TermsIs
<1> QED BY <1>1, <1>2, <1>3, PieceIs

-----------------------------------------------------------------------------
(* What a client reads *)

LEMMA ReadsIs ==
  ASSUME Types, Reads
  PROVE  /\ read \in 0..Len(sent) /\ read + 1 \in 1..Len(sent) /\ (read + 1) - 1 = read
         /\ Message \in Messages /\ Message = sent[read + 1] /\ Message.type \in MessageTypes
         /\ Message.n \in Nat /\ Message.req \in Nat /\ <<Message.req, Message.n>> \in Nat \X Nat
         /\ read' = read + 1 /\ read' \in 0..arrived /\ read' \in 0..Len(sent)
<1>1. /\ read \in Nat /\ arrived \in Nat /\ Len(sent) \in Nat
      /\ arrived <= Len(sent) /\ read < arrived /\ read' = read + 1
  BY SentAt DEF Types, TypeOK, Reads
<1>2. read + 1 \in 1..Len(sent) /\ read \in 0..Len(sent) /\ read' \in 0..arrived /\ read' \in 0..Len(sent)
  BY <1>1
<1>3. /\ sent[read + 1] \in Messages /\ sent[read + 1].type \in MessageTypes
      /\ sent[read + 1].n \in Nat /\ sent[read + 1].req \in Nat
  BY <1>2, SentAt
<1> QED BY <1>1, <1>2, <1>3 DEF Message

LEMMA ReadsKept ==
  ASSUME Types, Reads, NEW S
  PROVE  Kept(sent, S)[read'] = IF Message \in S THEN Append(Kept(sent, S)[read], Message)
                                ELSE Kept(sent, S)[read]
<1>1. sent \in Seq(Messages)
  BY DEF Types
<1> QED BY <1>1, ReadsIs, KeptIs

LEMMA ReadsTerms ==
  ASSUME Types, Reads
  PROVE  /\ Terms(read) \in Nat
         /\ Terms(read') = IF Message.type = "term" THEN Terms(read) + 1 ELSE Terms(read)
BY ReadsIs, TermsIs

\* Places of what was kept, as the numbers that are compared.
LEMMA NumbersIs ==
  ASSUME NEW q \in Seq(Messages)
  PROVE  /\ Numbers(q) \in Seq(Nat \X Nat) /\ Len(Numbers(q)) = Len(q)
         /\ \A i \in 1..Len(q) : Numbers(q)[i] = <<q[i].req, q[i].n>>
         /\ \A m \in Messages : Numbers(Append(q, m)) = Append(Numbers(q), <<m.req, m.n>>)
<1> DEFINE F == [m \in Messages |-> <<m.req, m.n>>]
<1>v. PICK V : V = Nat \X Nat
  OBVIOUS
<1>1. Maps(F, Messages, V) /\ \A m \in Messages : F[m] = <<m.req, m.n>>
  BY <1>v DEF Messages, Maps
<1>2. ASSUME NEW r \in Seq(Messages)
      PROVE  Numbers(r) = Map(F, r)
  <2>1. DOMAIN r = 1..Len(r) /\ \A i \in 1..Len(r) : r[i] \in Messages
    BY LenProperties, ElementOfSeq
  <2> HIDE DEF F
  <2> QED BY <1>1, <2>1 DEF Numbers, Map
<1>3. \A i \in 1..Len(q) : q[i] \in Messages
  BY ElementOfSeq
<1> HIDE DEF F
<1>4. /\ Numbers(q) \in Seq(V) /\ Len(Numbers(q)) = Len(q)
      /\ \A i \in 1..Len(q) : Numbers(q)[i] = F[q[i]]
  BY <1>1, <1>2, MapIs
<1>5. ASSUME NEW m \in Messages
      PROVE  Numbers(Append(q, m)) = Append(Numbers(q), F[m])
  <2>1. Append(q, m) \in Seq(Messages)
    BY AppendProperties
  <2>2. Map(F, Append(q, m)) = Append(Map(F, q), F[m])
    BY <1>1, MapAppend
  <2>3. Numbers(q) = Map(F, q) /\ Numbers(Append(q, m)) = Map(F, Append(q, m))
    BY <1>2, <2>1
  <2> QED BY <2>2, <2>3
<1> QED BY <1>v, <1>1, <1>3, <1>4, <1>5

LEMMA NumbersEmpty == Numbers(<<>>) = <<>>
<1>1. DOMAIN <<>> = {} /\ \A i \in {} : FALSE
  OBVIOUS
<1> QED BY <1>1 DEF Numbers

-----------------------------------------------------------------------------
(* Types *)

WriteTypes == {"init", "rpc", "pong"}
LnPcs == {"connect", "init", "answer", "ask", "select", "recv", "exit", "killed"}
BindingPcs == {"connect", "greet", "hear", "idle", "recv", "wait", "over"}

\* A step of a client reads and writes at most one message.
ReadsWrites ==
  /\ read' = read \/ Reads
  /\ wrote' = wrote \/ \E t \in WriteTypes, len \in 1..MaxMessage : Written(t, len)
  /\ client' = client /\ sent' = sent /\ arrived' = arrived /\ part' = part /\ up' = up

LEMMA ReadsWritesTypes ==
  ASSUME Types, ReadsWrites
  PROVE  /\ sent' \in Seq(Messages) /\ wrote' \in Seq(Writes)
         /\ client' \in Clients /\ part' \in BOOLEAN /\ up' \in BOOLEAN
         /\ read' \in 0..arrived' /\ arrived' \in 0..Len(sent')
         /\ \A i \in DOMAIN wrote' : wrote'[i].len \in 1..MaxMessage
<1>1. wrote' \in Seq(Writes)
  <2>1. CASE wrote' = wrote
    BY <2>1 DEF Types
  <2>2. ASSUME NEW t \in WriteTypes, NEW len \in 1..MaxMessage, Written(t, len)
        PROVE  wrote' \in Seq(Writes)
    BY <2>2, WroteMore DEF WriteTypes
  <2> QED BY <2>1, <2>2 DEF ReadsWrites
<1>2. \A i \in DOMAIN wrote' : wrote'[i].len \in 1..MaxMessage
  <2>1. DOMAIN wrote' = 1..Len(wrote')
    BY <1>1, LenProperties
  <2>2. \A i \in 1..Len(wrote') : wrote'[i] \in Writes
    BY <1>1, ElementOfSeq
  <2> QED BY <2>1, <2>2 DEF Writes
<1>3. read' \in 0..arrived'
  <2>1. CASE read' = read
    BY <2>1 DEF Types, TypeOK, ReadsWrites
  <2>2. CASE Reads
    BY <2>2, ReadsIs DEF ReadsWrites
  <2> QED BY <2>1, <2>2 DEF ReadsWrites
<1>4. sent' \in Seq(Messages) /\ client' \in Clients /\ part' \in BOOLEAN /\ up' \in BOOLEAN
      /\ arrived' \in 0..Len(sent')
  BY DEF Types, TypeOK, ReadsWrites
<1> QED BY <1>1, <1>2, <1>3, <1>4

\* What a step of lnrpc does.
LnRpcStep ==
  /\ ReadsWrites
  /\ pc' \in LnPcs /\ ok' \in BOOLEAN /\ chunks' = chunks /\ results' = results
  /\ printed' = printed \/ (Reads /\ printed' = Append(printed, <<Message.req, Message.n>>))

LEMMA LnRpcSteps ==
  ASSUME Types, NodeOK, client = "lnrpc", LnRpcRuns, UNCHANGED <<client, bindingOnly, nodeVars>>
  PROVE  LnRpcStep
<1> USE DEF LnPcs, LnRpcStep, ReadsWrites, WriteTypes
<1>0. ok \in BOOLEAN /\ pc \in LnPcs
  BY DEF Types, TypeOK
<1>a. /\ client' = client /\ sent' = sent /\ arrived' = arrived /\ part' = part /\ up' = up
      /\ chunks' = chunks /\ results' = results
  BY DEF bindingOnly, nodeVars
<1>1. CASE Connect
  BY <1>0, <1>a, <1>1 DEF Connect, Fails
<1>2. CASE ReadInit
  BY <1>0, <1>a, <1>2 DEF ReadInit
<1>3. CASE WriteInit
  <2>1. PICK len : len = MakeInit(1024) /\ len \in 1..MaxMessage /\ len > 0 /\ len # 0
    BY MakeInitIs, MaxMessageIs
  <2>2. /\ \/ Fails /\ UNCHANGED wrote
           \/ WriteDies
           \/ Written("init", len) /\ pc' = "ask" /\ UNCHANGED ok
        /\ read' = read /\ printed' = printed
    BY <1>3, <2>1 DEF WriteInit
  <2>3. wrote' = wrote \/ Written("init", len)
    BY <2>2 DEF WriteDies
  <2>4. pc' \in LnPcs /\ ok' \in BOOLEAN
    BY <1>0, <2>2 DEF Fails, WriteDies
  <2>5. ReadsWrites
    BY <1>a, <2>1, <2>2, <2>3
  <2> QED BY <1>a, <2>2, <2>4, <2>5
<1>4. CASE WriteRpc
  <2>1. PICK strings \in RpcStrings :
          LET len == MakeRpc(strings, RpcBuf)
          IN  \/ Fails /\ UNCHANGED wrote
              \/ WriteDies
              \/ len > 0 /\ Written("rpc", len) /\ pc' = "select" /\ UNCHANGED ok
    BY <1>4 DEF WriteRpc
  <2>2. MakeRpc(strings, RpcBuf) \in 0..MaxMessage
    BY NodeAssumption, RpcAssumption, MakeRpcIs
  <2>3. MakeRpc(strings, RpcBuf) > 0 => MakeRpc(strings, RpcBuf) \in 1..MaxMessage
    BY <2>2, MaxMessageIs
  <2>4. read' = read /\ printed' = printed
    BY <1>4 DEF WriteRpc
  <2> QED BY <1>0, <1>a, <2>1, <2>3, <2>4 DEF Fails, WriteDies
<1>5. CASE SelectReturns
  BY <1>0, <1>a, <1>5 DEF SelectReturns
<1>6. CASE SelectFails
  BY <1>0, <1>a, <1>6 DEF SelectFails, Fails
<1>7. CASE RecvTerm
  BY <1>0, <1>a, <1>7 DEF RecvTerm
<1>8. CASE RecvContinues
  BY <1>0, <1>a, <1>8 DEF RecvContinues
<1>9. CASE RecvPing
  <2>1. Reads /\ Message.type = "ping"
    BY <1>9 DEF RecvPing
  <2>2. Message.n \in 0..MaxMessage
    BY <2>1, ReadsIs, MaxMessageIs DEF NodeOK
  <2>3. MakePong(Message.n, PongBuf) \in 1..MaxMessage
    BY <2>2, MakePongIs, RpcAssumption, MaxMessageIs
  <2> QED BY <1>0, <1>a, <1>9, <2>1, <2>3 DEF RecvPing, WriteDies
<1>10. CASE RecvOther
  BY <1>0, <1>a, <1>10 DEF RecvOther
<1>11. CASE RecvShort
  BY <1>0, <1>a, <1>11 DEF RecvShort, Fails
<1>12. CASE ReadFails
  BY <1>0, <1>a, <1>12 DEF ReadFails, Fails
<1> QED BY <1>1, <1>2, <1>3, <1>4, <1>5, <1>6, <1>7, <1>8, <1>9, <1>10, <1>11, <1>12 DEF LnRpcRuns

LEMMA LnRpcTypes ==
  ASSUME Types, client = "lnrpc", LnRpcStep
  PROVE  Types'
<1>1. /\ sent' \in Seq(Messages) /\ wrote' \in Seq(Writes)
      /\ client' \in Clients /\ part' \in BOOLEAN /\ up' \in BOOLEAN
      /\ read' \in 0..arrived' /\ arrived' \in 0..Len(sent')
      /\ \A i \in DOMAIN wrote' : wrote'[i].len \in 1..MaxMessage
  BY ReadsWritesTypes DEF LnRpcStep
<1>2. printed' \in Seq(Nat \X Nat)
  <2>1. printed \in Seq(Nat \X Nat)
    BY DEF Types, TypeOK
  <2>2. CASE Reads /\ printed' = Append(printed, <<Message.req, Message.n>>)
    BY <2>1, <2>2, ReadsIs, AppendProperties
  <2> QED BY <2>1, <2>2 DEF LnRpcStep
<1>3. pc' \in LnPcs /\ ok' \in BOOLEAN /\ chunks' = chunks /\ results' = results /\ client' = "lnrpc"
  BY DEF LnRpcStep, ReadsWrites
<1>4. chunks \in Seq(Nat \X Nat) /\ Len(results) <= MaxCalls /\ results \in Seq(Calls)
  BY DEF Types, TypeOK
<1> QED BY <1>1, <1>2, <1>3, <1>4 DEF Types, TypeOK, LnPcs

\* What a step of a binding does: it reads at most one message, and a part of
\* a reply becomes a chunk or, with the chunks before it, a result.
Result(req, done, parts) == results' = Append(results, [req |-> req, ok |-> done, parts |-> parts])
BindingStep ==
  /\ ReadsWrites
  /\ pc' \in BindingPcs /\ ok' = ok /\ printed' = printed
  /\ pc' \in {"recv", "wait"} => Len(results) < MaxCalls
  /\ \/ chunks' = chunks /\ results' = results
     \/ chunks' = Append(chunks, Part) /\ Reads /\ results' = results
     \/ /\ chunks' = <<>> /\ Len(results) < MaxCalls /\ pc' = "idle"
        /\ \/ \E req \in {0, Asked} : Result(req, FALSE, <<>>)
           \/ Reads /\ Result(Asked, TRUE, Append(chunks, Part))

LEMMA BindingSteps ==
  ASSUME Types, client # "lnrpc", BindingRuns, UNCHANGED <<client, lnrpcOnly, nodeVars>>
  PROVE  BindingStep
<1> USE DEF BindingPcs, BindingStep, ReadsWrites, WriteTypes, Result
<1>0. /\ pc \in BindingPcs /\ BindingAssumption /\ NodeAssumption
      /\ pc \in {"recv", "wait"} => Len(results) < MaxCalls
  BY BindingAssumption, NodeAssumption DEF Types, TypeOK
<1>a. /\ client' = client /\ sent' = sent /\ arrived' = arrived /\ part' = part /\ up' = up
      /\ ok' = ok /\ printed' = printed
  BY DEF lnrpcOnly, nodeVars
<1>1. CASE BindingConnect
  BY <1>0, <1>a, <1>1 DEF BindingConnect
<1>2. CASE GoGreet
  <2>1. 6 \in 1..MaxMessage
    BY MaxMessageIs
  <2> QED BY <1>0, <1>a, <1>2, <2>1 DEF GoGreet
<1>3. CASE GoHear
  BY <1>0, <1>a, <1>3 DEF GoHear
<1>4. CASE JsHear
  BY <1>0, <1>a, <1>4 DEF JsHear
<1>5. CASE JsGreet
  <2>1. PICK len : len = MakeInit(1024) /\ len \in 1..MaxMessage
    BY MakeInitIs, MaxMessageIs
  <2>2. Written("init", len) \/ UNCHANGED wrote
    BY <1>5, <2>1 DEF JsGreet
  <2>3. pc' = "idle" /\ read' = read /\ chunks' = chunks /\ results' = results
    BY <1>5 DEF JsGreet
  <2> QED BY <1>0, <1>a, <2>1, <2>2, <2>3
<1>6. CASE GoRpc
  <2>1. PICK strings \in RpcStrings :
           \/ /\ 8 + strings <= GoPayload
              /\ Written("rpc", 10 + strings)
              /\ pc' = "recv" /\ UNCHANGED <<chunks, results>>
           \/ Ends(0, FALSE, <<>>) /\ UNCHANGED wrote
    BY <1>6 DEF GoRpc
  <2>2. 8 + strings <= GoPayload => 10 + strings \in 1..MaxMessage
    BY <1>0, MaxMessageIs DEF BindingAssumption, NodeAssumption
  <2>3. read' = read /\ Len(results) < MaxCalls
    BY <1>6 DEF GoRpc, Begins
  <2> QED BY <1>0, <1>a, <2>1, <2>2, <2>3 DEF Ends
<1>7. CASE JsRpc
  <2>1. PICK strings \in RpcStrings : LET len == MakeRpc(strings, JsBuf) IN
           \/ len > 0 /\ Written("rpc", len) /\ pc' = "recv" /\ UNCHANGED <<chunks, results>>
           \/ Ends(0, FALSE, <<>>) /\ UNCHANGED wrote
    BY <1>7 DEF JsRpc
  <2>2. PICK len : len = MakeRpc(strings, JsBuf) /\ len \in 0..MaxMessage
    BY <1>0, MakeRpcIs DEF BindingAssumption, NodeAssumption
  <2>3. len > 0 => len \in 1..MaxMessage
    BY <2>2, MaxMessageIs
  <2>4. read' = read /\ Len(results) < MaxCalls
    BY <1>7 DEF JsRpc, Begins
  <2> QED BY <1>0, <1>a, <2>1, <2>2, <2>3, <2>4 DEF Ends
<1>8. CASE JsRecv
  BY <1>0, <1>a, <1>8 DEF JsRecv, Ends
<1>9. CASE GetsContinues
  BY <1>0, <1>a, <1>9 DEF GetsContinues, Waits
<1>10. CASE GetsTerm
  BY <1>0, <1>a, <1>10 DEF GetsTerm, Waits, Ends
<1>11. CASE GetsOther
  BY <1>0, <1>a, <1>11 DEF GetsOther, Waits
<1>12. CASE GoGetsShort
  BY <1>0, <1>a, <1>12 DEF GoGetsShort, Waits, Ends
<1>13. CASE ReadEnds
  BY <1>0, <1>a, <1>13 DEF ReadEnds, Waits, Ends
<1> QED BY <1>1, <1>2, <1>3, <1>4, <1>5, <1>6, <1>7, <1>8, <1>9, <1>10, <1>11, <1>12, <1>13
        DEF BindingRuns

LEMMA BindingTypes ==
  ASSUME Types, client # "lnrpc", BindingStep
  PROVE  Types'
<1>1. /\ sent' \in Seq(Messages) /\ wrote' \in Seq(Writes)
      /\ client' \in Clients /\ part' \in BOOLEAN /\ up' \in BOOLEAN
      /\ read' \in 0..arrived' /\ arrived' \in 0..Len(sent')
      /\ \A i \in DOMAIN wrote' : wrote'[i].len \in 1..MaxMessage
  BY ReadsWritesTypes DEF BindingStep
<1>2. /\ pc' \in BindingPcs /\ ok' = ok /\ printed' = printed /\ client' = client
      /\ pc' \in {"recv", "wait"} => Len(results) < MaxCalls
  BY DEF BindingStep, ReadsWrites
<1>3. /\ chunks \in Seq(Nat \X Nat) /\ Len(results) <= MaxCalls /\ results \in Seq(Calls)
      /\ ok \in BOOLEAN /\ printed \in Seq(Nat \X Nat) /\ Len(results) \in Nat /\ MaxCalls \in Nat
  BY BindingAssumption DEF Types, TypeOK
<1>4. Reads => Part \in Nat \X Nat /\ Append(chunks, Part) \in Seq(Nat \X Nat)
  BY <1>3, ReadsIs, AppendProperties DEF Part
<1>5. <<>> \in Seq(Nat \X Nat) /\ Asked \in Nat /\ 0 \in Nat
  BY WroteIs DEF Asked
<1>6. chunks' \in Seq(Nat \X Nat)
  BY <1>3, <1>4, <1>5 DEF BindingStep
<1>7. /\ results' \in Seq(Calls) /\ Len(results') <= MaxCalls
      /\ results' = results \/ (Len(results') = Len(results) + 1 /\ pc' = "idle")
  <2>1. CASE results' = results
    BY <1>3, <2>1
  <2>2. ASSUME NEW req \in Nat, NEW done \in BOOLEAN, NEW parts \in Seq(Nat \X Nat),
               Result(req, done, parts), Len(results) < MaxCalls
        PROVE  results' \in Seq(Calls) /\ Len(results') = Len(results) + 1 /\ Len(results') <= MaxCalls
    <3>1. PICK c : c = [req |-> req, ok |-> done, parts |-> parts]
      OBVIOUS
    <3>2. c \in Calls
      BY <3>1 DEF Calls
    <3>3. results' = Append(results, c)
      BY <2>2, <3>1 DEF Result
    <3>4. Append(results, c) \in Seq(Calls) /\ Len(Append(results, c)) = Len(results) + 1
      BY <1>3, <3>2, AppendProperties
    <3> QED BY <1>3, <2>2, <3>3, <3>4
  <2>3. FALSE \in BOOLEAN /\ TRUE \in BOOLEAN
    OBVIOUS
  <2> QED BY <1>4, <1>5, <2>1, <2>2, <2>3 DEF BindingStep
<1>8. client' # "lnrpc" /\ pc' \in {"recv", "wait"} => Len(results') < MaxCalls
  BY <1>2, <1>3, <1>7
<1> QED BY <1>1, <1>2, <1>3, <1>6, <1>7, <1>8 DEF Types, TypeOK, BindingPcs

-----------------------------------------------------------------------------
(* lnrpc *)

\* The first message is no part of a reply and no ping.
LEMMA FirstIs ==
  ASSUME Types, NodeOK, Reads, read = 0
  PROVE  Message.type = "init" /\ Message.type \notin Pieces
<1>1. sent # <<>>
  <2>1. Len(sent) # 0
    BY ReadsIs, SentAt
  <2> QED BY <2>1
<1> QED BY <1>1, ReadsIs DEF NodeOK, Pieces

\* A piece of a reply becomes part of what was read of that reply.
LEMMA ReadsReply ==
  ASSUME Types, Reads, NEW req
  PROVE  /\ Reply(req)[read] \in Seq(Messages)
         /\ Reply(req)[read'] = IF Message.type \in Pieces /\ Message.req = req
                                THEN Append(Reply(req)[read], Message) ELSE Reply(req)[read]
<1>1. sent \in Seq(Messages)
  BY DEF Types
<1>2. Message \in Sent(Pieces, {req}) <=> Message.type \in Pieces /\ Message.req = req
  BY ReadsIs, InSent
<1>3. Reply(req)[read] \in Seq(Messages)
  BY <1>1, ReadsIs, KeptIs DEF Reply
<1> QED BY <1>2, <1>3, ReadsKept DEF Reply

LEMMA ReadsPrinted ==
  ASSUME Types, NodeOK, Asked <= 1, PrintedOK, Reads, sent' = sent,
         \/ Message.type \in Pieces /\ printed' = Append(printed, <<Message.req, Message.n>>)
         \/ Message.type \notin Pieces /\ printed' = printed
  PROVE  PrintedOK'
<1>1. PICK q \in Seq(Messages) : q = Reply(1)[read]
  BY ReadsReply
<1>2. Message.type \in Pieces => Message.req = 1
  BY PieceIs, ReadsIs
<1>3. PICK m \in Messages : m = Message
  BY ReadsIs
<1>4. Reply(1)[read'] = IF m.type \in Pieces THEN Append(q, m) ELSE q
  BY <1>1, <1>2, <1>3, ReadsReply
<1>5. printed = Numbers(q)
  BY <1>1 DEF PrintedOK
<1>6. Numbers(Append(q, m)) = Append(Numbers(q), <<m.req, m.n>>)
  BY NumbersIs
<1>7. printed' = Numbers(Reply(1)[read'])
  BY <1>3, <1>4, <1>5, <1>6
<1>8. Reply(1)' = Reply(1)
  BY DEF Reply
<1> QED BY <1>7, <1>8 DEF PrintedOK

LEMMA ReadsNoTerm ==
  ASSUME Types, NoTerm, Reads, sent' = sent, Message.type # "term"
  PROVE  NoTerm'
<1>1. \A k \in 1..read' : k \in 1..read \/ k = read + 1
  BY ReadsIs, SentAt
<1> QED BY <1>1, ReadsIs DEF NoTerm

\* The length of the answer to a ping, and what was written for one.
PongLen == [m \in Messages |-> IF m.n < 4 THEN 4 ELSE m.n]
WriteLen == [e \in Writes |-> e.len]
Pings == Kept(sent, Sent({"ping"}, Nat))

LEMMA PongMaps ==
  /\ Maps(PongLen, Messages, Nat) /\ Maps(WriteLen, Writes, Nat)
  /\ \A m \in Messages : PongLen[m] = IF m.n < 4 THEN 4 ELSE m.n
  /\ \A e \in Writes : WriteLen[e] = e.len
<1>1. \A m \in Messages : m.n \in Nat
  BY DEF Messages
<1>2. \A e \in Writes : e.len \in Nat
  BY MaxMessageIs DEF Writes
<1> QED BY <1>1, <1>2 DEF PongLen, WriteLen, Maps

LEMMA PongsMap ==
  ASSUME Types, NEW k \in 0..Len(sent)
  PROVE  /\ Pings[k] \in Seq(Messages)
         /\ PongLens(k) = Map(PongLen, Pings[k])
         /\ PongsSent = Map(WriteLen, WroteOf("pong"))
<1>1. sent \in Seq(Messages)
  BY DEF Types
<1>2. PICK q \in Seq(Messages) : q = Pings[k]
  BY <1>1, KeptIs DEF Pings
<1>3. DOMAIN q = 1..Len(q) /\ \A i \in 1..Len(q) : q[i] \in Messages
  BY LenProperties, ElementOfSeq
<1>4. PongLens(k) = [i \in DOMAIN q |-> IF q[i].n < 4 THEN 4 ELSE q[i].n]
  BY <1>2 DEF PongLens, Pings
<1>5. PongLens(k) = Map(PongLen, q)
  BY <1>3, <1>4, PongMaps DEF Map
<1>6. PICK w \in Seq(Writes) : w = WroteOf("pong")
  BY WroteIs
<1>7. DOMAIN w = 1..Len(w) /\ \A i \in 1..Len(w) : w[i] \in Writes
  BY LenProperties, ElementOfSeq
<1>8. PongsSent = [i \in DOMAIN w |-> w[i].len]
  BY <1>6 DEF PongsSent
<1>9. PongsSent = Map(WriteLen, w)
  BY <1>7, <1>8, PongMaps DEF Map
<1> QED BY <1>2, <1>5, <1>6, <1>9

\* A message that is no ping is not answered, and a ping is.
LEMMA ReadsPings ==
  ASSUME Types, Reads
  PROVE  Pings[read'] = IF Message.type = "ping" THEN Append(Pings[read], Message) ELSE Pings[read]
<1>1. Message \in Sent({"ping"}, Nat) <=> Message.type = "ping"
  BY ReadsIs, InSent
<1> QED BY <1>1, ReadsKept DEF Pings

LEMMA SamePongs ==
  ASSUME WroteOf("pong")' = WroteOf("pong")
  PROVE  PongsSent' = PongsSent
BY DEF PongsSent

LEMMA ReadsPongs ==
  ASSUME Types, NodeOK, PongsOK, Reads, sent' = sent, up' = up,
         \/ Message.type # "ping" /\ WroteOf("pong")' = WroteOf("pong")
         \/ Message.type = "ping" /\ Written("pong", MakePong(Message.n, PongBuf))
         \/ ~up
  PROVE  PongsOK'
<1> SUFFICES ASSUME up PROVE PongsSent' = PongLens(read')
  <2>1. PongLens(read)' = PongLens(read')
    BY DEF PongLens
  <2> QED BY <2>1 DEF PongsOK
<1>1. PongsSent = PongLens(read)
  BY DEF PongsOK
<1>2. /\ Pings[read] \in Seq(Messages) /\ PongLens(read) = Map(PongLen, Pings[read])
      /\ PongLens(read') = Map(PongLen, Pings[read'])
  BY PongsMap, ReadsIs
<1>3. CASE Message.type # "ping" /\ WroteOf("pong")' = WroteOf("pong")
  BY <1>1, <1>2, <1>3, ReadsPings, SamePongs
<1>4. CASE Message.type = "ping" /\ Written("pong", MakePong(Message.n, PongBuf))
  <2>1. PICK m \in Messages : m = Message
    BY ReadsIs
  <2>2. m.n \in 0..MaxMessage
    BY <1>4, <2>1, ReadsIs, MaxMessageIs DEF NodeOK
  <2>3. PICK len : len = MakePong(m.n, PongBuf)
    OBVIOUS
  <2>4. len = PongLen[m] /\ len \in 1..MaxMessage
    BY <2>2, <2>3, MakePongIs, RpcAssumption, PongMaps, MaxMessageIs
  <2>5. PICK e : e = [type |-> "pong", len |-> len]
    OBVIOUS
  <2>6. e \in Writes /\ e.len = len
    BY <2>4, <2>5 DEF Writes
  <2>7. Written("pong", len)
    BY <1>4, <2>1, <2>3
  <2>8. WroteOf("pong")' = Append(WroteOf("pong"), e)
    BY <2>4, <2>5, <2>7, WroteMore
  <2>9. PICK q : q = Append(WroteOf("pong"), e)
    OBVIOUS
  <2>10. q \in Seq(Writes) /\ WroteOf("pong") \in Seq(Writes)
    BY <2>6, <2>9, WroteIs, AppendProperties
  <2>11. PongsSent' = Map(WriteLen, q)
    <3>1. DOMAIN q = 1..Len(q) /\ \A i \in 1..Len(q) : q[i] \in Writes
      BY <2>10, LenProperties, ElementOfSeq
    <3>2. PongsSent' = [i \in DOMAIN q |-> q[i].len]
      BY <2>8, <2>9 DEF PongsSent
    <3> QED BY <3>1, <3>2, PongMaps DEF Map
  <2>12. Map(WriteLen, q) = Append(Map(WriteLen, WroteOf("pong")), len)
    <3>1. Map(WriteLen, Append(WroteOf("pong"), e)) = Append(Map(WriteLen, WroteOf("pong")), WriteLen[e])
      BY <2>6, <2>10, MapAppend, PongMaps
    <3> QED BY <2>6, <2>9, <3>1, PongMaps
  <2>13. Map(WriteLen, WroteOf("pong")) = Map(PongLen, Pings[read])
    BY <1>1, <1>2, PongsMap, ReadsIs
  <2>14. Map(PongLen, Append(Pings[read], m)) = Append(Map(PongLen, Pings[read]), PongLen[m])
    BY <1>2, MapAppend, PongMaps
  <2>15. Pings[read'] = Append(Pings[read], m)
    BY <1>4, <2>1, ReadsPings
  <2> QED BY <1>2, <2>4, <2>11, <2>12, <2>13, <2>14, <2>15
<1> QED BY <1>3, <1>4

\* A step that reads nothing and answers no ping.
LEMMA QuietKept ==
  ASSUME read' = read, sent' = sent, up' = up, printed' = printed
  PROVE  /\ PrintedOK => PrintedOK'
         /\ NoTerm => NoTerm'
         /\ WroteOf("pong")' = WroteOf("pong") => (PongsOK => PongsOK')
<1>1. PongLens(read)' = PongLens(read) /\ Reply(1)' = Reply(1)
  BY DEF PongLens, Reply
<1>2. PrintedOK => PrintedOK'
  BY <1>1 DEF PrintedOK
<1>3. NoTerm => NoTerm'
  BY DEF NoTerm
<1>4. WroteOf("pong")' = WroteOf("pong") => (PongsOK => PongsOK')
  BY <1>1, SamePongs DEF PongsOK
<1> QED BY <1>2, <1>3, <1>4

LEMMA SameWrites ==
  ASSUME wrote' = wrote
  PROVE  Asked' = Asked /\ \A type : WroteOf(type)' = WroteOf(type)
BY DEF Asked, WroteOf

LEMMA LnRpcKeeps ==
  ASSUME Types, NodeOK, LnRpcOK, client = "lnrpc", LnRpcRuns,
         UNCHANGED <<client, bindingOnly, nodeVars>>
  PROVE  LnRpcOK' /\ Asked' \in Nat /\ Asked' >= Asked
<1>0. /\ sent' = sent /\ up' = up /\ Asked \in Nat /\ Asked <= 1
      /\ PrintedOK /\ PongsOK /\ ok \in BOOLEAN /\ results' = <<>>
      /\ pc \in {"connect", "init", "answer", "ask"} => Asked = 0
      /\ pc \in {"connect", "init"} => read = 0
      /\ pc # "exit" => ok /\ NoTerm
  BY WroteIs DEF nodeVars, bindingOnly, LnRpcOK, Asked, Types, TypeOK
<1>q. ASSUME read' = read, printed' = printed, wrote' = wrote, pc # "exit", ~(pc' = "exit" /\ ok'),
             pc' # "exit" => ok',
             pc' \in {"connect", "init", "answer", "ask"} => Asked = 0,
             pc' \in {"connect", "init"} => read = 0
      PROVE  LnRpcOK' /\ Asked' \in Nat /\ Asked' >= Asked
  <2>1. PrintedOK' /\ NoTerm' /\ PongsOK'
    BY <1>0, <1>q, QuietKept, SameWrites
  <2>2. Asked' = Asked
    BY <1>q, SameWrites
  <2> QED BY <1>0, <1>q, <2>1, <2>2 DEF LnRpcOK
<1>f. ASSUME read' = read, printed' = printed, wrote' = wrote, pc # "exit", Fails
      PROVE  LnRpcOK' /\ Asked' \in Nat /\ Asked' >= Asked
  BY <1>q, <1>f DEF Fails
<1>1. CASE Connect
  BY <1>0, <1>f, <1>q, <1>1 DEF Connect
<1>2. CASE ReadInit
  <2>1. /\ Reads /\ read = 0 /\ pc' = "answer" /\ ok' = ok /\ ok /\ printed' = printed
        /\ wrote' = wrote /\ Asked = 0
    BY <1>0, <1>2 DEF ReadInit
  <2>2. Message.type = "init" /\ Message.type \notin Pieces
    BY <2>1, FirstIs
  <2>3. PrintedOK'
    BY <1>0, <2>1, <2>2, ReadsPrinted
  <2>4. NoTerm'
    BY <1>0, <1>2, <2>1, <2>2, ReadsNoTerm DEF ReadInit
  <2>5. PongsOK'
    BY <1>0, <2>1, <2>2, ReadsPongs, SameWrites
  <2>6. Asked' = Asked
    BY <2>1, SameWrites
  <2> QED BY <1>0, <2>1, <2>3, <2>4, <2>5, <2>6 DEF LnRpcOK
<1>w. ASSUME NEW t \in {"init", "rpc"}, NEW len \in 1..MaxMessage, Written(t, len), Asked = 0,
             read' = read, printed' = printed, ok' = ok, pc # "exit",
             pc' = (IF t = "rpc" THEN "select" ELSE "ask")
      PROVE  LnRpcOK' /\ Asked' \in Nat /\ Asked' >= Asked
  <2>1. Asked' = (IF t = "rpc" THEN Asked + 1 ELSE Asked)
    BY <1>w, AskedMore
  <2>2. WroteOf("pong")' = WroteOf("pong")
    BY <1>w, WroteMore
  <2>3. PrintedOK' /\ NoTerm' /\ PongsOK'
    BY <1>0, <1>w, <2>2, QuietKept
  <2> QED BY <1>0, <1>w, <2>1, <2>3 DEF LnRpcOK
<1>3. CASE WriteInit
  <2>1. PICK len : len = MakeInit(1024) /\ len \in 1..MaxMessage /\ len > 0 /\ len # 0
    BY MakeInitIs, MaxMessageIs
  <2>2. /\ \/ Fails /\ UNCHANGED wrote
           \/ WriteDies
           \/ Written("init", len) /\ pc' = "ask" /\ UNCHANGED ok
        /\ read' = read /\ printed' = printed /\ pc = "answer"
    BY <1>3, <2>1 DEF WriteInit
  <2>3. CASE Fails /\ UNCHANGED wrote
    BY <1>f, <2>2, <2>3
  <2>4. CASE WriteDies
    BY <1>0, <1>q, <2>2, <2>4 DEF WriteDies
  <2>5. CASE Written("init", len) /\ pc' = "ask" /\ UNCHANGED ok
    BY <1>0, <1>w, <2>1, <2>2, <2>5
  <2> QED BY <2>2, <2>3, <2>4, <2>5
<1>4. CASE WriteRpc
  <2>1. PICK strings \in RpcStrings :
          LET len == MakeRpc(strings, RpcBuf)
          IN  \/ Fails /\ UNCHANGED wrote
              \/ WriteDies
              \/ len > 0 /\ Written("rpc", len) /\ pc' = "select" /\ UNCHANGED ok
    BY <1>4 DEF WriteRpc
  <2>2. PICK len : len = MakeRpc(strings, RpcBuf) /\ len \in 0..MaxMessage
    BY NodeAssumption, RpcAssumption, MakeRpcIs
  <2>3. len > 0 => len \in 1..MaxMessage
    BY <2>2, MaxMessageIs
  <2>4. read' = read /\ printed' = printed /\ pc = "ask"
    BY <1>4 DEF WriteRpc
  <2>5. CASE Fails /\ UNCHANGED wrote
    BY <1>f, <2>4, <2>5
  <2>6. CASE WriteDies
    BY <1>0, <1>q, <2>4, <2>6 DEF WriteDies
  <2>7. CASE len > 0 /\ Written("rpc", len) /\ pc' = "select" /\ UNCHANGED ok
    BY <1>0, <1>w, <2>3, <2>4, <2>7
  <2> QED BY <2>1, <2>2, <2>5, <2>6, <2>7
<1>5. CASE SelectReturns
  BY <1>0, <1>q, <1>5 DEF SelectReturns
<1>6. CASE SelectFails
  BY <1>f, <1>6 DEF SelectFails
<1>r. ASSUME Reads, pc = "recv", wrote' = wrote, Message.type # "ping",
             \/ Message.type \in Pieces /\ printed' = Append(printed, <<Message.req, Message.n>>)
             \/ Message.type \notin Pieces /\ printed' = printed
      PROVE  /\ PrintedOK' /\ PongsOK' /\ Asked' = Asked
             /\ Message.type # "term" => NoTerm'
  <2>1. PrintedOK'
    BY <1>0, <1>r, ReadsPrinted
  <2>2. PongsOK'
    BY <1>0, <1>r, ReadsPongs, SameWrites
  <2>3. Asked' = Asked
    BY <1>r, SameWrites
  <2>4. Message.type # "term" => NoTerm'
    BY <1>0, <1>r, ReadsNoTerm
  <2> QED BY <2>1, <2>2, <2>3, <2>4
<1>7. CASE RecvTerm
  <2>1. /\ Reads /\ pc = "recv" /\ wrote' = wrote /\ Message.type = "term" /\ "term" \in Pieces
        /\ printed' = Append(printed, <<Message.req, Message.n>>)
        /\ pc' = "exit" /\ ok' = ok
    BY <1>7 DEF RecvTerm, Pieces
  <2>2. PrintedOK' /\ PongsOK' /\ Asked' = Asked
    BY <1>r, <2>1
  <2>3. read' > 0 /\ sent'[read'].type = "term"
    BY <1>0, <2>1, ReadsIs
  <2> QED BY <1>0, <2>1, <2>2, <2>3 DEF LnRpcOK
<1>8. CASE RecvContinues
  <2>1. /\ Reads /\ pc = "recv" /\ wrote' = wrote /\ Message.type = "continues"
        /\ "continues" \in Pieces
        /\ printed' = Append(printed, <<Message.req, Message.n>>)
        /\ pc' = "select" /\ ok' = ok
    BY <1>8 DEF RecvContinues, Pieces
  <2>2. PrintedOK' /\ PongsOK' /\ Asked' = Asked /\ NoTerm'
    BY <1>r, <2>1
  <2> QED BY <1>0, <2>1, <2>2 DEF LnRpcOK
<1>9. CASE RecvPing
  <2>1. /\ Reads /\ pc = "recv" /\ Message.type = "ping" /\ Message.type \notin Pieces
        /\ printed' = printed
    BY <1>9 DEF RecvPing, Pieces
  <2>2. PICK len : len = MakePong(Message.n, PongBuf) /\ len \in 1..MaxMessage /\ len # 0
    <3>1. Message.n \in 0..MaxMessage
      BY <2>1, ReadsIs, MaxMessageIs DEF NodeOK
    <3> QED BY <3>1, MakePongIs, RpcAssumption, MaxMessageIs
  <2>3. \/ Written("pong", len) /\ pc' = "select" /\ ok' = ok
        \/ ~up /\ wrote' = wrote /\ pc' \in {"select", "killed"} /\ ok' = ok
    BY <1>9, <2>2 DEF RecvPing, WriteDies
  <2>4. PrintedOK'
    BY <1>0, <2>1, ReadsPrinted
  <2>5. NoTerm'
    BY <1>0, <2>1, ReadsNoTerm
  <2>6. PongsOK'
    BY <1>0, <2>1, <2>2, <2>3, ReadsPongs
  <2>7. Asked' = Asked
    BY <2>2, <2>3, AskedMore, SameWrites
  <2>8. pc' \in {"select", "killed"} /\ ok' = ok
    BY <2>3
  <2> QED BY <1>0, <2>1, <2>4, <2>5, <2>6, <2>7, <2>8 DEF LnRpcOK
<1>10. CASE RecvOther
  <2>1. /\ Reads /\ pc = "recv" /\ wrote' = wrote /\ Message.type \notin Pieces
        /\ Message.type # "ping" /\ Message.type # "term"
        /\ printed' = printed /\ pc' = "select" /\ ok' = ok
    BY <1>10 DEF RecvOther, Pieces
  <2>2. PrintedOK' /\ PongsOK' /\ Asked' = Asked /\ NoTerm'
    BY <1>r, <2>1
  <2> QED BY <1>0, <2>1, <2>2 DEF LnRpcOK
<1>11. CASE RecvShort
  <2>1. /\ Reads /\ pc = "recv" /\ wrote' = wrote /\ Message.type \notin Pieces
        /\ Message.type # "ping" /\ Message.type # "term"
        /\ printed' = printed /\ pc' = "exit" /\ ok' = FALSE
    BY <1>11 DEF RecvShort, Fails, Pieces
  <2>2. PrintedOK' /\ PongsOK' /\ Asked' = Asked /\ NoTerm'
    BY <1>r, <2>1
  <2> QED BY <1>0, <2>1, <2>2 DEF LnRpcOK
<1>12. CASE ReadFails
  BY <1>f, <1>12 DEF ReadFails
<1> QED BY <1>1, <1>2, <1>3, <1>4, <1>5, <1>6, <1>7, <1>8, <1>9, <1>10, <1>11, <1>12 DEF LnRpcRuns

\* What the node does next changes nothing that was read.
LEMMA LnRpcNode ==
  ASSUME Types, NodeOK, LnRpcOK, Node, UNCHANGED <<client, pc, read, wrote, lnrpcOnly, bindingOnly>>
  PROVE  LnRpcOK'
<1>0. /\ pc' = pc /\ read' = read /\ wrote' = wrote /\ ok' = ok /\ printed' = printed /\ results' = results
      /\ read \in 0..Len(sent) /\ sent \in Seq(Messages) /\ Len(sent) \in Nat
  BY SentAt DEF lnrpcOnly, bindingOnly, Types, TypeOK
<1>1. /\ \A k \in 1..read : sent'[k] = sent[k]
      /\ Reply(1)'[read] = Reply(1)[read] /\ Pings'[read] = Pings[read]
  <2>1. CASE sent' = sent
    BY <2>1 DEF Reply, Pings
  <2>2. ASSUME NEW m \in Messages, sent' = Append(sent, m)
        PROVE  /\ \A k \in 1..read : sent'[k] = sent[k]
               /\ Reply(1)'[read] = Reply(1)[read] /\ Pings'[read] = Pings[read]
    <3>1. \A k \in 1..read : k \in 1..Len(sent)
      BY <1>0
    <3>2. \A S : Kept(Append(sent, m), S)[read] = Kept(sent, S)[read]
      BY <1>0, KeptAppend
    <3>3. Reply(1)'[read] = Reply(1)[read] /\ Pings'[read] = Pings[read]
      BY <2>2, <3>2 DEF Reply, Pings
    <3> QED BY <2>2, <3>1, <3>3, SentMore
  <2> QED BY <2>1, <2>2, NodeSends
<1>2. up' => up
  BY DEF Node, NodeInit, NodeReply, NodeExtra, ArriveSome, ArriveWhole, Breaks
<1>3. PongLens(read)' = PongLens(read)
  BY <1>0, <1>1 DEF PongLens, Pings
<1>4. PrintedOK'
  BY <1>0, <1>1 DEF PrintedOK, LnRpcOK
<1>5. PongsOK'
  BY <1>0, <1>2, <1>3, SameWrites, SamePongs DEF PongsOK, LnRpcOK
<1>6. NoTerm' <=> NoTerm
  BY <1>0, <1>1 DEF NoTerm
<1>7. read > 0 => sent'[read] = sent[read]
  BY <1>0, <1>1
<1>8. Asked' = Asked
  BY <1>0, SameWrites
<1> QED BY <1>0, <1>4, <1>5, <1>6, <1>7, <1>8 DEF LnRpcOK

LEMMA PrefixIs ==
  ASSUME NEW T, NEW s \in Seq(T), NEW t \in Seq(T), Len(s) <= Len(t),
         \A i \in 1..Len(s) : t[i] = s[i]
  PROVE  IsPrefix(s, t)
<1>1. Len(s) \in Nat /\ Len(t) \in Nat
  OBVIOUS
<1>2. s = SubSeq(t, 1, Len(s)) /\ s = SubSeq(s, 1, Len(s))
  <2> DEFINE u == SubSeq(t, 1, Len(s))
             v == SubSeq(s, 1, Len(s))
  <2>1. u \in Seq(T) /\ Len(u) = Len(s) /\ \A i \in 1..Len(s) : u[i] = t[i]
    BY <1>1
  <2>2. v \in Seq(T) /\ Len(v) = Len(s) /\ \A i \in 1..Len(s) : v[i] = s[i]
    BY <1>1
  <2> HIDE DEF u, v
  <2>3. s = u
    BY <2>1, SeqEqual
  <2>4. s = v
    BY <2>2, SeqEqual
  <2> QED BY <2>3, <2>4 DEF u, v
<1> QED BY <1>2 DEF IsPrefix

\* What was read of a reply begins it.
LEMMA ReplyGrows ==
  ASSUME Types, NEW req, NEW k \in 0..Len(sent)
  PROVE  /\ Reply(req)[k] \in Seq(Messages) /\ ReplyTo(req) \in Seq(Messages)
         /\ IsStart(Reply(req)[k], ReplyTo(req))
<1>1. sent \in Seq(Messages) /\ Len(sent) \in k..Len(sent) /\ Len(sent) \in 0..Len(sent)
  BY SentAt DEF Types
<1>2. ReplyTo(req) = Reply(req)[Len(sent)]
  BY DEF ReplyTo, Reply, Only
<1>3. Reply(req)[k] \in Seq(Messages) /\ Reply(req)[Len(sent)] \in Seq(Messages)
  BY <1>1, KeptIs DEF Reply
<1>4. IsStart(Reply(req)[k], Reply(req)[Len(sent)])
  BY <1>1, KeptGrows DEF Reply
<1> QED BY <1>2, <1>3, <1>4

\* The first k messages hold the whole of a reply once its last part is there.
LEMMA ReplyDone ==
  ASSUME Types, NodeOK, NEW k \in 0..Len(sent)
  PROVE  \A req \in 1..Terms(k) : ReplyTo(req) = Reply(req)[k]
<1> TAKE req \in 1..Terms(k)
<1>1. sent \in Seq(Messages) /\ Len(sent) \in k..Len(sent) /\ Terms(k) \in Nat
  BY SentAt, TermsIs DEF Types
<1>2. ASSUME NEW i \in (k + 1)..Len(sent)
      PROVE  sent[i] \notin Sent(Pieces, {req})
  <2>1. i \in 1..Len(sent) /\ sent[i] \in Messages
    BY SentAt
  <2>2. sent[i].type \in Pieces => sent[i].req >= Terms(k) + 1
    BY PieceAfterTerm
  <2>3. sent[i].type \in Pieces => sent[i].req # req
    BY <1>1, <2>1, <2>2, SentAt
  <2> QED BY <2>1, <2>3, InSent
<1>3. Reply(req)[Len(sent)] = Reply(req)[k]
  BY <1>1, <1>2, KeptSame DEF Reply
<1> QED BY <1>3 DEF ReplyTo, Reply, Only

LEMMA PrintedHolds ==
  ASSUME Types, LnRpcOK
  PROVE  IsPrefix(printed, Numbers(ReplyTo(1)))
<1>1. PICK q \in Seq(Messages) : q = Reply(1)[read]
  BY ReplyGrows DEF Types, TypeOK
<1>2. PICK r \in Seq(Messages) : r = ReplyTo(1)
  BY ReplyGrows DEF Types, TypeOK
<1>3. read \in 0..Len(sent)
  BY SentAt DEF Types, TypeOK
<1>4. Len(q) <= Len(r) /\ \A i \in 1..Len(q) : r[i] = q[i]
  BY <1>1, <1>2, <1>3, ReplyGrows DEF IsStart
<1>5. /\ Numbers(q) \in Seq(Nat \X Nat) /\ Numbers(r) \in Seq(Nat \X Nat)
      /\ Len(Numbers(q)) = Len(q) /\ Len(Numbers(r)) = Len(r)
      /\ \A i \in 1..Len(q) : Numbers(q)[i] = <<q[i].req, q[i].n>>
      /\ \A i \in 1..Len(r) : Numbers(r)[i] = <<r[i].req, r[i].n>>
  BY NumbersIs
<1>6. \A i \in 1..Len(q) : i \in 1..Len(r)
  BY <1>4
<1>7. \A i \in 1..Len(Numbers(q)) : Numbers(r)[i] = Numbers(q)[i]
  BY <1>4, <1>5, <1>6
<1>8. IsPrefix(Numbers(q), Numbers(r))
  BY <1>4, <1>5, <1>7, PrefixIs
<1> QED BY <1>1, <1>2, <1>8 DEF LnRpcOK, PrintedOK

\* The last part of a reply ends it.
LEMMA ReplyEnds ==
  ASSUME Types, NodeOK, NEW k \in 1..Len(sent), sent[k].type = "term"
  PROVE  /\ Terms(k) \in Nat /\ Terms(k) >= 1 /\ sent[k].req = Terms(k) /\ Terms(k) <= Asked
         /\ ReplyTo(Terms(k)) = Reply(Terms(k))[k] /\ Whole(ReplyTo(Terms(k)))
<1>1. sent[k].type \in Pieces
  BY DEF Pieces
<1>2. /\ Terms(k) \in Nat /\ Terms(k) >= 1 /\ sent[k].req = Terms(k) /\ Terms(k) <= Asked
      /\ k - 1 \in 0..Len(sent) /\ k \in 0..Len(sent)
  BY <1>1, SentAt, TermsIs, PieceIs
<1>3. PICK req \in 1..Terms(k) : req = Terms(k)
  BY <1>2
<1>4. ReplyTo(req) = Reply(req)[k]
  BY <1>2, ReplyDone
<1>5. PICK q \in Seq(Messages) : q = Reply(req)[k - 1]
  BY <1>2, ReplyGrows
<1>6. PICK m \in Messages : m = sent[k]
  BY SentAt
<1>7. Reply(req)[k] = Append(q, m)
  <2>1. sent \in Seq(Messages) /\ m \in Sent(Pieces, {req})
    BY <1>1, <1>2, <1>3, <1>6, InSent DEF Types
  <2> QED BY <1>5, <1>6, <2>1, KeptIs DEF Reply
<1>8. PICK r : r = Append(q, m)
  OBVIOUS
<1>9. r \in Seq(Messages) /\ Len(r) = Len(q) + 1 /\ r[Len(q) + 1] = m
  BY <1>8, AppendProperties
<1>10. r # <<>> /\ Last(r) = m
  BY <1>9 DEF Last
<1>11. Whole(r)
  BY <1>6, <1>10 DEF Whole
<1> QED BY <1>2, <1>3, <1>4, <1>7, <1>8, <1>11

LEMMA ExitHolds ==
  ASSUME Types, NodeOK, LnRpcOK, pc = "exit"
  PROVE  ok <=> Whole(ReplyTo(1)) /\ Len(printed) = Len(ReplyTo(1))
<1>0. /\ read \in 0..Len(sent) /\ printed = Numbers(Reply(1)[read])
      /\ Asked <= 1 /\ Asked \in Nat /\ ok \in BOOLEAN
  BY SentAt, WroteIs DEF Types, TypeOK, LnRpcOK, PrintedOK, Asked
<1>1. PICK q \in Seq(Messages) : q = Reply(1)[read]
  BY <1>0, ReplyGrows
<1>2. PICK r \in Seq(Messages) : r = ReplyTo(1)
  BY <1>0, ReplyGrows
<1>3. Len(printed) = Len(q) /\ IsStart(q, r)
  BY <1>0, <1>1, <1>2, NumbersIs, ReplyGrows
<1>4. ASSUME ok PROVE Whole(r) /\ Len(printed) = Len(r)
  <2>1. read \in 1..Len(sent) /\ sent[read].type = "term"
    BY <1>0, <1>4, SentAt DEF LnRpcOK
  <2>2. Terms(read) = 1
    BY <1>0, <2>1, ReplyEnds
  <2>3. r = q /\ Whole(r)
    BY <1>1, <1>2, <2>1, <2>2, ReplyEnds
  <2> QED BY <1>3, <2>3
<1>5. ASSUME ~ok, Whole(r), Len(printed) = Len(r) PROVE FALSE
  <2>1. NoTerm
    BY <1>5 DEF LnRpcOK
  <2>2. Len(q) = Len(r) /\ Len(r) >= 1 /\ Len(r) \in 1..Len(r)
    BY <1>3, <1>5 DEF Whole
  <2>3. q[Len(r)] = r[Len(r)] /\ r[Len(r)].type = "term"
    BY <1>3, <1>5, <2>2 DEF IsStart, Whole, Last
  <2>4. PICK j \in 1..read : q[Len(r)] = sent[j]
    <3>1. sent \in Seq(Messages)
      BY DEF Types
    <3>2. PICK m \in 1..Len(q) : m = Len(r)
      BY <2>2
    <3>3. \E j \in 1..read : q[m] = sent[j]
      BY <1>0, <1>1, <3>1, <3>2, KeptFrom DEF Reply
    <3> QED BY <3>2, <3>3
  <2> QED BY <2>1, <2>3, <2>4 DEF NoTerm
<1> QED BY <1>0, <1>2, <1>4, <1>5

-----------------------------------------------------------------------------
(* The bindings *)

\* No more replies end than were asked for, and none is of a later request.
LEMMA TermsAsked ==
  ASSUME Types, NodeOK
  PROVE  \A k \in 0..Len(sent) : Terms(k) <= Asked
<1> DEFINE N == Len(sent)
           I == {n \in 0..N : Terms(n) <= Asked}
<1>1. N \in Nat /\ Asked \in Nat /\ Terms(0) = 0
  BY SentAt, TermsIs, WroteIs DEF Asked
<1>2. 0 \in I
  BY <1>1
<1>3. ASSUME NEW n \in 0..(N - 1), n \in I PROVE n + 1 \in I
  <2>1. n + 1 \in 1..N /\ n + 1 \in 0..N /\ (n + 1) - 1 = n
    BY <1>1
  <2>2. Terms(n + 1) = IF sent[n + 1].type = "term" THEN Terms(n) + 1 ELSE Terms(n)
    BY <2>1, TermsIs
  <2>3. sent[n + 1].type = "term" => Terms(n) + 1 <= Asked
    <3>1. sent[n + 1].type = "term" => sent[n + 1].type \in Pieces
      BY DEF Pieces
    <3> QED BY <2>1, <3>1, PieceIs
  <2> QED BY <1>3, <2>1, <2>2, <2>3
<1> HIDE DEF I
<1>4. \A n \in 0..N : n \in I
  BY <1>1, <1>2, <1>3, Induct
<1> QED BY <1>4 DEF I

LEMMA ReplyNone ==
  ASSUME Types, NodeOK, NEW k \in 0..Len(sent), NEW req \in Nat, req > Asked
  PROVE  Reply(req)[k] = <<>>
<1>1. sent \in Seq(Messages) /\ 0 \in 0..Len(sent) /\ k \in 0..Len(sent)
      /\ Len(sent) \in Nat /\ Asked \in Nat
  BY SentAt, WroteIs DEF Types, Asked
<1>2. \A i \in (0 + 1)..k : sent[i] \notin Sent(Pieces, {req})
  <2> TAKE i \in (0 + 1)..k
  <2>1. i \in 1..Len(sent) /\ sent[i] \in Messages
    BY <1>1, SentAt
  <2>2. sent[i].type \in Pieces => sent[i].req # req
    BY <1>1, <2>1, PieceIs
  <2> QED BY <2>1, <2>2, InSent
<1>3. Reply(req)[k] = Reply(req)[0]
  BY <1>1, <1>2, KeptSame DEF Reply
<1>4. Reply(req)[0] = <<>>
  BY <1>1, KeptIs DEF Reply
<1> QED BY <1>3, <1>4

\* What the node sends after the end of a reply is no part of it.
LEMMA ToldKept ==
  ASSUME Types, NEW m \in Messages, sent' = Append(sent, m), Sendable(m), NEW req, NEW parts,
         req \in Nat, Told(req, parts)
  PROVE  Told(req, parts)'
<1>1. sent \in Seq(Messages) /\ Len(sent) \in Nat /\ Len(sent) \in 0..Len(sent)
  BY SentAt DEF Types
<1>2. Terms(Len(sent)) \in Nat
  BY <1>1, TermsIs
<1>3. m \notin Sent(Pieces, {req})
  <2>1. m.type \in Pieces => m.req = Terms(Len(sent)) + 1
    BY DEF Sendable, Pieces
  <2>2. m.type \in Pieces => m.req # req
    BY <1>2, <2>1 DEF Told
  <2> QED BY <2>2, InSent
<1>4. ReplyTo(req)' = ReplyTo(req)
  BY <1>1, <1>3, OnlyAppend DEF ReplyTo
<1>5. Terms(Len(sent))' >= Terms(Len(sent))
  <2>1. PICK q \in Seq(Messages) : q = SentOf({"term"})
    BY <1>1, OnlyType DEF SentOf
  <2>2. Len(q) = Terms(Len(sent)) /\ Terms(Len(sent))' = Len(SentOf({"term"})')
    BY <2>1 DEF Terms, SentOf, Only
  <2>3. SentOf({"term"})' = q \/ SentOf({"term"})' = Append(q, m)
    BY <1>1, <2>1, OnlyAppend DEF SentOf
  <2>4. Len(Append(q, m)) = Len(q) + 1
    BY AppendProperties
  <2> QED BY <1>2, <2>2, <2>3, <2>4
<1>6. Terms(Len(sent))' \in Nat
  <2>1. sent' \in Seq(Messages)
    BY SentMore
  <2>2. SentOf({"term"})' \in Seq(Messages)
    BY <2>1, OnlyType DEF SentOf
  <2> QED BY <2>2 DEF Terms, SentOf, Only
<1> QED BY <1>2, <1>4, <1>5, <1>6 DEF Told

LEMMA ResultIs ==
  ASSUME Types, NEW k \in 1..Len(results)
  PROVE  /\ results[k].req \in Nat /\ results[k].ok \in BOOLEAN
         /\ results[k].parts \in Seq(Nat \X Nat)
<1>1. results[k] \in Calls
  BY ElementOfSeq DEF Types
<1> QED BY <1>1 DEF Calls

LEMMA BindingNode ==
  ASSUME Types, NodeOK, BindingOK, Node, UNCHANGED <<client, pc, read, wrote, lnrpcOnly, bindingOnly>>
  PROVE  BindingOK'
<1>0. /\ pc' = pc /\ read' = read /\ wrote' = wrote /\ chunks' = chunks /\ results' = results
      /\ read \in 0..Len(sent) /\ sent \in Seq(Messages) /\ Len(sent) \in Nat
      /\ Len(results) \in Nat
  BY SentAt DEF bindingOnly, Types, TypeOK
<1>1. Asked' = Asked
  BY <1>0, SameWrites
<1>2. /\ Terms(read)' = Terms(read) /\ Reply(Asked)'[read] = Reply(Asked)[read]
      /\ \A k \in 1..Len(results) : Told(results[k].req, results[k].parts)
                                      => Told(results[k].req, results[k].parts)'
  <2>1. CASE sent' = sent
    BY <1>0, <1>1, <2>1 DEF Terms, Reply, Told, ReplyTo
  <2>2. ASSUME NEW m \in Messages, sent' = Append(sent, m), Sendable(m)
        PROVE  /\ Terms(read)' = Terms(read) /\ Reply(Asked)'[read] = Reply(Asked)[read]
               /\ \A k \in 1..Len(results) : Told(results[k].req, results[k].parts)
                                               => Told(results[k].req, results[k].parts)'
    <3>1. \A S : Kept(Append(sent, m), S)[read] = Kept(sent, S)[read]
      BY <1>0, KeptAppend
    <3>2. Terms(read)' = Terms(read) /\ Reply(Asked)'[read] = Reply(Asked)[read]
      BY <1>0, <1>1, <2>2, <3>1 DEF Terms, Reply
    <3>3. ASSUME NEW k \in 1..Len(results), Told(results[k].req, results[k].parts)
          PROVE  Told(results[k].req, results[k].parts)'
      <4>1. PICK req \in Nat : req = results[k].req
        BY ResultIs
      <4>2. PICK parts : parts = results[k].parts
        OBVIOUS
      <4>3. Told(req, parts)'
        BY <2>2, <3>3, <4>1, <4>2, ToldKept
      <4>4. results'[k].req = req /\ results'[k].parts = parts
        BY <1>0, <4>1, <4>2
      <4> QED BY <4>3, <4>4 DEF Told, ReplyTo
    <3> QED BY <3>2, <3>3
  <2> QED BY <2>1, <2>2, NodeSends
<1>3. \A k : CleanBefore(k)' <=> CleanBefore(k)
  BY <1>0 DEF CleanBefore
<1>4. Clean' <=> Clean
  BY <1>0 DEF Clean, CleanBefore
<1>5. ResultsOK'
  BY <1>0, <1>2, <1>3 DEF ResultsOK, BindingOK
<1>6. InStep'
  BY <1>0, <1>1, <1>2, <1>4 DEF InStep, BindingOK
<1> QED BY <1>0, <1>1, <1>5, <1>6 DEF BindingOK

\* A call ends: what is known of the calls before it does not change.
LEMMA NewResult ==
  ASSUME Types, ResultsOK, sent' = sent,
         NEW req \in Nat, NEW done \in BOOLEAN, NEW parts \in Seq(Nat \X Nat),
         Result(req, done, parts), done /\ Clean => Told(req, parts)
  PROVE  ResultsOK' /\ (Clean' <=> Clean /\ (done \/ req = 0))
<1> DEFINE P(k) == \A j \in 1..(k - 1) : results'[j].ok \/ results'[j].req = 0
<1>1. PICK c : c = [req |-> req, ok |-> done, parts |-> parts]
  OBVIOUS
<1>2. c \in Calls /\ c.req = req /\ c.ok = done /\ c.parts = parts
  BY <1>1 DEF Calls
<1>3. results \in Seq(Calls) /\ Len(results) \in Nat /\ results' = Append(results, c)
  BY <1>1 DEF Types, Result
<1>4. /\ Len(results') = Len(results) + 1 /\ results'[Len(results) + 1] = c
      /\ \A k \in 1..Len(results) : results'[k] = results[k]
  BY <1>2, <1>3, AppendProperties
<1>5. \A k \in 1..(Len(results) + 1) : P(k) <=> CleanBefore(k)
  <2> TAKE k \in 1..(Len(results) + 1)
  <2>1. \A j \in 1..(k - 1) : j \in 1..Len(results)
    BY <1>3
  <2> QED BY <1>4, <2>1 DEF CleanBefore
<1>7. ResultsOK'
  <2> HIDE DEF P
  <2>1. ASSUME NEW k \in 1..Len(results'), results'[k].ok, P(k)
        PROVE  Told(results'[k].req, results'[k].parts)
    <3>1. k \in 1..(Len(results) + 1)
      BY <1>4
    <3>2. CASE k \in 1..Len(results)
      <4>1. results'[k] = results[k] /\ CleanBefore(k)
        BY <1>4, <1>5, <2>1, <3>1, <3>2
      <4>2. Told(results[k].req, results[k].parts)
        BY <2>1, <3>2, <4>1 DEF ResultsOK
      <4> QED BY <4>1, <4>2
    <3>3. CASE k = Len(results) + 1
      <4>1. results'[k] = c /\ CleanBefore(k)
        BY <1>4, <1>5, <2>1, <3>1, <3>3
      <4>2. Told(req, parts)
        BY <1>2, <2>1, <3>3, <4>1 DEF Clean
      <4> QED BY <1>2, <4>1, <4>2
    <3> QED BY <1>3, <3>1, <3>2, <3>3
  <2>2. \A k \in 1..Len(results') :
          results'[k].ok /\ P(k) => Told(results'[k].req, results'[k].parts)
    BY <2>1
  <2> QED BY <2>2 DEF ResultsOK, Told, ReplyTo, Terms, CleanBefore, P
<1>8. Clean' <=> Clean /\ (done \/ req = 0)
  <2>1. Clean' <=> \A j \in 1..(Len(results) + 1) : results'[j].ok \/ results'[j].req = 0
    BY <1>3, <1>4 DEF Clean, CleanBefore
  <2>2. Clean <=> \A j \in 1..Len(results) : results[j].ok \/ results[j].req = 0
    BY <1>3 DEF Clean, CleanBefore
  <2>3. \A j \in 1..(Len(results) + 1) : j \in 1..Len(results) \/ j = Len(results) + 1
    BY <1>3
  <2>4. Len(results) + 1 \in 1..(Len(results) + 1) /\ \A j \in 1..Len(results) : j \in 1..(Len(results) + 1)
    BY <1>3
  <2> QED BY <1>2, <1>4, <2>1, <2>2, <2>3, <2>4
<1> QED BY <1>7, <1>8

LEMMA SameResults ==
  ASSUME ResultsOK, sent' = sent, results' = results
  PROVE  ResultsOK' /\ (Clean' <=> Clean)
BY DEF ResultsOK, Told, ReplyTo, Terms, Clean, CleanBefore

LEMMA BindingKeeps ==
  ASSUME Types, NodeOK, BindingOK, client # "lnrpc", BindingRuns,
         UNCHANGED <<client, lnrpcOnly, nodeVars>>
  PROVE  BindingOK' /\ Asked' \in Nat /\ Asked' >= Asked
<1>0. /\ sent' = sent /\ up' = up /\ Asked \in Nat /\ Asked >= 0 /\ read \in 0..Len(sent)
      /\ InStep /\ ResultsOK /\ chunks \in Seq(Nat \X Nat) /\ <<>> \in Seq(Nat \X Nat)
      /\ pc \in {"connect", "greet", "hear"} => Asked = 0
      /\ pc \in {"recv", "wait"} => Asked >= 1
      /\ pc \notin {"recv", "wait"} => chunks = <<>>
      /\ \A k \in 0..Len(sent) : Terms(k) \in Nat /\ Terms(k) <= Asked
  BY WroteIs, SentAt, TermsIs, TermsAsked DEF nodeVars, BindingOK, Asked, Types, TypeOK
<1>p. Waits => pc \in {"recv", "wait"} /\ pc # "idle"
  BY DEF Waits
\* Terms and Reply are of what was sent, which a client does not change.
<1>t. /\ Terms(read)' = Terms(read')
      /\ read' = read => Reply(Asked)'[read'] = Reply(Asked')[read]
  BY <1>0 DEF Terms, Reply
<1>r. ASSUME NEW req \in {0, Asked}, Ends(req, FALSE, <<>>), wrote' = wrote,
             \/ req = Asked /\ Asked >= 1
             \/ req = 0 /\ pc = "idle" /\ read' = read
      PROVE  BindingOK' /\ Asked' \in Nat /\ Asked' >= Asked
  <2>1. /\ Result(req, FALSE, <<>>) /\ pc' = "idle" /\ chunks' = <<>> /\ req \in Nat
        /\ FALSE \in BOOLEAN
    BY <1>0, <1>r DEF Ends, Result
  <2>2. ResultsOK' /\ (Clean' <=> Clean /\ req = 0)
    BY <1>0, <2>1, NewResult
  <2>3. Asked' = Asked
    BY <1>r, SameWrites
  <2>4. InStep'
    <3>1. CASE req = Asked /\ Asked >= 1
      BY <1>0, <2>2, <3>1 DEF InStep
    <3>2. CASE req = 0 /\ pc = "idle" /\ read' = read
      <4>1. Terms(read)' = Terms(read)
        BY <1>0, <3>2 DEF Terms
      <4> QED BY <1>0, <2>1, <2>2, <2>3, <3>2, <4>1 DEF InStep
    <3> QED BY <1>r, <3>1, <3>2
  <2> QED BY <1>0, <2>1, <2>2, <2>3, <2>4 DEF BindingOK
\* Before the first call.
<1>g. ASSUME Asked = 0, chunks' = <<>>, results' = results, pc' \in {"greet", "hear", "idle", "over"},
             wrote' = wrote \/ \E len \in 1..MaxMessage : Written("init", len),
             read' \in 0..Len(sent)
      PROVE  BindingOK' /\ Asked' \in Nat /\ Asked' >= Asked
  <2>1. Asked' = Asked
    BY <1>g, SameWrites, AskedMore
  <2>2. ResultsOK'
    BY <1>0, <1>g, SameResults
  <2>3. Terms(read') = 0
    BY <1>0, <1>g
  <2>4. InStep'
    BY <1>0, <1>g, <1>t, <2>1, <2>3 DEF InStep
  <2> QED BY <1>0, <1>g, <2>1, <2>2, <2>4 DEF BindingOK
<1>h. Reads => read' \in 0..Len(sent)
  BY ReadsIs
<1>1. CASE BindingConnect
  BY <1>0, <1>g, <1>1 DEF BindingConnect
<1>2. CASE GoGreet
  <2>1. 6 \in 1..MaxMessage
    BY MaxMessageIs
  <2> QED BY <1>0, <1>g, <1>2, <2>1 DEF GoGreet
<1>3. CASE GoHear
  BY <1>0, <1>g, <1>h, <1>3 DEF GoHear
<1>4. CASE JsHear
  BY <1>0, <1>g, <1>h, <1>4 DEF JsHear
<1>5. CASE JsGreet
  <2>1. PICK len : len = MakeInit(1024) /\ len \in 1..MaxMessage
    BY MakeInitIs, MaxMessageIs
  <2>2. Written("init", len) \/ wrote' = wrote
    BY <1>5, <2>1 DEF JsGreet
  <2>3. /\ pc = "greet" /\ pc' = "idle" /\ read' = read /\ chunks' = chunks /\ results' = results
    BY <1>5 DEF JsGreet
  <2> QED BY <1>0, <1>g, <2>1, <2>2, <2>3
<1>w. ASSUME NEW len \in 1..MaxMessage, Written("rpc", len), pc = "idle", pc' = "recv",
             read' = read, chunks' = chunks, results' = results
      PROVE  BindingOK' /\ Asked' \in Nat /\ Asked' >= Asked
  <2>1. Asked' = Asked + 1
    BY <1>w, AskedMore
  <2>2. ResultsOK' /\ (Clean' <=> Clean)
    BY <1>0, <1>w, SameResults
  <2>3. Reply(Asked + 1)[read] = <<>>
    <3>1. PICK req \in Nat : req = Asked + 1 /\ req > Asked
      BY <1>0
    <3>2. Reply(req)[read] = <<>>
      BY <1>0, <3>1, ReplyNone
    <3> QED BY <3>1, <3>2
  <2>4. chunks' = Numbers(Reply(Asked')[read])
    BY <1>0, <1>w, <2>1, <2>3, NumbersEmpty
  <2>5. Clean => Terms(read) = Asked
    BY <1>0, <1>w DEF InStep
  <2>6. InStep'
    BY <1>0, <1>t, <1>w, <2>1, <2>2, <2>4, <2>5 DEF InStep
  <2> QED BY <1>0, <1>w, <2>1, <2>2, <2>6 DEF BindingOK
<1>6. CASE GoRpc
  <2>1. PICK strings \in RpcStrings :
           \/ /\ 8 + strings <= GoPayload
              /\ Written("rpc", 10 + strings)
              /\ pc' = "recv" /\ UNCHANGED <<chunks, results>>
           \/ Ends(0, FALSE, <<>>) /\ UNCHANGED wrote
    BY <1>6 DEF GoRpc
  <2>2. 8 + strings <= GoPayload => 10 + strings \in 1..MaxMessage
    BY BindingAssumption, NodeAssumption, MaxMessageIs
  <2>3. read' = read /\ pc = "idle"
    BY <1>6 DEF GoRpc, Begins
  <2>4. CASE 8 + strings <= GoPayload /\ Written("rpc", 10 + strings)
             /\ pc' = "recv" /\ UNCHANGED <<chunks, results>>
    BY <1>w, <2>2, <2>3, <2>4
  <2>5. CASE Ends(0, FALSE, <<>>) /\ UNCHANGED wrote
    BY <1>r, <2>3, <2>5
  <2> QED BY <2>1, <2>4, <2>5
<1>7. CASE JsRpc
  <2>1. PICK strings \in RpcStrings : LET len == MakeRpc(strings, JsBuf) IN
           \/ len > 0 /\ Written("rpc", len) /\ pc' = "recv" /\ UNCHANGED <<chunks, results>>
           \/ Ends(0, FALSE, <<>>) /\ UNCHANGED wrote
    BY <1>7 DEF JsRpc
  <2>2. PICK len : len = MakeRpc(strings, JsBuf) /\ len \in 0..MaxMessage
    BY BindingAssumption, NodeAssumption, MakeRpcIs
  <2>3. len > 0 => len \in 1..MaxMessage
    BY <2>2, MaxMessageIs
  <2>4. read' = read /\ pc = "idle"
    BY <1>7 DEF JsRpc, Begins
  <2>5. CASE len > 0 /\ Written("rpc", len) /\ pc' = "recv" /\ UNCHANGED <<chunks, results>>
    BY <1>w, <2>3, <2>4, <2>5
  <2>6. CASE Ends(0, FALSE, <<>>) /\ UNCHANGED wrote
    BY <1>r, <2>4, <2>6
  <2> QED BY <2>1, <2>2, <2>5, <2>6
<1>e. ASSUME pc \in {"recv", "wait"}, Ends(Asked, FALSE, <<>>), wrote' = wrote
      PROVE  BindingOK' /\ Asked' \in Nat /\ Asked' >= Asked
  BY <1>0, <1>e, <1>r
<1>8. CASE JsRecv
  <2>1. CASE up /\ pc' = "wait" /\ UNCHANGED <<chunks, results>>
    <3>1. read' = read /\ wrote' = wrote /\ pc = "recv"
      BY <1>8 DEF JsRecv
    <3>2. Asked' = Asked
      BY <3>1, SameWrites
    <3>3. ResultsOK' /\ (Clean' <=> Clean)
      BY <1>0, <2>1, SameResults
    <3>4. InStep'
      BY <1>0, <1>t, <2>1, <3>1, <3>2, <3>3 DEF InStep
    <3> QED BY <1>0, <2>1, <3>1, <3>2, <3>3, <3>4 DEF BindingOK
  <2>2. CASE ~up /\ Ends(Asked, FALSE, <<>>)
    BY <1>e, <1>8, <2>2 DEF JsRecv
  <2> QED BY <1>8, <2>1, <2>2 DEF JsRecv
<1>12. CASE GoGetsShort
  BY <1>e, <1>p, <1>12 DEF GoGetsShort
<1>13. CASE ReadEnds
  BY <1>e, <1>p, <1>13 DEF ReadEnds
\* A message is read in a call.
<1>m. ASSUME Waits, Reads, Clean
      PROVE  /\ Terms(read) + 1 = Asked /\ chunks = Numbers(Reply(Asked)[read])
             /\ Message.type \in Pieces =>
                  Append(chunks, Part) = Numbers(Reply(Asked)[read'])
             /\ Message.type \notin Pieces => chunks = Numbers(Reply(Asked)[read'])
             /\ Terms(read') = IF Message.type = "term" THEN Asked ELSE Terms(read)
  <2>1. Terms(read) + 1 = Asked /\ chunks = Numbers(Reply(Asked)[read])
    BY <1>0, <1>m, <1>p DEF InStep
  <2>2. Message.type \in Pieces => Message.req = Asked
    BY <1>m, <2>1, ReadsIs, PieceIs
  <2>3. PICK m \in Messages : m = Message
    BY <1>m, ReadsIs
  <2>4. PICK q \in Seq(Messages) : q = Reply(Asked)[read]
    BY <1>m, ReadsReply
  <2>5. Reply(Asked)[read'] = IF m.type \in Pieces THEN Append(q, m) ELSE q
    BY <1>m, <2>2, <2>3, <2>4, ReadsReply
  <2>6. Numbers(Append(q, m)) = Append(Numbers(q), <<m.req, m.n>>)
    BY NumbersIs
  <2>7. Part = <<m.req, m.n>>
    BY <2>3 DEF Part
  <2>8. Terms(read') = IF Message.type = "term" THEN Asked ELSE Terms(read)
    BY <1>m, <2>1, ReadsTerms
  <2> QED BY <2>1, <2>3, <2>4, <2>5, <2>6, <2>7, <2>8
<1>n. ASSUME Waits, Reads, wrote' = wrote, results' = results, pc' = "recv", Message.type # "term",
             \/ Message.type \in Pieces /\ chunks' = Append(chunks, Part)
             \/ Message.type \notin Pieces /\ chunks' = chunks
      PROVE  BindingOK' /\ Asked' \in Nat /\ Asked' >= Asked
  <2>1. Asked' = Asked
    BY <1>n, SameWrites
  <2>2. ResultsOK' /\ (Clean' <=> Clean)
    BY <1>0, <1>n, SameResults
  <2>3. Clean => Terms(read') + 1 = Asked /\ chunks' = Numbers(Reply(Asked)[read'])
    BY <1>m, <1>n
  <2>4. Reply(Asked)'[read'] = Reply(Asked)[read']
    BY <1>0, <2>1 DEF Reply
  <2>5. InStep'
    BY <1>n, <1>t, <2>1, <2>2, <2>3, <2>4 DEF InStep
  <2> QED BY <1>0, <1>n, <1>p, <2>1, <2>2, <2>5 DEF BindingOK
<1>9. CASE GetsContinues
  <2>1. "continues" \in Pieces
    BY DEF Pieces
  <2> QED BY <1>n, <1>9, <2>1 DEF GetsContinues
<1>11. CASE GetsOther
  <2>1. Message.type \notin Pieces /\ Message.type # "term"
    BY <1>11 DEF GetsOther, Pieces
  <2> QED BY <1>n, <1>11, <2>1 DEF GetsOther
<1>10. CASE GetsTerm
  <2>1. /\ Waits /\ Reads /\ wrote' = wrote /\ Message.type = "term" /\ Message.type \in Pieces
        /\ Result(Asked, TRUE, Append(chunks, Part)) /\ pc' = "idle" /\ chunks' = <<>>
    BY <1>10 DEF GetsTerm, Ends, Result, Pieces
  <2>2. Asked' = Asked
    BY <2>1, SameWrites
  <2>3. Clean => Told(Asked, Append(chunks, Part)) /\ Terms(read') = Asked
    <3> SUFFICES ASSUME Clean PROVE Told(Asked, Append(chunks, Part)) /\ Terms(read') = Asked
      OBVIOUS
    <3>1. Append(chunks, Part) = Numbers(Reply(Asked)[read']) /\ Terms(read') = Asked
      BY <1>m, <2>1
    <3>2. PICK k \in 1..Len(sent) : k = read' /\ sent[k].type = "term"
      BY <2>1, ReadsIs
    <3>3. Asked >= 1 /\ ReplyTo(Asked) = Reply(Asked)[k] /\ Whole(ReplyTo(Asked))
      BY <3>1, <3>2, ReplyEnds
    <3>4. Asked <= Terms(Len(sent))
      <4>1. k \in 0..Len(sent) /\ Len(sent) \in k..Len(sent)
        BY SentAt
      <4> QED BY <3>1, <3>2, <4>1, TermsGrow
    <3> QED BY <3>1, <3>2, <3>3, <3>4 DEF Told
  <2>4. ResultsOK' /\ (Clean' <=> Clean)
    <3>1. Append(chunks, Part) \in Seq(Nat \X Nat)
      BY <1>0, <2>1, ReadsIs, AppendProperties DEF Part
    <3>2. TRUE \in BOOLEAN
      OBVIOUS
    <3> QED BY <1>0, <2>1, <2>3, <3>1, <3>2, NewResult
  <2>5. InStep'
    BY <1>t, <2>1, <2>2, <2>3, <2>4 DEF InStep
  <2> QED BY <1>0, <2>1, <2>2, <2>4, <2>5 DEF BindingOK
<1> QED BY <1>1, <1>2, <1>3, <1>4, <1>5, <1>6, <1>7, <1>8, <1>9, <1>10, <1>11, <1>12, <1>13
        DEF BindingRuns

-----------------------------------------------------------------------------
(* The theorems *)

LEMMA InvInit == Init => Inv
<1> SUFFICES ASSUME Init PROVE Inv
  OBVIOUS
<1>1. /\ client \in Clients /\ pc = "connect" /\ read = 0 /\ wrote = <<>> /\ ok = TRUE
      /\ printed = <<>> /\ chunks = <<>> /\ results = <<>> /\ sent = <<>> /\ arrived = 0
      /\ part = FALSE /\ up = TRUE
  BY DEF Init, LnRpcStarts, BindingStarts, NodeStarts
<1>2. /\ Len(sent) = 0 /\ Len(results) = 0 /\ DOMAIN wrote = {}
      /\ sent \in Seq(Messages) /\ wrote \in Seq(Writes) /\ results \in Seq(Calls)
      /\ chunks \in Seq(Nat \X Nat) /\ printed \in Seq(Nat \X Nat)
  BY <1>1
<1>3. Types
  <2>1. client = "lnrpc" \/ client # "lnrpc"
    OBVIOUS
  <2>2. /\ ok \in BOOLEAN /\ part \in BOOLEAN /\ up \in BOOLEAN
        /\ read \in 0..arrived /\ arrived \in 0..Len(sent) /\ Len(results) <= MaxCalls
        /\ \A i \in DOMAIN wrote : wrote[i].len \in 1..MaxMessage
    <3>1. ok \in BOOLEAN /\ part \in BOOLEAN /\ up \in BOOLEAN
      BY <1>1
    <3>2. Len(sent) = 0 /\ arrived = 0 /\ read = 0
      BY <1>1, <1>2
    <3>3. read \in 0..arrived /\ arrived \in 0..Len(sent)
      BY <3>2
    <3>4. Len(results) <= MaxCalls
      BY <1>2, BindingAssumption
    <3> QED BY <1>2, <3>1, <3>3, <3>4
  <2>3. TypeOK
    BY <1>1, <1>2, <2>1, <2>2 DEF TypeOK
  <2> QED BY <1>1, <1>2, <2>3 DEF Types
<1>4. NodeOK
  BY <1>1, <1>2 DEF NodeOK
<1>5. \A type : WroteOf(type) = <<>>
  BY <1>1, OnlyEmpty DEF WroteOf
<1>6. Asked = 0
  BY <1>5 DEF Asked
<1>a. ASSUME NEW S PROVE Kept(sent, S)[read] = <<>>
  <2>0. sent \in Seq(Messages)
    BY <1>2
  <2>1. Kept(sent, S)[0] = <<>>
    BY <2>0, KeptIs
  <2>2. read = 0
    BY <1>1
  <2> QED BY <2>1, <2>2
<1>7. /\ \A req : Reply(req)[read] = <<>>
      /\ Pings[read] = <<>>
  BY <1>a DEF Reply, Pings
<1>8. PrintedOK /\ NoTerm
  BY <1>1, <1>7, NumbersEmpty DEF PrintedOK, NoTerm
<1>9. PongsOK
  <2>1. PICK w : w = WroteOf("pong") /\ w = <<>>
    BY <1>5
  <2>2. DOMAIN w = {}
    BY <2>1
  <2>3. PongsSent = [i \in {} |-> w[i].len]
    BY <2>1, <2>2 DEF PongsSent
  <2>4. PICK q : q = Pings[read] /\ q = <<>>
    BY <1>7
  <2>5. DOMAIN q = {}
    BY <2>4
  <2>6. PongLens(read) = [i \in {} |-> IF q[i].n < 4 THEN 4 ELSE q[i].n]
    BY <2>4, <2>5 DEF PongLens, Pings
  <2>7. PongsSent = PongLens(read)
    BY <2>3, <2>6
  <2> QED BY <2>7 DEF PongsOK
<1>10. LnRpcOK
  BY <1>1, <1>6, <1>8, <1>9 DEF LnRpcOK
<1>11. BindingOK
  BY <1>1, <1>2, <1>6 DEF BindingOK, InStep, ResultsOK
<1> QED BY <1>3, <1>4, <1>10, <1>11 DEF Inv

LEMMA NodeTypes ==
  ASSUME Types, Node, UNCHANGED <<client, pc, read, wrote, lnrpcOnly, bindingOnly>>
  PROVE  Types'
<1>0. /\ client' = client /\ pc' = pc /\ read' = read /\ wrote' = wrote /\ ok' = ok
      /\ printed' = printed /\ chunks' = chunks /\ results' = results
      /\ read \in 0..arrived /\ arrived \in 0..Len(sent) /\ Len(sent) \in Nat
      /\ sent \in Seq(Messages) /\ part \in BOOLEAN /\ up \in BOOLEAN
  BY SentAt DEF lnrpcOnly, bindingOnly, Types, TypeOK
<1>1. sent' \in Seq(Messages) /\ Len(sent') \in Nat /\ Len(sent') >= Len(sent)
  <2>1. ASSUME NEW m \in Messages, sent' = Append(sent, m)
        PROVE  sent' \in Seq(Messages) /\ Len(sent') \in Nat /\ Len(sent') >= Len(sent)
    BY <1>0, <2>1, SentMore
  <2> QED BY <1>0, <2>1, NodeSends
<1>2. /\ part' \in BOOLEAN /\ up' \in BOOLEAN
      /\ arrived' = arrived \/ (sent' = sent /\ arrived < Len(sent) /\ arrived' = arrived + 1)
  BY <1>0 DEF Node, NodeInit, NodeReply, NodeExtra, ArriveSome, ArriveWhole, Breaks
<1>3. read' \in 0..arrived' /\ arrived' \in 0..Len(sent')
  BY <1>0, <1>1, <1>2
<1> QED BY <1>0, <1>1, <1>2, <1>3 DEF Types, TypeOK

LEMMA InvSame ==
  ASSUME Inv, UNCHANGED vars
  PROVE  Inv'
<1>0. /\ client' = client /\ pc' = pc /\ read' = read /\ wrote' = wrote /\ ok' = ok
      /\ printed' = printed /\ chunks' = chunks /\ results' = results
      /\ sent' = sent /\ arrived' = arrived /\ part' = part /\ up' = up
  BY DEF vars, lnrpcOnly, bindingOnly, nodeVars
<1>1. Types' /\ NodeOK'
  <2>1. Types /\ NodeOK
    BY DEF Inv
  <2>2. Types'
    BY <1>0, <2>1 DEF Types, TypeOK
  <2>3. Asked' = Asked /\ Asked \in Nat
    BY <1>0, <2>1, SameWrites, WroteIs DEF Asked
  <2>4. Asked' \in Nat /\ Asked' >= Asked
    BY <2>3
  <2> QED BY <1>0, <2>1, <2>2, <2>4, NodeOKKept
<1>2. ASSUME LnRpcOK PROVE LnRpcOK'
  <2>1. PrintedOK' /\ (NoTerm => NoTerm') /\ PongsOK'
    BY <1>0, <1>2, QuietKept, SameWrites DEF LnRpcOK
  <2>2. Asked' = Asked /\ (NoTerm' <=> NoTerm)
    BY <1>0, SameWrites DEF NoTerm
  <2> QED BY <1>0, <1>2, <2>1, <2>2 DEF LnRpcOK
<1>3. ASSUME BindingOK PROVE BindingOK'
  <2>1. ResultsOK' /\ (Clean' <=> Clean)
    BY <1>0, <1>3, SameResults DEF BindingOK
  <2>2. Asked' = Asked /\ Terms(read)' = Terms(read) /\ Reply(Asked)'[read] = Reply(Asked)[read]
    BY <1>0, SameWrites DEF Terms, Reply
  <2>3. InStep'
    BY <1>0, <1>3, <2>1, <2>2 DEF InStep, BindingOK
  <2> QED BY <1>0, <1>3, <2>1, <2>2, <2>3 DEF BindingOK
<1> QED BY <1>0, <1>1, <1>2, <1>3 DEF Inv

LEMMA InvNext == Inv /\ [Next]_vars => Inv'
<1> SUFFICES ASSUME Inv, [Next]_vars PROVE Inv'
  OBVIOUS
<1>0. Types /\ NodeOK
  BY DEF Inv
<1>1. CASE client = "lnrpc" /\ LnRpcRuns /\ UNCHANGED <<client, bindingOnly, nodeVars>>
  <2>1. LnRpcOK
    BY <1>1 DEF Inv
  <2>2. LnRpcOK' /\ Asked' \in Nat /\ Asked' >= Asked
    BY <1>0, <1>1, <2>1, LnRpcKeeps
  <2>3. Types'
    BY <1>0, <1>1, LnRpcSteps, LnRpcTypes
  <2>4. NodeOK'
    BY <1>0, <1>1, <2>2, NodeOKKept DEF nodeVars
  <2> QED BY <1>1, <2>2, <2>3, <2>4 DEF Inv
<1>2. CASE client # "lnrpc" /\ BindingRuns /\ UNCHANGED <<client, lnrpcOnly, nodeVars>>
  <2>1. BindingOK
    BY <1>2 DEF Inv
  <2>2. BindingOK' /\ Asked' \in Nat /\ Asked' >= Asked
    BY <1>0, <1>2, <2>1, BindingKeeps
  <2>3. Types'
    BY <1>0, <1>2, BindingSteps, BindingTypes
  <2>4. NodeOK'
    BY <1>0, <1>2, <2>2, NodeOKKept DEF nodeVars
  <2> QED BY <1>2, <2>2, <2>3, <2>4 DEF Inv
<1>3. CASE Node /\ UNCHANGED <<client, pc, read, wrote, lnrpcOnly, bindingOnly>>
  <2>1. NodeOK' /\ Types'
    <3>1. CASE sent' = sent
      <4>1. NodeOK'
        BY <1>0, <1>3, <3>1, NodeOKKept, SameWrites, WroteIs DEF Asked
      <4> QED BY <4>1, <1>0, <1>3, <3>1, NodeTypes
    <3>2. ASSUME NEW m \in Messages, sent' = Append(sent, m), Sendable(m)
          PROVE  NodeOK' /\ Types'
      BY <1>0, <1>3, <3>2, NodeOKSends, NodeTypes
    <3> QED BY <1>0, <1>3, <3>1, <3>2, NodeSends
  <2>2. client = "lnrpc" => LnRpcOK'
    BY <1>0, <1>3, LnRpcNode DEF Inv
  <2>3. client # "lnrpc" => BindingOK'
    BY <1>0, <1>3, BindingNode DEF Inv
  <2> QED BY <1>3, <2>1, <2>2, <2>3 DEF Inv
<1>4. CASE UNCHANGED vars
  BY <1>0, <1>4, InvSame
<1>5. CASE Over
  <2>1. UNCHANGED vars
    BY <1>5 DEF Over, vars, LnRpcOver, BindingOver, bindingVars, lnrpcOnly, bindingOnly, nodeVars
  <2> QED BY <1>4, <2>1
<1> QED BY <1>1, <1>2, <1>3, <1>4, <1>5 DEF Next, Client

LEMMA InvHolds == Spec => []Inv
<1>1. Spec => Init /\ [][Next]_vars
  BY DEF Spec
<1> QED BY <1>1, InvInit, InvNext, PTL

\* The types, and that no client reads past what has arrived: for any requests,
\* asks of the node, buffers and bounds.
THEOREM RpcTypes == Spec => []TypeOK
<1>1. Inv => TypeOK
  BY DEF Inv, Types
<1> QED BY <1>1, InvHolds, PTL

\* What lnrpc prints is a prefix of the node's reply to its request, whatever
\* pings and other messages come between the parts.
THEOREM LnRpcPrintsReply == Spec => []PrintedIsReply
<1>1. Inv => PrintedIsReply
  BY PrintedHolds DEF Inv, PrintedIsReply
<1> QED BY <1>1, InvHolds, PTL

\* lnrpc exits with success exactly when it printed the whole reply.
THEOREM LnRpcExitTells == Spec => []ExitTellsTruth
<1>1. Inv => ExitTellsTruth
  BY ExitHolds DEF Inv, ExitTellsTruth
<1> QED BY <1>1, InvHolds, PTL

\* lnrpc answers every ping it reads in its loop, in order and as long as the
\* ping asked for.
THEOREM LnRpcPongs == Spec => []PongsAnswer
<1>1. Inv => PongsAnswer
  BY DEF Inv, LnRpcOK, PongsOK, PongsSent, PongsAnswer
<1> QED BY <1>1, InvHolds, PTL

\* A call of a binding that returns a reply returns the whole reply to its own
\* request, unless an earlier call failed with its request written.
THEOREM BindingRepliesMatch == Spec => []RepliesMatch
<1>1. ASSUME Inv PROVE RepliesMatch
  <2>1. CASE client = "lnrpc"
    BY <1>1, <2>1 DEF Inv, LnRpcOK, RepliesMatch
  <2>2. CASE client # "lnrpc"
    <3>1. ResultsOK /\ DOMAIN results = 1..Len(results)
      BY <1>1, <2>2, LenProperties DEF Inv, BindingOK, Types
    <3> QED BY <3>1 DEF ResultsOK, Told, RepliesMatch, CleanBefore
  <2> QED BY <2>1, <2>2
<1> QED BY <1>1, InvHolds, PTL
=============================================================================
