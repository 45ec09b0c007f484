---------------------------- MODULE ConnectProofs ----------------------------
(***************************************************************************)
(* Theorems about Connect, for any number of connections and of messages,  *)
(* and any rotation period.                                                *)
(***************************************************************************)
EXTENDS Connect, CryptoProofs, FiniteSetTheorems

-----------------------------------------------------------------------------
(* Sockets and the proxy *)

\* A call under way has a socket that was made; the sending half is one.
SocketOK ==
  /\ TypeOK
  /\ pc # "idle" => net[sock] # "unused"
  /\ DOMAIN tx = {"n", "k", "ck"} /\ tx.k.gen \in Nat

\* The bytes of a greeting that one read() was too short for are still there
\* when the answer is read; at no other time are there any.
LeftOver == {<<>>, <<0>>, <<SocksError>>}
ProxyBytes ==
  /\ pc \in {"select", "greet", "act1", "act2"} => torIn = <<>>
  /\ pc = "reply" => torIn \in LeftOver

LEMMA NextConnUnused ==
  ASSUME Unused # {}
  PROVE  NextConn \in Conn /\ net[NextConn] = "unused"
<1>1. Unused \in SUBSET Nat
  BY ConnectAssumption DEF Unused, Conn
<1>2. \E c \in Unused : \A d \in Unused : c <= d
  BY <1>1, LeastExists
<1>3. NextConn \in Unused
  BY <1>2 DEF NextConn
<1> QED BY <1>3 DEF Unused

LEMMA FourAndMore ==
  ASSUME NEW S, NEW a \in Seq(S), NEW b \in Seq(S), Len(a) = 4
  PROVE  /\ a \o b \in Seq(S) /\ Len(a \o b) = 4 + Len(b)
         /\ (a \o b)[1] = a[1] /\ (a \o b)[4] = a[4]
<1>1. \A i \in 1..(Len(a) + Len(b)) : (a \o b)[i] = IF i <= Len(a) THEN a[i] ELSE b[i - Len(a)]
  BY ConcatProperties
<1>2. Len(b) \in Nat
  OBVIOUS
<1>3. 1 \in 1..(Len(a) + Len(b)) /\ 4 \in 1..(Len(a) + Len(b)) /\ 1 <= Len(a) /\ 4 <= Len(a)
  BY <1>2
<1>4. (a \o b)[1] = a[1] /\ (a \o b)[4] = a[4]
  BY <1>1, <1>3
<1>5. a \o b \in Seq(S) /\ Len(a \o b) = Len(a) + Len(b)
  BY ConcatProperties
<1> QED BY <1>4, <1>5

\* The ten bytes of an answer to a request for an IPv4 address.
LEMMA ReplyRead ==
  ASSUME NEW status, NEW typ, NEW before \in LeftOver,
         (before \o Reply(status, typ))[2] = 0, (before \o Reply(status, typ))[4] = 1
  PROVE  SubSeq(before \o Reply(status, typ), 11, Len(before \o Reply(status, typ))) = <<>>
<1> DEFINE rest == IF typ = 4 THEN 18 ELSE 6
<1>1. PICK reply : reply = Reply(status, typ)
  OBVIOUS
<1>2. reply \in Seq({5, status, 0, typ, 1}) /\ Len(reply) = 4 + rest /\ reply[1] = 5 /\ reply[4] = typ
  <2>1. PICK tail : tail = [i \in 1..rest |-> 1]
    OBVIOUS
  <2>2. PICK head : head = <<5, status, 0, typ>>
    OBVIOUS
  <2>3. reply = head \o tail
    BY <1>1, <2>1, <2>2 DEF Reply
  <2>4. tail \in Seq({5, status, 0, typ, 1}) /\ Len(tail) = rest
    BY <2>1
  <2>5. /\ head \in Seq({5, status, 0, typ, 1}) /\ Len(head) = 4
        /\ head[1] = 5 /\ head[4] = typ
    <3>1. head \in Seq({5, status, 0, typ})
      BY <2>2
    <3>2. {5, status, 0, typ} \subseteq {5, status, 0, typ, 1}
      OBVIOUS
    <3>3. Len(head) = 4 /\ head[1] = 5 /\ head[4] = typ
      BY <2>2
    <3>4. \A i \in 1..4 : head[i] \in {5, status, 0, typ, 1}
      BY <2>2
    <3> QED BY <3>1, <3>3, <3>4
  <2>6. rest \in Nat
    OBVIOUS
  <2> HIDE DEF rest
  <2>7. PICK S : S = {5, status, 0, typ, 1}
    OBVIOUS
  <2>8. head \in Seq(S) /\ tail \in Seq(S)
    BY <2>4, <2>5, <2>7
  <2>9. /\ reply \in Seq(S) /\ Len(reply) = 4 + Len(tail)
        /\ reply[1] = head[1] /\ reply[4] = head[4]
    <3>1. Len(head) = 4
      BY <2>5
    <3> QED BY <2>3, <2>8, <3>1, FourAndMore
  <2> QED BY <2>4, <2>5, <2>7, <2>9
<1>3. (before \o reply)[2] = 0 /\ (before \o reply)[4] = 1
  BY <1>1
<1>4. CASE before = <<>>
  <2>1. before \o reply = reply
    BY <1>2, <1>4
  <2>2. typ = 1
    BY <1>2, <1>3, <2>1
  <2>3. Len(reply) = 10
    BY <1>2, <2>2
  <2>4. SubSeq(reply, 11, 10) = <<>>
    BY <1>2, SubSeqEmpty
  <2> QED BY <1>1, <2>1, <2>3, <2>4
<1>5. CASE before # <<>>
  <2>1. PICK b : before = <<b>>
    BY <1>5 DEF LeftOver
  <2>2. (before \o reply)[2] = reply[1]
    BY <1>2, <2>1
  <2> QED BY <1>2, <1>3, <2>2
<1> QED BY <1>4, <1>5

LEMMA AnswerBytes ==
  ASSUME NEW status \in {0, 5}, NEW typ \in {1, 4}, NEW before \in Seq(0..255)
  PROVE  SubSeq(before \o Reply(status, typ), 11, Len(before \o Reply(status, typ)))
           \in Seq(0..255)
<1>1. PICK n \in Nat : Reply(status, typ) = <<5, status, 0, typ>> \o [i \in 1..n |-> 1]
  BY DEF Reply
<1>2. <<5, status, 0, typ>> \in Seq(0..255) /\ [i \in 1..n |-> 1] \in Seq(0..255)
  <2>1. 5 \in 0..255 /\ status \in 0..255 /\ 0 \in 0..255 /\ typ \in 0..255 /\ 1 \in 0..255
    OBVIOUS
  <2>2. [i \in 1..n |-> 1] \in Seq(0..255)
    BY <2>1
  <2> QED BY <2>1, <2>2
<1>3. PICK all : all = before \o Reply(status, typ)
  OBVIOUS
<1>4. all \in Seq(0..255) /\ Len(all) \in Nat
  BY <1>1, <1>2, <1>3
<1>5. PICK S : S = 0..255
  OBVIOUS
<1>6. all \in Seq(S)
  BY <1>4, <1>5
<1>7. Len(all) \in Int /\ \A i \in 11..Len(all) : all[i] \in S
  BY <1>6
<1>8. SubSeq(all, 11, Len(all)) \in Seq(S)
  BY <1>7, SubSeqProperties
<1> QED BY <1>3, <1>5, <1>8

LEMMA SocketInit == Init => SocketOK /\ ProxyBytes
<1> SUFFICES ASSUME Init PROVE SocketOK /\ ProxyBytes
  OBVIOUS
<1>1. torIn = <<>> /\ torIn \in Seq(0..255)
  BY DEF Init
<1>2. /\ tx.n = 0 /\ rx.n = 0
      /\ DOMAIN tx = {"n", "k", "ck"} /\ tx.k.gen \in Nat
  BY DEF Init, ZeroHalf, Root
<1>3. net \in [Conn -> {"unused", "syn", "up", "dead"}]
  BY DEF Init
<1>4. /\ key = FALSE /\ tor = FALSE /\ sock = NoSocket /\ pc = "idle"
      /\ ret = "none" /\ why = "none"
  BY DEF Init
<1>5. tx.n \in Nat /\ rx.n \in Nat
  BY <1>2
<1>6. TypeOK
  BY <1>1, <1>3, <1>4, <1>5, Zenon DEF TypeOK
<1>7. pc = "idle"
  BY DEF Init
<1> QED BY <1>1, <1>2, <1>6, <1>7 DEF SocketOK, ProxyBytes

\* The half after a message was sealed: the key with its nonce two higher, or
\* a key of its own, derived from it.
LEMMA SealKeeps ==
  ASSUME NEW h, DOMAIN h = {"n", "k", "ck"}, h.n \in Nat, h.k.gen \in Nat
  PROVE  LET h1 == AfterEncryptMsg(h)
         IN  /\ DOMAIN h1 = {"n", "k", "ck"} /\ h1.n \in Nat /\ h1.k.gen \in Nat
             /\ \/ h1.k = h.k /\ h1.n = h.n + 2
                \/ h1.k = [gen |-> h.k.gen + 1, half |-> 2, from |-> <<h.ck, h.k>>]
<1> DEFINE h2 == [h EXCEPT !.n = @ + 2]
<1>1. DOMAIN h2 = {"n", "k", "ck"} /\ h2.n = h.n + 2 /\ h2.k = h.k /\ h2.ck = h.ck
  OBVIOUS
<1> HIDE DEF h2
<1>2. AfterEncryptMsg(h) = MaybeRotateKey(h2)
  BY DEF AfterEncryptMsg, h2
<1> QED BY <1>1, <1>2 DEF MaybeRotateKey, HkdfTwoKeys

\* What a step of a call leaves of TypeOK, when the sockets stay as they are.
LEMMA CallKeeps ==
  ASSUME SocketOK, UNCHANGED <<key, sock, tx, rx, tor, net>>, torIn' \in Seq(0..255),
         pc' \in {"idle", "select", "greet", "reply", "act1", "act2"},
         ret' \in {"none", "ok", "fail"}, pc # "idle"
  PROVE  SocketOK'
BY DEF SocketOK, TypeOK

LEMMA SocketStep == SocketOK /\ ProxyBytes /\ [Next]_vars => SocketOK' /\ ProxyBytes'
<1> SUFFICES ASSUME SocketOK, ProxyBytes, [Next]_vars PROVE SocketOK' /\ ProxyBytes'
  OBVIOUS
<1> USE DEF lnVars, netVars, Returns, Fails
<1>t. /\ torIn \in Seq(0..255) /\ ret \in {"none", "ok", "fail"}
      /\ <<>> \in Seq(0..255)
  BY DEF SocketOK, TypeOK
<1>1. CASE SetKey
  BY <1>1 DEF SetKey, SocketOK, TypeOK, ProxyBytes
<1>2. CASE ConnectRefused \/ ConnectNoSocket
  BY <1>2 DEF ConnectRefused, ConnectNoSocket, SocketOK, TypeOK, ProxyBytes
<1>3. CASE ConnectNoHost
  BY <1>3, NextConnUnused DEF ConnectNoHost, SocketOK, TypeOK, ProxyBytes
<1>4. ASSUME NEW proxy \in BOOLEAN, ConnectCall(proxy) PROVE SocketOK' /\ ProxyBytes'
  <2>1. NextConn \in Conn
    BY <1>4, NextConnUnused DEF ConnectCall
  <2>2. PICK now \in BOOLEAN :
          /\ net' = [net EXCEPT ![NextConn] = IF now THEN "up" ELSE "syn"]
          /\ \/ proxy /\ now /\ Fails("Failed to connect")
             \/ ~(proxy /\ now) /\ pc' = "select" /\ UNCHANGED <<ret, why>>
    BY <1>4 DEF ConnectCall
  <2>3. /\ sock' = NextConn /\ tor' = proxy /\ torIn' = <<>>
        /\ UNCHANGED <<key, tx, rx>>
    BY <1>4 DEF ConnectCall
  <2> HIDE DEF Returns
  <2>4. pc' \in {"idle", "select"} /\ ret' \in {"none", "ok", "fail"}
    BY <2>2, <1>t DEF Returns
  <2>5. net' \in [Conn -> {"unused", "syn", "up", "dead"}] /\ net'[NextConn] # "unused"
    BY <2>1, <2>2 DEF SocketOK, TypeOK
  <2> QED BY <1>t, <2>1, <2>3, <2>4, <2>5 DEF SocketOK, TypeOK, ProxyBytes
<1>5. CASE SelectReturns \/ SelectFails
  BY <1>5, <1>t, CallKeeps DEF SelectReturns, SelectFails, ProxyBytes
<1>6. CASE TorGreet
  <2>1. torIn = <<>>
    BY <1>6 DEF TorGreet, ProxyBytes
  <2>2. /\ UNCHANGED <<key, sock, tx, rx, tor, net>> /\ pc' \in {"idle", "reply"}
        /\ torIn' \in LeftOver /\ ret' \in {"none", "ok", "fail"}
    <3>1. UNCHANGED <<key, sock, tx, rx, tor, net>>
      BY <1>6 DEF TorGreet
    <3>2. \/ pc' = "idle" /\ ret' = "fail"
          \/ pc' = "reply" /\ ret' = ret
      BY <1>6 DEF TorGreet
    <3>3. \/ torIn' = torIn
          \/ \E method \in {0, SocksError}, done \in {-1, 1, 2} :
               torIn' = IF done = 2 THEN <<>> ELSE IF done = 1 THEN <<method>> ELSE torIn
      BY <1>6 DEF TorGreet
    <3> QED BY <1>t, <2>1, <3>1, <3>2, <3>3 DEF LeftOver
  <2>3. torIn' \in Seq(0..255)
    <3>1. \A b \in 0..255 : <<b>> \in Seq(0..255)
      OBVIOUS
    <3>2. 0 \in 0..255 /\ SocksError \in 0..255
      BY DEF SocksError
    <3>3. <<0>> \in Seq(0..255) /\ <<SocksError>> \in Seq(0..255) /\ <<>> \in Seq(0..255)
      BY <3>1, <3>2
    <3>4. torIn' \in LeftOver
      BY <2>2
    <3> QED BY <3>3, <3>4 DEF LeftOver
  <2> QED BY <1>6, <2>2, <2>3, CallKeeps DEF TorGreet, ProxyBytes
<1>7. CASE TorReply
  <2>1. torIn \in LeftOver /\ UNCHANGED <<key, sock, tx, rx, tor, net>>
    BY <1>7 DEF TorReply, ProxyBytes
  <2>2. CASE UNCHANGED torIn /\ pc' = "idle" /\ ret' = "fail"
    BY <1>7, <1>t, <2>1, <2>2, CallKeeps DEF TorReply, ProxyBytes
  <2>3. ASSUME NEW status \in {0, 5}, NEW typ \in {1, 4},
               torIn' = SubSeq(torIn \o Reply(status, typ), 11, Len(torIn \o Reply(status, typ))),
               \/ pc' = "idle" /\ ret' = "fail"
               \/ /\ (torIn \o Reply(status, typ))[2] = 0
                  /\ (torIn \o Reply(status, typ))[4] = 1
                  /\ pc' = "act1" /\ ret' = ret
        PROVE  SocketOK' /\ ProxyBytes'
    <3>1. torIn' \in Seq(0..255)
      BY <1>t, <2>3, AnswerBytes
    <3>2. ASSUME pc' = "act1" PROVE torIn' = <<>>
      <4>1. (torIn \o Reply(status, typ))[2] = 0 /\ (torIn \o Reply(status, typ))[4] = 1
        BY <2>3, <3>2
      <4>2. torIn \in LeftOver
        BY <2>1
      <4>3. PICK before : before = torIn
        OBVIOUS
      <4>4. /\ before \in LeftOver
            /\ (before \o Reply(status, typ))[2] = 0 /\ (before \o Reply(status, typ))[4] = 1
        BY <4>1, <4>2, <4>3
      <4>5. SubSeq(before \o Reply(status, typ), 11, Len(before \o Reply(status, typ))) = <<>>
        BY <4>4, ReplyRead, Zenon
      <4> QED BY <2>3, <4>3, <4>5
    <3>3. SocketOK'
      BY <1>7, <1>t, <2>1, <2>3, <3>1, CallKeeps DEF TorReply
    <3> QED BY <2>3, <3>2, <3>3 DEF ProxyBytes
  <2> QED BY <1>7, <2>2, <2>3 DEF TorReply
<1>8. CASE SendActOne
  BY <1>8, <1>t, CallKeeps DEF SendActOne, ProxyBytes
<1>9. CASE ActTwoReadFails \/ ActTwoRefused
  BY <1>9, <1>t, CallKeeps DEF ActTwoReadFails, ActTwoRefused, ProxyBytes
<1>10. CASE ActTwoThree
  <2>1. UNCHANGED <<key, sock, tor, torIn, net>> /\ pc' = "idle" /\ ret' \in {"ok", "fail"}
    BY <1>10 DEF ActTwoThree
  <2>2. /\ tx'.n \in Nat /\ rx'.n \in Nat
        /\ DOMAIN tx' = {"n", "k", "ck"} /\ tx'.k.gen \in Nat
    <3>1. tx' = SuccessSend(hs') /\ rx' = SuccessRecv(hs')
      BY <1>10, Zenon DEF ActTwoThree
    <3> QED BY <3>1 DEF SuccessSend, SuccessRecv, HkdfTwoKeys, Zero, Root
  <2> QED BY <2>1, <2>2 DEF SocketOK, TypeOK, ProxyBytes
<1>11. CASE Write
  <2>1. tx'.n \in Nat /\ DOMAIN tx' = {"n", "k", "ck"} /\ tx'.k.gen \in Nat
    <3>1. tx' = AfterEncryptMsg(tx)
      BY <1>11 DEF Write
    <3> QED BY <3>1, SealKeeps DEF SocketOK, TypeOK
  <2>2. UNCHANGED <<key, sock, rx, pc, tor, torIn, ret, net>>
    BY <1>11 DEF Write
  <2> QED BY <2>1, <2>2 DEF SocketOK, TypeOK, ProxyBytes
<1>12. ASSUME NEW c \in Conn, NetSettles(c) \/ NetBreaks(c) PROVE SocketOK' /\ ProxyBytes'
  BY <1>12 DEF NetSettles, NetBreaks, SocketOK, TypeOK, ProxyBytes
<1>13. ASSUME NEW c \in Conn, RespondHonest(c) \/ RespondOther(c) \/ Finish(c)
       PROVE SocketOK' /\ ProxyBytes'
  <2>1. UNCHANGED <<key, sock, tx, rx, pc, tor, torIn, ret, net>>
    BY <1>13 DEF RespondHonest, RespondOther, Finish
  <2> QED BY <2>1 DEF SocketOK, TypeOK, ProxyBytes
<1>14. CASE UNCHANGED vars
  BY <1>14 DEF vars, SocketOK, TypeOK, ProxyBytes
<1> QED BY <1>1, <1>2, <1>3, <1>4, <1>5, <1>6, <1>7, <1>8, <1>9, <1>10, <1>11, <1>12,
           <1>13, <1>14 DEF Next, Client

\* A Tor exchange that is taken for a success leaves no byte of the proxy to
\* be read as act two, however its greeting is cut and whatever it answers.
THEOREM ProxyLeavesNothing == Spec => []TorDrained
<1>1. ProxyBytes => TorDrained
  BY DEF ProxyBytes, TorDrained
<1> QED BY <1>1, SocketInit, SocketStep, PTL DEF Spec

-----------------------------------------------------------------------------
(* Keys: where each comes from *)

\* The keys used so far, and the one to use next.
UsedKeys == {wire[i].k : i \in 1..Len(wire)}
Keys == UsedKeys \cup {tx.k}

WireOK ==
  /\ Len(wire) \in Nat /\ wire = [i \in 1..Len(wire) |-> wire[i]]
  /\ \A i \in 1..Len(wire) : wire[i].n \in Nat

\* The key to use next was used with smaller nonces only,
Spent == \A i \in 1..Len(wire) : wire[i].k = tx.k => wire[i].n < tx.n

\* no other key was derived from it (a key that a rotation made, half 2, was
\* derived from from[2]),
Childless == \A k \in Keys : k.half = 2 => k.from[2] # tx.k

\* a key that a rotation made was made of one that was used,
Descends == \A k \in Keys : k.half = 2 => k.from[2] \in Keys

\* and a key that a handshake made, half 1, is of a socket of its own: the
\* first secret mixed into it was the ephemeral key of a socket that no
\* handshake under way or to come is on.
FirstSecret(k) == k.from[1].from[1].from[1].from[2].from
Finished(d) == net[d] # "unused" /\ (pc # "idle" => d # sock)
Rooted ==
  \A k \in Keys : k.half = 1 =>
    \E d \in Conn : Finished(d) /\ FirstSecret(k) = {Ephemeral(d), NodeKey}

\* Between act one and act two the handshake holds the socket's secret.
Secret ==
  pc = "act2" => /\ DOMAIN hs = {"h", "ck", "temp_k", "their_id", "e", "re"}
                 /\ hs.ck.from[2].from = {Ephemeral(sock), NodeKey}

WireApart ==
  \A i, j \in 1..Len(wire) : wire[i].k = wire[j].k /\ wire[i].n = wire[j].n => i = j

KeyInv ==
  /\ SocketOK /\ WireOK /\ Spent /\ Childless /\ Descends /\ Rooted /\ Secret /\ WireApart

LEMMA KeyInit == Init => KeyInv
<1> SUFFICES ASSUME Init PROVE KeyInv
  OBVIOUS
<1>1. wire = <<>> /\ Len(wire) = 0 /\ tx.k.half = 0 /\ pc = "idle"
  BY DEF Init, ZeroHalf, Root
<1>2. Keys = {tx.k} /\ WireOK
  BY <1>1 DEF Keys, UsedKeys, WireOK
<1> QED BY <1>1, <1>2, SocketInit
        DEF KeyInv, Spent, Childless, Descends, Rooted, Secret, WireApart

\* Two ephemeral keys make two secrets.
LEMMA SecretsApart ==
  ASSUME NEW c, NEW d, {Ephemeral(c), NodeKey} = {Ephemeral(d), NodeKey}
  PROVE  c = d
<1>1. Ephemeral(c) = Ephemeral(d)
  <2>1. \A x, y, z : {x, z} = {y, z} => x = y
    BY SMT
  <2> QED BY <2>1
<1> QED BY <1>1 DEF Ephemeral

-----------------------------------------------------------------------------
(* lnsocket_write *)

LEMMA WriteKeys ==
  ASSUME KeyInv, Write
  PROVE  WireOK' /\ Spent' /\ Childless' /\ Descends' /\ Rooted' /\ WireApart'
<1> DEFINE a == [sock |-> sock, k |-> tx.k, n |-> tx.n]
           b == [sock |-> sock, k |-> tx.k, n |-> tx.n + 1]
           L == Len(wire)
<1>1. /\ wire' = [i \in 1..Len(wire') |-> wire'[i]]
      /\ Len(wire') = L + 2 /\ L \in Nat
      /\ \A i \in 1..L : wire'[i] = wire[i]
      /\ wire'[L + 1] = a /\ wire'[L + 2] = b
  BY AppendTwo DEF Write, KeyInv, WireOK
<1>2. /\ a.k = tx.k /\ a.n = tx.n /\ b.k = tx.k /\ b.n = tx.n + 1
      /\ tx.n \in Nat /\ tx.k.gen \in Nat
  BY DEF KeyInv, SocketOK, TypeOK
<1>3. /\ tx'.n \in Nat
      /\ \/ tx'.k = tx.k /\ tx'.n = tx.n + 2
         \/ tx'.k = [gen |-> tx.k.gen + 1, half |-> 2, from |-> <<tx.ck, tx.k>>]
  BY SealKeeps DEF Write, KeyInv, SocketOK, TypeOK
<1>4. UNCHANGED <<pc, sock, net>>
  BY DEF Write
<1> HIDE DEF a, b
<1>5. /\ \A i \in 1..L : wire[i].n \in Nat /\ (wire[i].k = tx.k => wire[i].n < tx.n)
      /\ \A i, j \in 1..L : wire[i].k = wire[j].k /\ wire[i].n = wire[j].n => i = j
  BY DEF KeyInv, WireOK, Spent, WireApart
<1> HIDE DEF L
<1>6. \A i \in 1..Len(wire') :
        \/ i \in 1..L /\ wire'[i] = wire[i]
        \/ i = L + 1 /\ wire'[i] = a
        \/ i = L + 2 /\ wire'[i] = b
  BY <1>1
<1>7. WireOK'
  BY <1>1, <1>2, <1>5, <1>6 DEF WireOK
<1>8. UsedKeys' = UsedKeys \cup {tx.k}
  <2>1. 1..L \subseteq 1..Len(wire') /\ L + 1 \in 1..Len(wire')
    BY <1>1
  <2>2. UsedKeys = {wire[i].k : i \in 1..L}
    BY DEF UsedKeys, L
  <2>3. UsedKeys' = {wire'[i].k : i \in 1..Len(wire')}
    BY DEF UsedKeys
  <2> QED BY <1>1, <1>2, <1>6, <2>1, <2>2, <2>3
<1>9. Keys' = Keys \cup {tx'.k}
  BY <1>8 DEF Keys
<1>10. WireApart'
  <2>1. SUFFICES ASSUME NEW i \in 1..Len(wire'), NEW j \in 1..Len(wire'),
                        wire'[i].k = wire'[j].k, wire'[i].n = wire'[j].n
                 PROVE  i = j
    BY DEF WireApart
  <2>2. CASE i \in 1..L /\ j \in 1..L
    BY <1>1, <1>5, <2>1, <2>2
  <2>3. CASE i \in 1..L /\ j \notin 1..L
    BY <1>2, <1>5, <1>6, <2>1, <2>3
  <2>4. CASE i \notin 1..L /\ j \in 1..L
    BY <1>2, <1>5, <1>6, <2>1, <2>4
  <2>5. CASE i \notin 1..L /\ j \notin 1..L
    BY <1>1, <1>2, <1>6, <2>1, <2>5
  <2> QED BY <2>2, <2>3, <2>4, <2>5
<1>11. CASE tx'.k = tx.k /\ tx'.n = tx.n + 2
  <2>1. Keys' = Keys
    BY <1>9, <1>11 DEF Keys
  <2>2. Childless' /\ Descends'
    BY <1>11, <2>1 DEF KeyInv, Childless, Descends
  <2>3. Rooted'
    <3>1. \A d \in Conn : Finished(d)' = Finished(d)
      BY <1>4 DEF Finished
    <3> QED BY <2>1, <3>1 DEF KeyInv, Rooted
  <2>4. Spent'
    <3>1. SUFFICES ASSUME NEW i \in 1..Len(wire'), wire'[i].k = tx.k
                   PROVE  wire'[i].n < tx.n + 2
      BY <1>11 DEF Spent
    <3>2. CASE i \in 1..L /\ wire'[i] = wire[i]
      <4>1. wire[i].n \in Nat /\ wire[i].n < tx.n
        BY <1>5, <3>1, <3>2
      <4> QED BY <1>2, <3>2, <4>1
    <3>3. CASE wire'[i] = a \/ wire'[i] = b
      BY <1>2, <3>3
    <3> QED BY <1>6, <3>2, <3>3
  <2> QED BY <1>7, <1>10, <2>2, <2>3, <2>4
<1>12. CASE tx'.k = [gen |-> tx.k.gen + 1, half |-> 2, from |-> <<tx.ck, tx.k>>]
  <2>1. tx'.k.half = 2 /\ tx'.k.from[2] = tx.k /\ tx'.k # tx.k
    BY <1>2, <1>12
  <2>2. tx'.k \notin Keys
    BY <2>1 DEF KeyInv, Childless
  <2>3. Childless'
    <3>1. \A k \in Keys : k.half = 2 => k.from[2] # tx'.k
      BY <2>2 DEF KeyInv, Descends
    <3> QED BY <1>9, <2>1, <3>1 DEF Childless
  <2>4. Descends'
    BY <1>9, <2>1 DEF KeyInv, Descends, Keys
  <2>5. Rooted'
    BY <1>4, <1>9, <2>1 DEF KeyInv, Rooted, Finished
  <2>6. Spent'
    <3>1. \A i \in 1..Len(wire') : wire'[i].k \in Keys
      BY <1>8 DEF UsedKeys, Keys
    <3> QED BY <2>2, <3>1 DEF Spent
  <2> QED BY <1>7, <1>10, <2>3, <2>4, <2>5, <2>6
<1> QED BY <1>3, <1>11, <1>12

-----------------------------------------------------------------------------
(* handshake_success *)

\* The key a handshake ends with, and the first secret mixed into it.
LEMMA FinalKey ==
  ASSUME pc = "act2", Secret, ActTwoThree
  PROVE  /\ tx'.k.half = 1 /\ tx'.k.gen \in Nat
         /\ FirstSecret(tx'.k) = {Ephemeral(sock), NodeKey}
<1> DEFINE act2 == acts[sock].two
           hs2  == ActTwoMix(hs, act2)
           hs3  == AfterActTwo(hs2, act2)
<1>1. hs' = AfterActThree(hs3, OwnKey) /\ tx' = SuccessSend(hs')
  BY Zenon DEF ActTwoThree
<1>2. DOMAIN hs2 = DOMAIN hs /\ hs2.ck.from[1] = hs.ck
  BY DEF Secret, ActTwoMix, HkdfTwoKeys
<1> HIDE DEF hs2
<1>3. DOMAIN hs3 = DOMAIN hs /\ hs3.ck = hs2.ck
  BY <1>2 DEF Secret, AfterActTwo
<1> HIDE DEF hs3
<1>4. hs'.ck.from[1] = hs3.ck
  BY <1>1, <1>3 DEF Secret, AfterActThree, HkdfTwoKeys
<1>5. tx'.k.half = 1 /\ tx'.k.gen \in Nat /\ tx'.k.from[1] = hs'.ck
  BY <1>1 DEF SuccessSend, HkdfTwoKeys, Zero, Root
<1> QED BY <1>2, <1>3, <1>4, <1>5 DEF FirstSecret, Secret

LEMMA SuccessKeys ==
  ASSUME KeyInv, ActTwoThree
  PROVE  WireOK' /\ Spent' /\ Childless' /\ Descends' /\ Rooted' /\ WireApart'
<1>1. /\ pc = "act2" /\ pc' = "idle" /\ UNCHANGED <<sock, net, wire>>
  BY DEF ActTwoThree, Returns, Fails
<1>2. /\ tx'.k.half = 1 /\ tx'.k.gen \in Nat
      /\ FirstSecret(tx'.k) = {Ephemeral(sock), NodeKey}
  BY <1>1, FinalKey DEF KeyInv
<1>3. sock \in Conn /\ net[sock] # "unused"
  BY <1>1 DEF KeyInv, SocketOK, TypeOK
<1>4. tx'.k \notin Keys
  <2>1. SUFFICES ASSUME tx'.k \in Keys PROVE FALSE
    OBVIOUS
  <2>2. PICK d \in Conn : Finished(d) /\ FirstSecret(tx'.k) = {Ephemeral(d), NodeKey}
    BY <1>2, <2>1 DEF KeyInv, Rooted
  <2>3. d = sock
    BY <1>2, <2>2, SecretsApart
  <2> QED BY <1>1, <2>2, <2>3 DEF Finished
<1>5. UsedKeys' = UsedKeys /\ Keys' = UsedKeys \cup {tx'.k}
  BY <1>1 DEF UsedKeys, Keys
<1>6. UsedKeys \subseteq Keys /\ Keys = UsedKeys \cup {tx.k}
  BY DEF Keys
<1>7. Childless'
  <2>1. \A k \in Keys : k.half = 2 => k.from[2] # tx'.k
    BY <1>4 DEF KeyInv, Descends
  <2> QED BY <1>2, <1>5, <1>6, <2>1 DEF Childless
<1>8. Descends'
  <2>1. \A k \in UsedKeys : k.half = 2 => k.from[2] \in UsedKeys
    BY <1>6 DEF KeyInv, Descends, Childless
  <2> QED BY <1>2, <1>5, <2>1 DEF Descends
<1>9. Rooted'
  <2>1. Finished(sock)' /\ \A d \in Conn : Finished(d) => Finished(d)'
    BY <1>1, <1>3 DEF Finished
  <2>2. \A k \in UsedKeys : k.half = 1 =>
          \E d \in Conn : Finished(d) /\ FirstSecret(k) = {Ephemeral(d), NodeKey}
    BY <1>6 DEF KeyInv, Rooted
  <2> QED BY <1>1, <1>2, <1>3, <1>5, <2>1, <2>2 DEF Rooted
<1>10. Spent'
  <2>1. \A i \in 1..Len(wire') : wire'[i].k \in Keys
    BY <1>1 DEF Keys, UsedKeys
  <2> QED BY <1>4, <2>1 DEF Spent
<1> QED BY <1>1, <1>7, <1>8, <1>9, <1>10 DEF KeyInv, WireOK, WireApart

-----------------------------------------------------------------------------
(* Every step *)

\* Steps that seal nothing and derive no key to send with: no socket becomes
\* unused, and a call that begins has a socket that was.
LEMMA OtherKeys ==
  ASSUME KeyInv, UNCHANGED <<tx, wire>>,
         \A d \in Conn : net[d] # "unused" => net'[d] # "unused",
         pc' # "idle" => \/ pc # "idle" /\ sock' = sock
                         \/ net[sock'] = "unused"
  PROVE  WireOK' /\ Spent' /\ Childless' /\ Descends' /\ Rooted' /\ WireApart'
<1>1. Keys' = Keys
  BY DEF Keys, UsedKeys
<1>2. \A d \in Conn : Finished(d) => Finished(d)'
  BY DEF Finished
<1>3. Rooted'
  BY <1>1, <1>2 DEF KeyInv, Rooted
<1> QED BY <1>1, <1>3 DEF KeyInv, WireOK, Spent, Childless, Descends, WireApart

LEMMA KeyStep == KeyInv /\ ProxyBytes /\ [Next]_vars => KeyInv'
<1> SUFFICES ASSUME KeyInv, ProxyBytes, [Next]_vars PROVE KeyInv'
  OBVIOUS
<1> USE DEF lnVars, netVars, Returns, Fails
<1>s. SocketOK'
  BY SocketStep DEF KeyInv
<1>n. net \in [Conn -> {"unused", "syn", "up", "dead"}]
  BY DEF KeyInv, SocketOK, TypeOK
<1>1. CASE \/ SetKey \/ ConnectRefused \/ ConnectNoSocket
           \/ SelectReturns \/ SelectFails \/ TorGreet \/ TorReply
           \/ ActTwoReadFails \/ ActTwoRefused
  <2>1. UNCHANGED <<tx, wire, net>>
    BY <1>1 DEF SetKey, ConnectRefused, ConnectNoSocket, SelectReturns, SelectFails,
                TorGreet, TorReply, ActTwoReadFails, ActTwoRefused
  <2>2. /\ pc' # "act2"
        /\ pc' # "idle" => pc # "idle" /\ sock' = sock
    BY <1>1 DEF SetKey, ConnectRefused, ConnectNoSocket, SelectReturns, SelectFails,
                TorGreet, TorReply, ActTwoReadFails, ActTwoRefused
  <2> QED BY <1>s, <2>1, <2>2, OtherKeys DEF KeyInv, Secret
<1>2. CASE ConnectNoHost
  <2>1. NextConn \in Conn
    BY <1>2, NextConnUnused DEF ConnectNoHost
  <2>2. /\ UNCHANGED <<tx, wire>> /\ net' = [net EXCEPT ![NextConn] = "dead"] /\ pc' = "idle"
    BY <1>2 DEF ConnectNoHost
  <2>3. \A d \in Conn : net[d] # "unused" => net'[d] # "unused"
    BY <1>n, <2>1, <2>2
  <2> QED BY <1>s, <2>2, <2>3, OtherKeys DEF KeyInv, Secret
<1>3. ASSUME NEW proxy \in BOOLEAN, ConnectCall(proxy) PROVE KeyInv'
  <2>1. NextConn \in Conn /\ net[NextConn] = "unused"
    BY <1>3, NextConnUnused DEF ConnectCall
  <2>2. PICK now \in BOOLEAN : net' = [net EXCEPT ![NextConn] = IF now THEN "up" ELSE "syn"]
    BY <1>3 DEF ConnectCall
  <2>3. \A d \in Conn : net[d] # "unused" => net'[d] # "unused"
    BY <1>n, <2>1, <2>2
  <2>4. UNCHANGED <<tx, wire>> /\ sock' = NextConn /\ pc' \in {"idle", "select"}
    BY <1>3 DEF ConnectCall
  <2> QED BY <1>s, <2>1, <2>3, <2>4, OtherKeys DEF KeyInv, Secret
<1>4. CASE SendActOne
  <2>1. UNCHANGED <<tx, wire, net, sock>> /\ pc = "act1"
    BY <1>4 DEF SendActOne
  <2>2. hs' = AfterActOne(ActOnePrep(NewHandshake(NodeKey), Ephemeral(sock)))
    BY <1>4 DEF SendActOne, Dialling
  <2>3. Secret'
    <3> DEFINE hs0 == NewHandshake(NodeKey)
               hs1 == ActOnePrep(hs0, Ephemeral(sock))
    <3>1. DOMAIN hs0 = {"h", "ck", "temp_k", "their_id", "e", "re"} /\ hs0.their_id = NodeKey
      BY DEF NewHandshake
    <3> HIDE DEF hs0
    <3>2. DOMAIN hs1 = DOMAIN hs0 /\ hs1.ck.from[2] = Ecdh(Ephemeral(sock), NodeKey)
      BY <3>1 DEF ActOnePrep, HkdfTwoKeys
    <3>4. hs' = AfterActOne(hs1)
      BY <2>2 DEF hs0
    <3> HIDE DEF hs1
    <3>3. DOMAIN hs' = DOMAIN hs0 /\ hs'.ck = hs1.ck
      BY <3>1, <3>2, <3>4 DEF AfterActOne
    <3>5. hs'.ck.from[2].from = {Ephemeral(sock), NodeKey}
      BY <3>2, <3>3 DEF Ecdh
    <3>6. Ephemeral(sock)' = Ephemeral(sock)
      BY <2>1 DEF Ephemeral
    <3> QED BY <2>1, <3>1, <3>3, <3>5, <3>6 DEF Secret
  <2> QED BY <1>s, <2>1, <2>3, OtherKeys DEF KeyInv
<1>5. CASE ActTwoThree
  <2>1. pc' = "idle"
    BY <1>5 DEF ActTwoThree
  <2> QED BY <1>s, <1>5, <2>1, SuccessKeys DEF KeyInv, Secret
<1>6. CASE Write
  <2>1. pc' = "idle"
    BY <1>6 DEF Write
  <2> QED BY <1>s, <1>6, <2>1, WriteKeys DEF KeyInv, Secret
<1>7. ASSUME NEW c \in Conn, \/ NetSettles(c) \/ NetBreaks(c)
                            \/ RespondHonest(c) \/ RespondOther(c) \/ Finish(c)
      PROVE  KeyInv'
  <2>1. UNCHANGED <<tx, wire, hs, pc, sock>>
    BY <1>7 DEF NetSettles, NetBreaks, RespondHonest, RespondOther, Finish
  <2>2. \A d \in Conn : net[d] # "unused" => net'[d] # "unused"
    BY <1>7, <1>n DEF NetSettles, NetBreaks, RespondHonest, RespondOther, Finish
  <2>3. Secret'
    BY <2>1 DEF KeyInv, Secret, Ephemeral
  <2> QED BY <1>s, <2>1, <2>2, <2>3, OtherKeys DEF KeyInv
<1>8. CASE UNCHANGED vars
  <2>1. UNCHANGED <<tx, wire, hs, pc, sock, net>>
    BY <1>8 DEF vars
  <2>2. Secret'
    BY <2>1 DEF KeyInv, Secret, Ephemeral
  <2> QED BY <1>s, <2>1, <2>2, OtherKeys DEF KeyInv
<1> QED BY <1>1, <1>2, <1>3, <1>4, <1>5, <1>6, <1>7, <1>8 DEF Next, Client

\* In every reachable state the variables have their types, and a call that
\* waits has a socket to wait on.
THEOREM ConnectTypeCorrect == Spec => []TypeOK
<1>1. SocketOK => TypeOK
  BY DEF SocketOK
<1> QED BY <1>1, SocketInit, SocketStep, PTL DEF Spec

\* Over any sequence of connects and writes of one struct lnsocket, those that
\* fail included, lnsocket_write never seals two units with the same key and
\* nonce, although it goes on with the keys of a connection that is gone.
THEOREM NoncesApartForGood == Spec => []NoncesApartAcrossConnects
<1>1. KeyInv => NoncesApartAcrossConnects
  <2> SUFFICES ASSUME KeyInv PROVE NoncesApartAcrossConnects
    OBVIOUS
  <2>1. DOMAIN wire = 1..Len(wire)
    BY DEF KeyInv, WireOK
  <2> QED BY <2>1 DEF KeyInv, WireApart, NoncesApartAcrossConnects
<1> QED BY <1>1, SocketInit, SocketStep, KeyInit, KeyStep, PTL DEF Spec, KeyInv

-----------------------------------------------------------------------------
(* The session a handshake leaves *)

LEMMA OneMore ==
  ASSUME NEW S, IsFiniteSet(S), Cardinality(S) \in Nat, NEW x
  PROVE  /\ IsFiniteSet(S \cup {x}) /\ Cardinality(S \cup {x}) \in Nat
         /\ Cardinality(S \cup {x}) <= Cardinality(S) + 1
<1>1. Cardinality(S \cup {x}) = IF x \in S THEN Cardinality(S) ELSE Cardinality(S) + 1
  BY FS_AddElement
<1>2. IsFiniteSet(S \cup {x})
  BY FS_AddElement
<1> QED BY <1>1, <1>2

LEMMA TwoNodes == OtherKey # NodeKey
<1> SUFFICES ASSUME OtherKey = NodeKey PROVE FALSE
  OBVIOUS
<1>1. PICK z : z = {}
  OBVIOUS
<1>2. IsFiniteSet(z) /\ Cardinality(z) = 0 /\ Cardinality(z) \in Nat
  BY <1>1, FS_EmptySet
<1>3. PICK a : a = z \cup {NodeKey}
  OBVIOUS
<1>4. IsFiniteSet(a) /\ Cardinality(a) \in Nat /\ Cardinality(a) <= Cardinality(z) + 1
  BY <1>2, <1>3, OneMore
<1>5. PICK b : b = a \cup {OwnKey}
  OBVIOUS
<1>6. IsFiniteSet(b) /\ Cardinality(b) \in Nat /\ Cardinality(b) <= Cardinality(a) + 1
  BY <1>4, <1>5, OneMore
<1>7. PICK c : c = b \cup {NoKey}
  OBVIOUS
<1>8. IsFiniteSet(c) /\ Cardinality(c) \in Nat /\ Cardinality(c) <= Cardinality(b) + 1
  BY <1>6, <1>7, OneMore
<1>9. PICK d : d = c \cup {None}
  OBVIOUS
<1>10. Cardinality(d) \in Nat /\ Cardinality(d) <= Cardinality(c) + 1
  BY <1>8, <1>9, OneMore
<1>11. {NodeKey, OtherKey, OwnKey, NoKey, None} = d
  BY <1>1, <1>3, <1>5, <1>7, <1>9
<1>12. Cardinality(d) = 5
  BY <1>11, ConnectAssumption
<1> QED BY <1>2, <1>4, <1>6, <1>8, <1>10, <1>12

\* What both ends mixed into the running hash when they agree on the tag of
\* act two, and the node's key in it.
Mixed(k, e, t, re) == Mix(Mix(Mix(Mix(Mix(<<ProtocolName>>, "lightning"), k), e), t), re)

HasThird(s, T, k) == s \in Seq(T) /\ 3 <= Len(s) /\ s[3] = k

LEMMA MixKeepsThird ==
  ASSUME NEW T, NEW k, NEW s, HasThird(s, T, k), NEW x \in T
  PROVE  HasThird(Mix(s, x), T, k)
BY AppendProperties DEF Mix, HasThird

LEMMA MixedTells ==
  ASSUME NEW k, NEW e, NEW t, NEW re
  PROVE  Mixed(k, e, t, re)[3] = k
<1>1. PICK l : l = "lightning"
  OBVIOUS
<1>2. PICK T : ProtocolName \in T /\ l \in T /\ k \in T /\ e \in T /\ t \in T /\ re \in T
  <2>1. PICK T : T = {ProtocolName, l, k, e, t, re}
    OBVIOUS
  <2> QED BY <2>1
<1>3. HasThird(Mix(Mix(<<ProtocolName>>, l), k), T, k)
  <2>1. PICK a : a = <<ProtocolName>>
    OBVIOUS
  <2>2. a \in Seq(T) /\ Len(a) = 1
    BY <1>2, <2>1
  <2>3. PICK b : b = Append(a, l)
    OBVIOUS
  <2>4. b \in Seq(T) /\ Len(b) = 2
    BY <1>2, <2>2, <2>3
  <2>5. Append(b, k) \in Seq(T) /\ Len(Append(b, k)) = 3 /\ Append(b, k)[3] = k
    <3>1. Len(b) + 1 = 3 /\ 3 \in 1..(Len(b) + 1)
      BY <2>4
    <3>2. k \in T /\ b \in Seq(T)
      BY <1>2, <2>4
    <3>3. /\ Append(b, k) \in Seq(T) /\ Len(Append(b, k)) = Len(b) + 1
          /\ Append(b, k)[Len(b) + 1] = k
      BY <3>2, AppendProperties
    <3> QED BY <3>1, <3>3
  <2> QED BY <2>1, <2>3, <2>5 DEF Mix, HasThird
<1>4. HasThird(Mixed(k, e, t, re), T, k)
  BY <1>1, <1>2, <1>3, MixKeepsThird, Zenon DEF Mixed
<1> QED BY <1>4 DEF HasThird

\* The handshake before act two, and after an act two from the node dialled.
AfterOne(c) == AfterActOne(Dialling(c))
AfterTwo(c) == AfterActTwo(ActTwoMix(AfterOne(c), Answer(c).act2), Answer(c).act2)
Three(c) == AfterActThree(AfterTwo(c), OwnKey)

FirstOkm(c) == HkdfTwoKeys(Root(ProtocolName), Ecdh(Ephemeral(c), NodeKey))
HsFields == {"h", "ck", "temp_k", "their_id", "e", "re"}

LEMMA AfterOneIs ==
  ASSUME NEW c
  PROVE  /\ DOMAIN AfterOne(c) = HsFields
         /\ AfterOne(c).h = Mix(Dialling(c).h, ActOneTag(Dialling(c)))
         /\ AfterOne(c).ck = FirstOkm(c).out1 /\ AfterOne(c).temp_k = FirstOkm(c).out2
         /\ AfterOne(c).e = Ephemeral(c)
         /\ Dialling(c).h = Mix(Mix(Mix(<<ProtocolName>>, "lightning"), NodeKey), Ephemeral(c))
         /\ Dialling(c).temp_k = FirstOkm(c).out2 /\ Dialling(c).e = Ephemeral(c)
<1> DEFINE hs0 == NewHandshake(NodeKey)
<1>1. /\ DOMAIN hs0 = HsFields /\ hs0.their_id = NodeKey /\ hs0.ck = Root(ProtocolName)
      /\ hs0.h = Mix(Mix(<<ProtocolName>>, "lightning"), NodeKey)
  BY DEF NewHandshake, HsFields
<1> HIDE DEF hs0
<1>2. Dialling(c) = ActOnePrep(hs0, Ephemeral(c))
  BY DEF Dialling, hs0
<1>3. /\ DOMAIN Dialling(c) = HsFields
      /\ Dialling(c).h = Mix(hs0.h, Ephemeral(c))
      /\ Dialling(c).ck = FirstOkm(c).out1 /\ Dialling(c).temp_k = FirstOkm(c).out2
      /\ Dialling(c).e = Ephemeral(c)
  BY <1>1, <1>2 DEF ActOnePrep, FirstOkm, HsFields
<1>4. /\ DOMAIN AfterOne(c) = HsFields
      /\ AfterOne(c).h = Mix(Dialling(c).h, ActOneTag(Dialling(c)))
      /\ AfterOne(c).ck = Dialling(c).ck /\ AfterOne(c).temp_k = Dialling(c).temp_k
      /\ AfterOne(c).e = Dialling(c).e
  BY <1>3 DEF AfterOne, AfterActOne, HsFields
<1> QED BY <1>1, <1>3, <1>4

\* An act two that the client takes.
Passes(c, act2) == ActTwoParses(act2) /\ ActTwoOpens(ActTwoMix(AfterOne(c), act2), act2)

\* No node but the one dialled can make one.
LEMMA OthersRefused ==
  ASSUME NEW c, NEW one,
         NEW act2 \in {[v |-> 1, pubkey |-> OtherKey, tag |-> BadTag],
                       [v |-> 0, pubkey |-> NoKey, tag |-> BadTag],
                       RespondTwo(OtherKey, one, RespEphemeral(c)).act2}
  PROVE  ~Passes(c, act2)
<1>1. CASE act2 = [v |-> 1, pubkey |-> OtherKey, tag |-> BadTag]
  BY <1>1 DEF Passes, ActTwoParses
<1>2. CASE act2 = [v |-> 0, pubkey |-> NoKey, tag |-> BadTag]
  BY <1>2 DEF Passes, ActTwoParses
<1>3. CASE act2 = RespondTwo(OtherKey, one, RespEphemeral(c)).act2
  <2> DEFINE re == RespEphemeral(c)
             h2 == ActTwoMix(AfterOne(c), act2).h
  <2>1. act2.pubkey = re /\ act2.tag.ad = Mixed(OtherKey, one.pubkey, one.tag, re)
    BY <1>3 DEF RespondTwo, Responded1, EncryptAd, Mixed
  <2>2. h2 = Mixed(NodeKey, Ephemeral(c), ActOneTag(Dialling(c)), re)
    <3>1. h2 = Mix(AfterOne(c).h, re)
      BY <2>1, AfterOneIs DEF ActTwoMix, HsFields
    <3> QED BY <3>1, AfterOneIs DEF Mixed
  <2>3. act2.tag.ad[3] = OtherKey
    BY <2>1, MixedTells
  <2>4. h2[3] = NodeKey
    BY <2>2, MixedTells
  <2>5. ActTwoOpens(ActTwoMix(AfterOne(c), act2), act2) => act2.tag.ad = h2
    BY DEF ActTwoOpens, EncryptAd
  <2> QED BY <2>3, <2>4, <2>5, TwoNodes DEF Passes
<1> QED BY <1>1, <1>2, <1>3

\* The node dialled and the client agree on the handshake.
LEMMA AnswerIs ==
  ASSUME NEW c
  PROVE  LET A == Answer(c)
             h2 == ActTwoMix(AfterOne(c), A.act2)
         IN  /\ A.act2.v = 0 /\ A.act2.pubkey = RespEphemeral(c) /\ A.re = RespEphemeral(c)
             /\ DOMAIN h2 = HsFields /\ h2.re = RespEphemeral(c)
             /\ h2.ck = A.okm.out1 /\ h2.temp_k = A.okm.out2
             /\ A.h = Mix(h2.h, A.act2.tag)
<1> DEFINE act1 == ActOne(Dialling(c))
           re == RespEphemeral(c)
           r1 == Responded1(NodeKey, act1)
           A == Answer(c)
           h2 == ActTwoMix(AfterOne(c), A.act2)
<1>1. act1.pubkey = Ephemeral(c) /\ act1.tag = ActOneTag(Dialling(c))
  BY AfterOneIs DEF ActOne
<1> HIDE DEF act1
<1>2. r1.okm = FirstOkm(c) /\ r1.h = Dialling(c).h
  <2>1. Ecdh(NodeKey, Ephemeral(c)) = Ecdh(Ephemeral(c), NodeKey)
    BY DEF Ecdh
  <2> QED BY <1>1, <2>1, AfterOneIs DEF Responded1, FirstOkm
<1> HIDE DEF r1
<1>3. /\ A.act2.v = 0 /\ A.act2.pubkey = re /\ A.re = re
      /\ A.okm = HkdfTwoKeys(r1.okm.out1, Ecdh(re, act1.pubkey))
      /\ A.h = Mix(Mix(Mix(r1.h, act1.tag), re), A.act2.tag)
  <2>1. A = RespondTwo(NodeKey, act1, re)
    BY DEF Answer, act1
  <2> QED BY <2>1 DEF RespondTwo, r1
<1> HIDE DEF A
<1>4. /\ DOMAIN h2 = HsFields /\ h2.re = re
      /\ h2.h = Mix(AfterOne(c).h, re)
      /\ h2.ck = HkdfTwoKeys(AfterOne(c).ck, Ecdh(AfterOne(c).e, re)).out1
      /\ h2.temp_k = HkdfTwoKeys(AfterOne(c).ck, Ecdh(AfterOne(c).e, re)).out2
  BY <1>3, AfterOneIs DEF ActTwoMix, HsFields
<1>5. Ecdh(AfterOne(c).e, re) = Ecdh(re, act1.pubkey)
  BY <1>1, AfterOneIs DEF Ecdh
<1>6. h2.ck = A.okm.out1 /\ h2.temp_k = A.okm.out2
  BY <1>2, <1>3, <1>4, <1>5, AfterOneIs
<1>7. A.h = Mix(h2.h, A.act2.tag)
  BY <1>1, <1>2, <1>3, <1>4, AfterOneIs
<1> QED BY <1>3, <1>4, <1>6, <1>7 DEF A

\* What the client sends last is what the node dialled accepts, and the two
\* ends derive the same keys.
PeerKeys(c) == ResponderKeys(Answer(c), OwnKey)

LEMMA EndsAgree ==
  ASSUME NEW c
  PROVE  /\ AcceptsThree(Answer(c), ActThree(AfterTwo(c), OwnKey), OwnKey)
         /\ SuccessSend(Three(c)) = [n |-> 0, k |-> PeerKeys(c).recv, ck |-> PeerKeys(c).ck]
         /\ SuccessRecv(Three(c)) = [n |-> 0, k |-> PeerKeys(c).send, ck |-> PeerKeys(c).ck]
<1> DEFINE A == Answer(c)
           h2 == ActTwoMix(AfterOne(c), A.act2)
           h3 == AfterTwo(c)
           h4 == Three(c)
           okm == RespondThreeOkm(A, OwnKey)
<1>1. /\ A.re = RespEphemeral(c)
      /\ DOMAIN h2 = HsFields /\ h2.re = RespEphemeral(c)
      /\ h2.ck = A.okm.out1 /\ h2.temp_k = A.okm.out2
      /\ A.h = Mix(h2.h, A.act2.tag)
  BY AnswerIs
<1>2. h3 = AfterActTwo(h2, A.act2)
  BY DEF AfterTwo
<1> HIDE DEF A, h2, h3
<1>3. /\ DOMAIN h3 = HsFields /\ h3.re = RespEphemeral(c)
      /\ h3.ck = A.okm.out1 /\ h3.temp_k = A.okm.out2 /\ h3.h = A.h
  BY <1>1, <1>2 DEF AfterActTwo, HsFields
<1>4. HkdfTwoKeys(h3.ck, Ecdh(OwnKey, h3.re)) = okm
  BY <1>1, <1>3 DEF RespondThreeOkm, Ecdh
<1>5. h4 = AfterActThree(h3, OwnKey)
  BY DEF Three, h3
<1> HIDE DEF h4, okm
<1>6. /\ h4.ck = okm.out1 /\ h4.temp_k = okm.out2
      /\ h4.h = Mix(h3.h, ActThreeCipher(h3, OwnKey))
  BY <1>3, <1>4, <1>5 DEF AfterActThree, HsFields
<1>7. ActThreeCipher(h3, OwnKey) = EncryptAd(A.okm.out2, 1, A.h, OwnKey)
  BY <1>3 DEF ActThreeCipher
<1>8. AcceptsThree(A, ActThree(h3, OwnKey), OwnKey)
  <2>1. ActThree(h3, OwnKey) =
          [v |-> 0, ciphertext |-> ActThreeCipher(h3, OwnKey), tag |-> EncryptAd(h4.temp_k, 0, h4.h, Zero)]
    BY <1>5 DEF ActThree
  <2> QED BY <1>3, <1>6, <1>7, <2>1 DEF AcceptsThree, okm
<1>9. PeerKeys(c) = [recv |-> HkdfTwoKeys(okm.out1, Zero).out1,
                     send |-> HkdfTwoKeys(okm.out1, Zero).out2, ck |-> okm.out1]
  BY DEF PeerKeys, ResponderKeys, okm, A
<1> QED BY <1>6, <1>8, <1>9 DEF SuccessSend, SuccessRecv, A, h3, h4

-----------------------------------------------------------------------------
(* The key schedule of the node's receiving half *)

Receives(h) == AfterDecryptBody(AfterDecryptHeader(h), TRUE)
IsSchedule(f, h, n) == f = [i \in 0..n |-> IF i = 0 THEN h ELSE Receives(f[i - 1])]

LEMMA ScheduleIs ==
  ASSUME NEW f, NEW h, NEW n \in Nat, IsSchedule(f, h, n)
  PROVE  f[0] = h /\ \A i \in 1..n : f[i] = Receives(f[i - 1])
<1>1. 0 \in 0..n /\ \A i \in 1..n : i \in 0..n /\ i # 0
  OBVIOUS
<1>2. \A i \in 0..n : f[i] = IF i = 0 THEN h ELSE Receives(f[i - 1])
  BY Zenon DEF IsSchedule
<1> QED BY <1>1, <1>2, Zenon

LEMMA ScheduleExists ==
  ASSUME NEW h, NEW n \in Nat
  PROVE  \E f : IsSchedule(f, h, n)
<1> DEFINE S == {m \in 0..n : \E f : IsSchedule(f, h, m)}
<1>1. 0 \in S
  <2> DEFINE f == [i \in 0..0 |-> h]
  <2>1. f = [i \in 0..0 |-> IF i = 0 THEN h ELSE Receives(f[i - 1])]
    OBVIOUS
  <2>2. IsSchedule(f, h, 0)
    BY <2>1 DEF IsSchedule
  <2> QED BY <2>2
<1>2. ASSUME NEW m \in 0..(n - 1), m \in S PROVE m + 1 \in S
  <2>1. PICK f : IsSchedule(f, h, m)
    BY <1>2
  <2>2. f[0] = h /\ \A i \in 1..m : f[i] = Receives(f[i - 1])
    BY <2>1, ScheduleIs
  <2> DEFINE g == [i \in 0..(m + 1) |-> IF i = m + 1 THEN Receives(f[m]) ELSE f[i]]
  <2>3. ASSUME NEW i \in 0..(m + 1)
        PROVE  g[i] = IF i = 0 THEN h ELSE Receives(g[i - 1])
    <3>1. CASE i = 0
      BY <2>2, <3>1
    <3>2. CASE i = m + 1
      <4>1. g[i] = Receives(f[m]) /\ i - 1 = m /\ i # 0 /\ m \in 0..(m + 1) /\ m # m + 1
        BY <3>2
      <4>2. g[m] = f[m]
        BY <4>1
      <4> QED BY <4>1, <4>2
    <3>3. CASE i # 0 /\ i # m + 1
      <4>1. i \in 1..m /\ i - 1 \in 0..(m + 1) /\ i - 1 # m + 1 /\ g[i] = f[i]
        BY <3>3
      <4>2. g[i - 1] = f[i - 1]
        BY <4>1
      <4> QED BY <2>2, <3>3, <4>1, <4>2
    <3> QED BY <3>1, <3>2, <3>3
  <2>4. g = [i \in 0..(m + 1) |-> g[i]]
    OBVIOUS
  <2> HIDE DEF g
  <2>5. g = [i \in 0..(m + 1) |-> IF i = 0 THEN h ELSE Receives(g[i - 1])]
    BY <2>3, <2>4, Zenon
  <2>6. IsSchedule(g, h, m + 1) /\ m + 1 \in 0..n
    BY <2>5 DEF IsSchedule
  <2> QED BY <2>6
<1> HIDE DEF S
<1>3. \A m \in 0..n : m \in S
  BY <1>1, <1>2, Induct
<1>4. n \in S
  BY <1>3
<1> QED BY <1>4 DEF S

LEMMA AfterMessagesIs ==
  ASSUME NEW h, NEW n \in Nat
  PROVE  \E f : IsSchedule(f, h, n) /\ AfterMessages(h, n) = f[n]
<1> DEFINE f == CHOOSE g : IsSchedule(g, h, n)
<1>1. IsSchedule(f, h, n)
  BY ScheduleExists
<1>2. AfterMessages(h, n) = f[n]
  BY DEF AfterMessages, IsSchedule, Receives
<1> QED BY <1>1, <1>2

LEMMA NoMessages ==
  ASSUME NEW h
  PROVE  AfterMessages(h, 0) = h
<1>1. PICK f : IsSchedule(f, h, 0) /\ AfterMessages(h, 0) = f[0]
  BY AfterMessagesIs
<1> QED BY <1>1, ScheduleIs

LEMMA OneMessageMore ==
  ASSUME NEW h, NEW n \in Nat
  PROVE  AfterMessages(h, n + 1) = Receives(AfterMessages(h, n))
<1>1. PICK f : IsSchedule(f, h, n) /\ AfterMessages(h, n) = f[n]
  BY AfterMessagesIs
<1>2. n + 1 \in Nat
  OBVIOUS
<1>3. PICK g : IsSchedule(g, h, n + 1) /\ AfterMessages(h, n + 1) = g[n + 1]
  BY <1>2, AfterMessagesIs
<1>4. f[0] = h /\ \A i \in 1..n : f[i] = Receives(f[i - 1])
  BY <1>1, ScheduleIs
<1>5. g[0] = h /\ \A i \in 1..(n + 1) : g[i] = Receives(g[i - 1])
  BY <1>2, <1>3, ScheduleIs
<1> DEFINE S == {m \in 0..n : f[m] = g[m]}
<1>6. 0 \in S
  BY <1>4, <1>5
<1>7. ASSUME NEW m \in 0..(n - 1), m \in S PROVE m + 1 \in S
  <2>1. m + 1 \in 1..n /\ m + 1 \in 1..(n + 1) /\ m + 1 \in 0..n /\ (m + 1) - 1 = m
    OBVIOUS
  <2> QED BY <1>4, <1>5, <1>7, <2>1
<1> HIDE DEF S
<1>8. \A m \in 0..n : m \in S
  BY <1>6, <1>7, Induct
<1>9. f[n] = g[n]
  BY <1>8 DEF S
<1>10. n + 1 \in 1..(n + 1) /\ (n + 1) - 1 = n
  OBVIOUS
<1> QED BY <1>1, <1>3, <1>5, <1>9, <1>10

\* The writing half and the node's receiving half go on alike.
LEMMA SealsAreReceived ==
  ASSUME NEW h, DOMAIN h = {"n", "k", "ck"}, h.n \in Nat
  PROVE  AfterEncryptMsg(h) = Receives(h)
<1> DEFINE h1 == [h EXCEPT !.n = @ + 1]
           h2 == [h1 EXCEPT !.n = @ + 1]
           h3 == [h EXCEPT !.n = @ + 2]
<1>1. DOMAIN h1 = DOMAIN h /\ h1.n = h.n + 1 /\ h1.k = h.k /\ h1.ck = h.ck
  OBVIOUS
<1>2. DOMAIN h2 = DOMAIN h1 /\ h2.n = h1.n + 1 /\ h2.k = h1.k /\ h2.ck = h1.ck
  BY <1>1
<1>3. DOMAIN h3 = DOMAIN h /\ h3.n = h.n + 2 /\ h3.k = h.k /\ h3.ck = h.ck
  OBVIOUS
<1>4. h2 = [x \in DOMAIN h |-> h2[x]] /\ h3 = [x \in DOMAIN h |-> h3[x]]
  OBVIOUS
<1>5. AfterEncryptMsg(h) = MaybeRotateKey(h3)
  BY DEF AfterEncryptMsg
<1>6. Receives(h) = MaybeRotateKey(h2)
  BY DEF Receives, AfterDecryptHeader, AfterDecryptBody
<1> HIDE DEF h1, h2, h3
<1>7. \A x \in DOMAIN h : h2[x] = h3[x]
  BY <1>1, <1>2, <1>3
<1>8. h2 = h3
  BY <1>4, <1>7
<1> QED BY <1>5, <1>6, <1>8

-----------------------------------------------------------------------------
(* Both ends of every handshake *)

\* What was sent on a socket and what the node knows: act one is the client's;
\* act two is the dialled node's answer, or is refused; act three was sent
\* when the answer was taken, in a call that is over.
ActsOf(c) ==
  /\ DOMAIN acts[c] = {"one", "two", "three"}
  /\ acts[c].one \in {None, ActOne(Dialling(c))}
  /\ \/ acts[c].two = None
     \/ resp[c] = Answer(c) /\ acts[c].two = Answer(c).act2
     \/ ~Passes(c, acts[c].two)
  /\ acts[c].three # None =>
       acts[c].three = ActThree(AfterTwo(c), OwnKey) /\ resp[c] = Answer(c) /\ Finished(c)
  /\ resp[c] \in {None, Answer(c)}
  /\ peerKeys[c] \in {None, PeerKeys(c)}
ActsOK ==
  /\ DOMAIN acts = Conn /\ DOMAIN resp = Conn /\ DOMAIN peerKeys = Conn
  /\ \A c \in Conn : ActsOf(c)

\* While act two is awaited the handshake is the one of this socket.
AtTwo == pc = "act2" => hs = AfterOne(sock)

\* Nothing was written on a socket whose connect call is not over.
Quiet ==
  /\ sock \in Conn => net[sock] # "unused"
  /\ \A i \in 1..Len(wire) : wire[i].sock \in Conn => Finished(wire[i].sock)

\* The two ends of the current session.
PeerRecv(c) == [n |-> 0, k |-> PeerKeys(c).recv, ck |-> PeerKeys(c).ck]
PeerSend(c) == [n |-> 0, k |-> PeerKeys(c).send, ck |-> PeerKeys(c).ck]
InStep(c) ==
  /\ \E n \in Nat : /\ Cardinality(WrittenOn(c)) = 2 * n
                    /\ tx = AfterMessages(PeerRecv(c), n)
  /\ rx = PeerSend(c)
Session == sock \in Conn /\ acts[sock].three # None => InStep(sock)

AgreeInv == ActsOK /\ AtTwo /\ Quiet /\ Session

LEMMA AgreeInit == Init => AgreeInv
<1> SUFFICES ASSUME Init PROVE AgreeInv
  OBVIOUS
<1>1. /\ acts = [c \in Conn |-> [one |-> None, two |-> None, three |-> None]]
      /\ resp = [c \in Conn |-> None] /\ peerKeys = [c \in Conn |-> None]
      /\ pc = "idle" /\ sock \notin Conn /\ wire = <<>> /\ Len(wire) = 0
  BY DEF Init, NoSocket, Conn
<1>2. ActsOK
  BY <1>1 DEF ActsOK, ActsOf
<1> QED BY <1>1, <1>2 DEF AgreeInv, AtTwo, Quiet, Session

\* The sockets that are finished stay so when a call goes on, and when one
\* begins with an unused socket.
Onward ==
  /\ \A d \in Conn : net[d] # "unused" => net'[d] # "unused"
  /\ pc' # "idle" => \/ pc # "idle" /\ sock' = sock
                     \/ net[sock'] = "unused"

LEMMA StillFinished ==
  ASSUME Onward, NEW d \in Conn, Finished(d)
  PROVE  Finished(d)'
BY DEF Onward, Finished

\* Steps that send nothing and finish nothing.
LEMMA ActsStay ==
  ASSUME ActsOK, Onward, UNCHANGED <<acts, resp, peerKeys>>
  PROVE  ActsOK'
<1>1. ASSUME NEW c \in Conn PROVE ActsOf(c)'
  <2>1. ActsOf(c)
    BY DEF ActsOK
  <2>2. Finished(c) => Finished(c)'
    BY StillFinished
  <2> QED BY <2>1, <2>2 DEF ActsOf
<1> QED BY <1>1 DEF ActsOK

LEMMA QuietStays ==
  ASSUME Quiet, Onward, UNCHANGED wire, sock' \in Conn => net'[sock'] # "unused"
  PROVE  Quiet'
BY StillFinished DEF Quiet

LEMMA SessionStays ==
  ASSUME Session, UNCHANGED <<sock, tx, rx, wire>>,
         sock \in Conn => acts'[sock].three = acts[sock].three
  PROVE  Session'
<1>1. WrittenOn(sock)' = WrittenOn(sock)
  BY DEF WrittenOn
<1> QED BY <1>1 DEF Session, InStep, PeerRecv, PeerSend, PeerKeys

\* A call that begins is on a socket that nothing was sent on.
LEMMA SessionBegins ==
  ASSUME ActsOK, UNCHANGED acts, sock' \in Conn => net[sock'] = "unused"
  PROVE  Session'
<1>1. sock' \in Conn => ActsOf(sock')
  BY DEF ActsOK
<1> QED BY <1>1 DEF Session, ActsOf, Finished

\* Act one goes out, or the call fails.
LEMMA ActOneAgrees ==
  ASSUME KeyInv, AgreeInv, SendActOne
  PROVE  AgreeInv'
<1>1. /\ sock \in Conn /\ net[sock] # "unused"
      /\ UNCHANGED <<sock, tx, rx, net, resp, peerKeys, wire>> /\ pc = "act1"
      /\ pc' \in {"idle", "act2"} /\ hs' = AfterOne(sock)
  BY DEF SendActOne, KeyInv, SocketOK, TypeOK, Returns, Fails, AfterOne
<1>2. \/ acts' = [acts EXCEPT ![sock].one = ActOne(Dialling(sock))]
      \/ acts' = acts
  BY DEF SendActOne
<1>3. Onward
  BY <1>1 DEF Onward
<1>4. /\ DOMAIN acts' = Conn
      /\ \A c \in Conn : /\ DOMAIN acts'[c] = DOMAIN acts[c]
                         /\ acts'[c].one \in {acts[c].one, ActOne(Dialling(c))}
                         /\ acts'[c].two = acts[c].two /\ acts'[c].three = acts[c].three
  <2>1. DOMAIN acts = Conn /\ \A c \in Conn : DOMAIN acts[c] = {"one", "two", "three"}
    BY DEF AgreeInv, ActsOK, ActsOf
  <2> QED BY <1>1, <1>2, <2>1
<1>5. ActsOK'
  <2>1. ASSUME NEW c \in Conn PROVE ActsOf(c)'
    <3>1. ActsOf(c)
      BY DEF AgreeInv, ActsOK
    <3>2. Finished(c) => Finished(c)'
      BY <1>3, StillFinished
    <3> QED BY <1>1, <1>4, <3>1, <3>2 DEF ActsOf
  <2> QED BY <1>1, <1>4, <2>1 DEF AgreeInv, ActsOK
<1>6. Quiet'
  BY <1>1, <1>3, QuietStays DEF AgreeInv
<1>7. Session'
  BY <1>1, <1>4, SessionStays DEF AgreeInv
<1>8. AtTwo'
  BY <1>1 DEF AtTwo
<1> QED BY <1>5, <1>6, <1>7, <1>8 DEF AgreeInv

\* handshake_success, and act three goes out or the call fails.
LEMMA ActThreeAgrees ==
  ASSUME KeyInv, AgreeInv, ActTwoThree
  PROVE  AgreeInv'
<1> DEFINE two == acts[sock].two
           hs3 == AfterActTwo(ActTwoMix(hs, two), two)
<1>1. /\ sock \in Conn /\ net[sock] # "unused" /\ pc = "act2" /\ pc' = "idle"
      /\ UNCHANGED <<sock, net, resp, peerKeys, wire>>
  BY DEF ActTwoThree, KeyInv, SocketOK, TypeOK, Returns, Fails
<1>2. /\ two # None /\ ActTwoParses(two) /\ ActTwoOpens(ActTwoMix(hs, two), two)
      /\ hs' = AfterActThree(hs3, OwnKey)
      /\ tx' = SuccessSend(hs') /\ rx' = SuccessRecv(hs')
  BY Zenon DEF ActTwoThree
<1>3. \/ acts' = [acts EXCEPT ![sock].three = ActThree(hs3, OwnKey)]
      \/ acts' = acts
  BY Zenon DEF ActTwoThree
<1>4. hs = AfterOne(sock)
  BY <1>1 DEF AgreeInv, AtTwo
<1>5. resp[sock] = Answer(sock) /\ two = Answer(sock).act2
  <2>1. ActsOf(sock)
    BY <1>1 DEF AgreeInv, ActsOK
  <2>2. Passes(sock, two)
    BY <1>2, <1>4 DEF Passes
  <2> QED BY <1>2, <2>1, <2>2 DEF ActsOf
<1>6. hs3 = AfterTwo(sock)
  BY <1>4, <1>5 DEF AfterTwo
<1>7. hs' = Three(sock)
  BY <1>2, <1>6 DEF Three
<1> HIDE DEF hs3, two
<1>8. Onward /\ Finished(sock)'
  BY <1>1 DEF Onward, Finished
<1>9. /\ DOMAIN acts' = Conn
      /\ \A c \in Conn : /\ DOMAIN acts'[c] = DOMAIN acts[c]
                         /\ acts'[c].one = acts[c].one /\ acts'[c].two = acts[c].two
                         /\ \/ acts'[c].three = acts[c].three
                            \/ c = sock /\ acts'[c].three = ActThree(AfterTwo(sock), OwnKey)
  <2>1. DOMAIN acts = Conn /\ \A c \in Conn : DOMAIN acts[c] = {"one", "two", "three"}
    BY DEF AgreeInv, ActsOK, ActsOf
  <2> QED BY <1>1, <1>3, <1>6, <2>1
<1>10. ActsOK'
  <2>1. ASSUME NEW c \in Conn PROVE ActsOf(c)'
    <3>1. ActsOf(c)
      BY DEF AgreeInv, ActsOK
    <3>2. Finished(c) => Finished(c)'
      BY <1>8, StillFinished
    <3> QED BY <1>1, <1>5, <1>8, <1>9, <3>1, <3>2 DEF ActsOf
  <2> QED BY <1>1, <1>9, <2>1 DEF AgreeInv, ActsOK
<1>11. Quiet'
  BY <1>1, <1>8, QuietStays DEF AgreeInv
<1>12. Session'
  <2>1. WrittenOn(sock)' = {}
    <3>1. ~Finished(sock)
      BY <1>1 DEF Finished
    <3>2. \A i \in 1..Len(wire) : wire[i].sock # sock
      BY <1>1, <3>1 DEF AgreeInv, Quiet
    <3> QED BY <1>1, <3>2 DEF WrittenOn, KeyInv, WireOK
  <2>2. Cardinality(WrittenOn(sock)') = 2 * 0
    BY <2>1, FS_EmptySet
  <2>3. tx' = PeerRecv(sock) /\ rx' = PeerSend(sock)
    BY <1>2, <1>7, EndsAgree DEF PeerRecv, PeerSend
  <2>4. tx' = AfterMessages(PeerRecv(sock), 0)
    BY <2>3, NoMessages
  <2>5. InStep(sock)'
    <3>1. PeerRecv(sock)' = PeerRecv(sock) /\ PeerSend(sock)' = PeerSend(sock)
      BY <1>1 DEF PeerRecv, PeerSend, PeerKeys
    <3>2. 0 \in Nat /\ WrittenOn(sock)' = (WrittenOn(sock))'
      OBVIOUS
    <3> QED BY <2>2, <2>3, <2>4, <3>1, <3>2 DEF InStep
  <2> QED BY <2>5 DEF Session
<1>13. AtTwo'
  BY <1>1 DEF AtTwo
<1> QED BY <1>10, <1>11, <1>12, <1>13 DEF AgreeInv

\* A message more is written on the socket, and received.
LEMMA WriteAgrees ==
  ASSUME KeyInv, AgreeInv, Write
  PROVE  AgreeInv'
<1> DEFINE a == [sock |-> sock, k |-> tx.k, n |-> tx.n]
           b == [sock |-> sock, k |-> tx.k, n |-> tx.n + 1]
           L == Len(wire)
<1>1. /\ pc = "idle" /\ pc' = "idle" /\ tx' = AfterEncryptMsg(tx)
      /\ UNCHANGED <<sock, hs, rx, net, acts, resp, peerKeys>>
  BY DEF Write
<1>2. /\ wire' = [i \in 1..Len(wire') |-> wire'[i]]
      /\ Len(wire') = L + 2 /\ L \in Nat
      /\ \A i \in 1..L : wire'[i] = wire[i]
      /\ wire'[L + 1] = a /\ wire'[L + 2] = b
  BY AppendTwo DEF Write, KeyInv, WireOK
<1>3. a.sock = sock /\ b.sock = sock
  OBVIOUS
<1> HIDE DEF a, b
<1>4. DOMAIN wire = 1..L /\ DOMAIN wire' = 1..(L + 2)
  BY <1>2 DEF KeyInv, WireOK
<1> HIDE DEF L
<1>5. Onward
  BY <1>1 DEF Onward
<1>6. ActsOK'
  BY <1>1, <1>5, ActsStay DEF AgreeInv
<1>7. Quiet'
  <2>1. ASSUME NEW i \in 1..Len(wire'), NEW d \in Conn, wire'[i].sock = d
        PROVE  Finished(d)'
    <3>1. CASE i \in 1..L
      <4>1. wire[i].sock = d
        BY <1>2, <2>1, <3>1
      <4>2. Finished(d)
        BY <3>1, <4>1 DEF AgreeInv, Quiet, L
      <4> QED BY <1>5, <4>2, StillFinished
    <3>2. CASE i = L + 1 \/ i = L + 2
      <4>1. d = sock
        BY <1>2, <1>3, <2>1, <3>2
      <4>2. net[d] # "unused"
        BY <4>1 DEF AgreeInv, Quiet
      <4> QED BY <1>1, <4>2 DEF Finished
    <3> QED BY <1>2, <3>1, <3>2
  <2> QED BY <1>1, <2>1 DEF AgreeInv, Quiet
<1>8. Session'
  <2>1. SUFFICES ASSUME sock \in Conn, acts[sock].three # None PROVE InStep(sock)'
    BY <1>1 DEF Session
  <2>2. PICK n \in Nat : /\ Cardinality(WrittenOn(sock)) = 2 * n
                         /\ tx = AfterMessages(PeerRecv(sock), n)
    BY <2>1 DEF AgreeInv, Session, InStep
  <2>3. WrittenOn(sock)' = (WrittenOn(sock) \cup {L + 1}) \cup {L + 2}
    <3>1. WrittenOn(sock) = {i \in 1..L : wire[i].sock = sock}
      BY <1>4 DEF WrittenOn
    <3>2. WrittenOn(sock)' = {i \in 1..(L + 2) : wire'[i].sock = sock}
      BY <1>1, <1>4 DEF WrittenOn
    <3>3. ASSUME NEW i \in 1..(L + 2)
          PROVE  wire'[i].sock = sock <=>
                   (i \in 1..L /\ wire[i].sock = sock) \/ i = L + 1 \/ i = L + 2
      BY <1>2, <1>3
    <3> QED BY <1>2, <3>1, <3>2, <3>3
  <2>4. PICK S : S = WrittenOn(sock)
    OBVIOUS
  <2>5. IsFiniteSet(S) /\ L + 1 \notin S /\ L + 2 \notin S
    <3>1. S \subseteq 1..L
      BY <1>4, <2>4 DEF WrittenOn
    <3>2. IsFiniteSet(1..L)
      <4>1. 1 \in Int /\ L \in Int
        BY <1>2
      <4> QED BY <4>1, FS_Interval
    <3> QED BY <1>2, <3>1, <3>2, FS_Subset
  <2>6. IsFiniteSet(S \cup {L + 1}) /\ Cardinality(S \cup {L + 1}) = Cardinality(S) + 1
    BY <2>5, FS_AddElement
  <2>7. Cardinality((S \cup {L + 1}) \cup {L + 2}) = Cardinality(S \cup {L + 1}) + 1
    <3>1. L + 2 \notin S \cup {L + 1}
      BY <1>2, <2>5
    <3> QED BY <2>6, <3>1, FS_AddElement
  <2>8. Cardinality((S \cup {L + 1}) \cup {L + 2}) = 2 * (n + 1)
    BY <2>2, <2>4, <2>6, <2>7
  <2>9. tx' = AfterMessages(PeerRecv(sock), n + 1)
    <3>1. DOMAIN tx = {"n", "k", "ck"} /\ tx.n \in Nat
      BY DEF KeyInv, SocketOK, TypeOK
    <3> QED BY <1>1, <2>2, <3>1, OneMessageMore, SealsAreReceived
  <2>10. /\ PeerRecv(sock)' = PeerRecv(sock) /\ PeerSend(sock)' = PeerSend(sock)
    BY <1>1 DEF PeerRecv, PeerSend, PeerKeys
  <2>11. rx' = PeerSend(sock)
    BY <1>1, <2>1 DEF AgreeInv, Session, InStep
  <2>12. n + 1 \in Nat
    OBVIOUS
  <2> QED BY <2>3, <2>4, <2>8, <2>9, <2>10, <2>11, <2>12 DEF InStep
<1>9. AtTwo'
  BY <1>1 DEF AtTwo
<1> QED BY <1>6, <1>7, <1>8, <1>9 DEF AgreeInv

\* The node answers act one, another does, or the node takes act three.
LEMMA PeerAgrees ==
  ASSUME AgreeInv, NEW c \in Conn, RespondHonest(c) \/ RespondOther(c) \/ Finish(c)
  PROVE  AgreeInv'
<1>1. UNCHANGED <<sock, hs, tx, rx, pc, net, wire>>
  BY DEF RespondHonest, RespondOther, Finish, lnVars
<1>2. Onward
  BY <1>1 DEF Onward
<1>3. DOMAIN acts = Conn /\ DOMAIN resp = Conn /\ DOMAIN peerKeys = Conn
  BY DEF AgreeInv, ActsOK
<1>4. ActsOf(c)
  BY DEF AgreeInv, ActsOK
<1>5. CASE RespondHonest(c)
  <2>1. /\ acts[c].one # None
        /\ resp' = [resp EXCEPT ![c] = RespondTwo(NodeKey, acts[c].one, RespEphemeral(c))]
        /\ acts' = [acts EXCEPT ![c].two = RespondTwo(NodeKey, acts[c].one, RespEphemeral(c)).act2]
        /\ peerKeys' = peerKeys
    BY <1>5 DEF RespondHonest
  <2>2. RespondTwo(NodeKey, acts[c].one, RespEphemeral(c)) = Answer(c)
    BY <1>4, <2>1 DEF ActsOf, Answer
  <2>3. /\ DOMAIN acts' = Conn /\ DOMAIN resp' = Conn
        /\ \A d \in Conn : d # c => acts'[d] = acts[d] /\ resp'[d] = resp[d]
        /\ DOMAIN acts'[c] = DOMAIN acts[c] /\ acts'[c].one = acts[c].one
        /\ acts'[c].three = acts[c].three
        /\ acts'[c].two = Answer(c).act2 /\ resp'[c] = Answer(c)
    BY <1>3, <1>4, <2>1, <2>2 DEF ActsOf
  <2>4. ActsOK'
    <3>1. ASSUME NEW d \in Conn PROVE ActsOf(d)'
      <4>1. ActsOf(d) /\ (Finished(d) => Finished(d)')
        BY <1>2, StillFinished DEF AgreeInv, ActsOK
      <4>2. CASE d = c
        BY <2>1, <2>3, <4>1, <4>2 DEF ActsOf
      <4>3. CASE d # c
        BY <2>1, <2>3, <4>1, <4>3 DEF ActsOf
      <4> QED BY <4>2, <4>3
    <3> QED BY <1>3, <2>1, <2>3, <3>1 DEF ActsOK
  <2>5. sock \in Conn => acts'[sock].three = acts[sock].three
    BY <2>3
  <2> QED BY <1>1, <1>2, <2>4, <2>5, QuietStays, SessionStays DEF AgreeInv, AtTwo, Quiet
<1>6. CASE RespondOther(c)
  <2>1. PICK two \in {[v |-> 1, pubkey |-> OtherKey, tag |-> BadTag],
                      [v |-> 0, pubkey |-> NoKey, tag |-> BadTag],
                      RespondTwo(OtherKey, acts[c].one, RespEphemeral(c)).act2} :
            acts' = [acts EXCEPT ![c].two = two]
    BY <1>6 DEF RespondOther
  <2>2. ~Passes(c, two)
    BY <2>1, OthersRefused
  <2>3. resp' = resp /\ peerKeys' = peerKeys
    BY <1>6 DEF RespondOther
  <2>4. /\ DOMAIN acts' = Conn
        /\ \A d \in Conn : d # c => acts'[d] = acts[d]
        /\ DOMAIN acts'[c] = DOMAIN acts[c] /\ acts'[c].one = acts[c].one
        /\ acts'[c].three = acts[c].three /\ acts'[c].two = two
    BY <1>3, <1>4, <2>1 DEF ActsOf
  <2>5. ActsOK'
    <3>1. ASSUME NEW d \in Conn PROVE ActsOf(d)'
      <4>1. ActsOf(d) /\ (Finished(d) => Finished(d)')
        BY <1>2, StillFinished DEF AgreeInv, ActsOK
      <4>2. CASE d = c
        BY <2>2, <2>3, <2>4, <4>1, <4>2 DEF ActsOf
      <4>3. CASE d # c
        BY <2>3, <2>4, <4>1, <4>3 DEF ActsOf
      <4> QED BY <4>2, <4>3
    <3> QED BY <1>3, <2>3, <2>4, <3>1 DEF ActsOK
  <2>6. sock \in Conn => acts'[sock].three = acts[sock].three
    BY <2>4
  <2> QED BY <1>1, <1>2, <2>5, <2>6, QuietStays, SessionStays DEF AgreeInv, AtTwo, Quiet
<1>7. CASE Finish(c)
  <2>1. /\ resp[c] # None /\ resp' = resp /\ acts' = acts
        /\ peerKeys' = [peerKeys EXCEPT ![c] = ResponderKeys(resp[c], OwnKey)]
    BY <1>7 DEF Finish
  <2>2. ResponderKeys(resp[c], OwnKey) = PeerKeys(c)
    BY <1>4, <2>1 DEF ActsOf, PeerKeys
  <2>3. DOMAIN peerKeys' = Conn /\ \A d \in Conn : peerKeys'[d] \in {peerKeys[d], PeerKeys(d)}
    BY <1>3, <2>1, <2>2
  <2>4. ActsOK'
    <3>1. ASSUME NEW d \in Conn PROVE ActsOf(d)'
      <4>1. ActsOf(d) /\ (Finished(d) => Finished(d)')
        BY <1>2, StillFinished DEF AgreeInv, ActsOK
      <4> QED BY <2>1, <2>3, <4>1 DEF ActsOf
    <3> QED BY <1>3, <2>1, <2>3, <3>1 DEF ActsOK
  <2> QED BY <1>1, <1>2, <2>1, <2>4, QuietStays, SessionStays DEF AgreeInv, AtTwo, Quiet
<1> QED BY <1>5, <1>6, <1>7

LEMMA AgreeStep == KeyInv /\ AgreeInv /\ [Next]_vars => AgreeInv'
<1> SUFFICES ASSUME KeyInv, AgreeInv, [Next]_vars PROVE AgreeInv'
  OBVIOUS
<1> USE DEF lnVars, netVars, Returns, Fails
<1>n. /\ net \in [Conn -> {"unused", "syn", "up", "dead"}] /\ NoSocket \notin Conn /\ BadSocket \notin Conn
      /\ pc # "idle" => net[sock] # "unused"
  BY DEF KeyInv, SocketOK, TypeOK, Conn, NoSocket, BadSocket
<1>1. CASE \/ SetKey \/ ConnectRefused \/ SelectReturns \/ SelectFails
           \/ TorGreet \/ TorReply \/ ActTwoReadFails \/ ActTwoRefused
  <2>1. UNCHANGED <<sock, tx, rx, net, acts, resp, peerKeys, wire>>
    BY <1>1 DEF SetKey, ConnectRefused, SelectReturns, SelectFails,
                TorGreet, TorReply, ActTwoReadFails, ActTwoRefused
  <2>2. pc' # "act2" /\ (pc' # "idle" => pc # "idle")
    BY <1>1 DEF SetKey, ConnectRefused, SelectReturns, SelectFails,
                TorGreet, TorReply, ActTwoReadFails, ActTwoRefused
  <2>3. Onward
    BY <2>1, <2>2 DEF Onward
  <2> QED BY <2>1, <2>2, <2>3, ActsStay, QuietStays, SessionStays DEF AgreeInv, AtTwo, Quiet
<1>2. CASE ConnectNoSocket
  <2>1. UNCHANGED <<net, acts, resp, peerKeys, wire>> /\ sock' \notin Conn /\ pc' = "idle"
    BY <1>2, <1>n DEF ConnectNoSocket
  <2>2. Onward
    BY <2>1 DEF Onward
  <2> QED BY <2>1, <2>2, ActsStay, QuietStays, SessionBegins DEF AgreeInv, AtTwo
<1>3. ASSUME ConnectNoHost \/ \E proxy \in BOOLEAN : ConnectCall(proxy)
      PROVE  AgreeInv'
  <2>1. /\ UNCHANGED <<acts, resp, peerKeys, wire>> /\ sock' = NextConn
        /\ pc' \in {"idle", "select"} /\ Unused # {}
        /\ \E s \in {"syn", "up", "dead"} : net' = [net EXCEPT ![NextConn] = s]
    BY <1>3 DEF ConnectNoHost, ConnectCall
  <2>2. NextConn \in Conn /\ net[NextConn] = "unused"
    BY <2>1, NextConnUnused
  <2>3. /\ net'[NextConn] # "unused"
        /\ \A d \in Conn : net[d] # "unused" => net'[d] # "unused"
    BY <1>n, <2>1, <2>2
  <2>4. Onward
    BY <2>1, <2>2, <2>3 DEF Onward
  <2> QED BY <2>1, <2>2, <2>3, <2>4, ActsStay, QuietStays, SessionBegins DEF AgreeInv, AtTwo
<1>4. CASE SendActOne
  BY <1>4, ActOneAgrees
<1>5. CASE ActTwoThree
  BY <1>5, ActThreeAgrees
<1>6. CASE Write
  BY <1>6, WriteAgrees
<1>7. ASSUME NEW c \in Conn, NetSettles(c) \/ NetBreaks(c) PROVE AgreeInv'
  <2>1. /\ UNCHANGED <<hs, pc, sock, tx, rx, acts, resp, peerKeys, wire>>
        /\ \E s \in {"up", "dead"} : net' = [net EXCEPT ![c] = s]
    BY <1>7 DEF NetSettles, NetBreaks
  <2>2. \A d \in Conn : net[d] # "unused" => net'[d] # "unused"
    BY <1>n, <2>1
  <2>3. Onward
    BY <2>1, <2>2 DEF Onward
  <2> QED BY <2>1, <2>2, <2>3, ActsStay, QuietStays, SessionStays DEF AgreeInv, AtTwo, AfterOne, Quiet
<1>8. ASSUME NEW c \in Conn, RespondHonest(c) \/ RespondOther(c) \/ Finish(c) PROVE AgreeInv'
  BY <1>8, PeerAgrees
<1>9. CASE UNCHANGED vars
  <2>1. UNCHANGED <<hs, pc, sock, tx, rx, net, acts, resp, peerKeys, wire>>
    BY <1>9 DEF vars
  <2>2. Onward
    BY <2>1 DEF Onward
  <2> QED BY <2>1, <2>2, ActsStay, QuietStays, SessionStays DEF AgreeInv, AtTwo, Quiet
<1> QED BY <1>1, <1>2, <1>3, <1>4, <1>5, <1>6, <1>7, <1>8, <1>9 DEF Next, Client

\* A finished handshake means that the node whose key was dialled answered on
\* this socket, that it accepts act three, and that the two ends hold the same
\* keys and stay in step over any number of messages and rotations: act one,
\* two and three of handshake.c against the responder of BOLT #8, whatever
\* another node answers and whatever the struct went through before.
THEOREM SessionsAgree == Spec => []SessionAgrees
<1>1. KeyInv /\ AgreeInv => SessionAgrees
  <2> SUFFICES ASSUME KeyInv, AgreeInv, sock \in Conn, acts[sock].three # None
               PROVE  /\ resp[sock] # None
                      /\ AcceptsThree(resp[sock], acts[sock].three, OwnKey)
                      /\ LET peer == ResponderKeys(resp[sock], OwnKey)
                         IN  /\ tx = AfterMessages([n |-> 0, k |-> peer.recv, ck |-> peer.ck],
                                                   Cardinality(WrittenOn(sock)) \div 2)
                             /\ rx = [n |-> 0, k |-> peer.send, ck |-> peer.ck]
                             /\ peerKeys[sock] \in {None, peer}
    BY DEF SessionAgrees
  <2>1. /\ acts[sock].three = ActThree(AfterTwo(sock), OwnKey) /\ resp[sock] = Answer(sock)
        /\ peerKeys[sock] \in {None, PeerKeys(sock)}
    BY DEF AgreeInv, ActsOK, ActsOf
  <2>2. resp[sock] # None
    BY <2>1, NoneAssumption
  <2>3. AcceptsThree(resp[sock], acts[sock].three, OwnKey)
    BY <2>1, EndsAgree
  <2>4. ResponderKeys(resp[sock], OwnKey) = PeerKeys(sock)
    BY <2>1 DEF PeerKeys
  <2>5. PICK n \in Nat : /\ Cardinality(WrittenOn(sock)) = 2 * n
                         /\ tx = AfterMessages(PeerRecv(sock), n)
    BY DEF AgreeInv, Session, InStep
  <2>6. Cardinality(WrittenOn(sock)) \div 2 = n
    BY <2>5
  <2>7. rx = PeerSend(sock)
    BY DEF AgreeInv, Session, InStep
  <2> QED BY <2>1, <2>2, <2>3, <2>4, <2>5, <2>6, <2>7 DEF PeerRecv, PeerSend
<1> QED BY <1>1, SocketInit, SocketStep, KeyInit, KeyStep, AgreeInit, AgreeStep, PTL DEF Spec, KeyInv
=============================================================================
