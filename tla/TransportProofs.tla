-------------------------- MODULE TransportProofs --------------------------
(***************************************************************************)
(* Theorems about Transport, for every value of its constants that meets   *)
(* its assumptions: any tag, length and buffer size, any even rotation     *)
(* period, any set of messages and any bounds.  Among them: each of its    *)
(* two directions is a fail-stop FIFO channel (MessageChannel), whatever   *)
(* the chunks of read(), the cuts of write(), the bytes lost when the      *)
(* connection ends and the calls made after a failure; and what            *)
(* lnsocket_read returns, when it may fail, and that no message is         *)
(* returned after a failure, although nothing in the code remembers one.   *)
(***************************************************************************)
EXTENDS Transport, CryptoProofs

-----------------------------------------------------------------------------
(* Lemmas about units and halves *)

LEMMA UnitsGrow ==
  ASSUME NEW s, UnitsOK(s), NEW a, UnitOK(a), NEW b, UnitOK(b)
  PROVE  UnitsOK(s \o <<a, b>>)
<1> DEFINE t == s \o <<a, b>>
<1>1. /\ t = [i \in 1..Len(t) |-> t[i]]
      /\ Len(t) = Len(s) + 2
      /\ \A i \in 1..Len(s) : t[i] = s[i]
      /\ t[Len(s) + 1] = a
      /\ t[Len(s) + 2] = b
  BY AppendTwo DEF UnitsOK
<1>2. \A i \in 1..Len(t) : UnitOK(t[i])
  <2>1. SUFFICES ASSUME NEW i \in 1..Len(t) PROVE UnitOK(t[i])
    OBVIOUS
  <2>2. i \in 1..Len(s) \/ i = Len(s) + 1 \/ i = Len(s) + 2
    BY <1>1 DEF UnitsOK
  <2> QED BY <1>1, <2>2 DEF UnitsOK
<1>3. Len(t) \in Nat
  BY <1>1 DEF UnitsOK
<1> HIDE DEF t
<1>4. UnitsOK(t)
  BY <1>1, <1>2, <1>3 DEF UnitsOK
<1> QED BY <1>4 DEF t

LEMMA UnitIsOK ==
  ASSUME NEW at \in Nat, NEW sz \in Nat, NEW k, k.gen \in Nat, NEW n \in Nat,
         NEW head \in BOOLEAN, NEW len \in Nat, NEW plain \in Msg \cup {NotMsg},
         NEW whole \in BOOLEAN
  PROVE  UnitOK(Unit(at, sz, k, n, head, len, plain, whole))
BY DEF UnitOK, Unit

\* What cryptomsg_encrypt_msg does to the sending half.
LEMMA EncryptKeeps ==
  ASSUME NEW h, HalfOK(h)
  PROVE  HalfOK(AfterEncryptMsg(h))
BY DEF HalfOK, AfterEncryptMsg, MaybeRotateKey, HkdfTwoKeys

LEMMA DecryptKeeps ==
  ASSUME NEW h, HalfOK(h), NEW opened \in BOOLEAN
  PROVE  HalfOK(AfterDecryptHeader(h)) /\ HalfOK(AfterDecryptBody(h, opened))
BY DEF HalfOK, AfterDecryptHeader, AfterDecryptBody, MaybeRotateKey, HkdfTwoKeys

LEMMA PeerStepKeeps ==
  ASSUME NEW h, HalfOK(h)
  PROVE  HalfOK(PeerStep(h))
BY DEF HalfOK, PeerStep, HkdfTwoKeys

LEMMA HandshakeOK == HalfOK(HandshakeSend) /\ HalfOK(HandshakeRecv)
BY DEF HalfOK, HandshakeSend, HandshakeRecv, HandshakeKeys, HkdfTwoKeys, Root

\* What opens is a unit of the stream.
LEMMA OpensIsUnit ==
  ASSUME NEW s, UnitsOK(s), NEW h, NEW at, NEW sz, NEW u \in Opens(h, at, sz, s)
  PROVE  UnitOK(u)
<1>1. PICK i \in DOMAIN s : u = s[i]
  BY DEF Opens
<1>2. DOMAIN s = 1..Len(s)
  BY DEF UnitsOK
<1> QED BY <1>1, <1>2 DEF UnitsOK

-----------------------------------------------------------------------------
(* Type correctness *)

\* The sealed units of a write, and the half that sealed them, are well typed.
LEMMA WriteTypes ==
  ASSUME TypeOK, NEW len \in Nat, NEW plain \in Msg \cup {NotMsg},
         WriteSealed(len, plain)
  PROVE  HalfOK(tx') /\ UnitsOK(out') /\ outLen' \in Nat
<1>1. PICK wrote \in Cuts \cup {FrameSize(len)} :
        /\ out' = out \o EncryptMsg(tx, outLen, len, plain, NotMsg, wrote)
        /\ outLen' = outLen + wrote
        /\ tx' = AfterEncryptMsg(tx)
  BY DEF WriteSealed
<1>2. /\ wrote \in Nat /\ outLen \in Nat /\ HdrSize \in Nat
      /\ BodySize(len) \in Nat /\ FrameSize(len) \in Nat
      /\ tx.n \in Nat /\ tx.k.gen \in Nat
  BY <1>1, Sizes, BoundAssumption DEF TypeOK, HalfOK
<1>3. HalfOK(tx')
  BY <1>1, EncryptKeeps DEF TypeOK
<1> DEFINE a == Unit(outLen, HdrSize, tx.k, tx.n, TRUE, len, NotMsg, wrote >= HdrSize)
           b == Unit(outLen + HdrSize, BodySize(len), tx.k, tx.n + 1, FALSE, len,
                     plain, wrote >= FrameSize(len))
<1>4. UnitOK(a)
  <2>1. (wrote >= HdrSize) \in BOOLEAN /\ NotMsg \in Msg \cup {NotMsg}
    OBVIOUS
  <2> QED BY <1>2, <2>1, UnitIsOK, Zenon
<1>5. UnitOK(b)
  <2>1. outLen + HdrSize \in Nat /\ tx.n + 1 \in Nat
    BY <1>2
  <2>2. (wrote >= FrameSize(len)) \in BOOLEAN
    OBVIOUS
  <2> QED BY <1>2, <2>1, <2>2, UnitIsOK, Zenon
<1>6. out' = out \o <<a, b>>
  BY <1>1 DEF EncryptMsg
<1> HIDE DEF a, b
<1>7. UnitsOK(out')
  BY <1>4, <1>5, <1>6, UnitsGrow DEF TypeOK
<1> QED BY <1>1, <1>2, <1>3, <1>7

LEMMA TypeInit == Init => TypeOK
<1> SUFFICES ASSUME Init PROVE TypeOK
  OBVIOUS
<1>1. HalfOK(rx) /\ HalfOK(tx) /\ HalfOK(ptx) /\ HalfOK(prx)
  BY HandshakeOK DEF Init
<1>2. UnitsOK(<<>>)
  BY DEF UnitsOK
<1>3. UnitsOK(inb) /\ UnitsOK(out)
  BY <1>2, Zenon DEF Init
<1>4. failed \in BOOLEAN /\ closed \in BOOLEAN
  BY DEF Init
<1>5. got \in Seq(Msg \cup {NotMsg}) /\ handed \in Seq(Msg) /\ peerGot \in Seq(Msg \cup {NotMsg})
  BY DEF Init
<1>6. /\ pc \in {"idle", "hdr", "body"} /\ want \in Nat /\ size \in Nat
      /\ inLen \in Nat /\ pos \in Nat /\ pos <= inLen /\ outLen \in Nat /\ outPos \in Nat
  BY DEF Init
<1> QED BY <1>1, <1>3, <1>4, <1>5, <1>6, Zenon DEF TypeOK

LEMMA TypeReadFails ==
  ASSUME ReadFails
  PROVE  /\ pc' \in {"idle", "hdr", "body"} /\ want' \in Nat /\ size' \in Nat
         /\ failed' \in BOOLEAN
BY DEF ReadFails

LEMMA TypeStep == TypeOK /\ [Next]_vars => TypeOK'
<1> SUFFICES ASSUME TypeOK, [Next]_vars PROVE TypeOK'
  OBVIOUS
<1> USE DEF clientVars, inVars, outVars, peerVars
<1>1. CASE ReadCall
  BY <1>1, Sizes DEF ReadCall, TypeOK
<1>2. CASE ReadPart
  <2>1. PICK done \in Chunks \cup {inLen - pos} :
          /\ done < want /\ done <= inLen - pos
          /\ pos' = pos + done /\ want' = want - done
    BY <1>2 DEF ReadPart
  <2>2. done \in Nat
    BY <1>2, <2>1, BoundAssumption DEF ReadPart, TypeOK
  <2>3. pos' \in Nat /\ pos' <= inLen /\ want' \in Nat
    BY <2>1, <2>2 DEF TypeOK
  <2> QED BY <1>2, <2>3 DEF ReadPart, TypeOK
<1>3. CASE ReadHeader
  <2>1. pos' \in Nat /\ pos' <= inLen /\ HalfOK(rx')
    BY <1>3, DecryptKeeps DEF ReadHeader, TypeOK
  <2>2. /\ pc' \in {"idle", "hdr", "body"} /\ want' \in Nat /\ size' \in Nat
        /\ failed' \in BOOLEAN
    <3> DEFINE hits == Opens(rx, pos' - HdrSize, HdrSize, inb)
    <3>1. CASE ReadFails
      BY <3>1, TypeReadFails
    <3>2. CASE ~ReadFails
      <4>1. PICK u \in hits : \E len \in LengthsIn(u) :
              pc' = "body" /\ size' = len /\ want' = BodySize(len) /\ UNCHANGED failed
        BY <1>3, <3>2 DEF ReadHeader
      <4>2. PICK len \in LengthsIn(u) :
              pc' = "body" /\ size' = len /\ want' = BodySize(len) /\ UNCHANGED failed
        BY <4>1
      <4>3. len \in Nat
        BY OpensIsUnit, MsgAssumption DEF LengthsIn, TypeOK, UnitOK
      <4> QED BY <4>2, <4>3, Sizes DEF TypeOK
    <3> QED BY <3>1, <3>2
  <2> QED BY <1>3, <2>1, <2>2 DEF ReadHeader, TypeOK
<1>4. CASE ReadBody
  <2> DEFINE hits == Opens(rx, pos' - BodySize(size), BodySize(size), inb)
  <2>1. pos' \in Nat /\ pos' <= inLen
    BY <1>4 DEF ReadBody, TypeOK
  <2>2. HalfOK(rx')
    BY <1>4, DecryptKeeps DEF ReadBody, TypeOK
  <2>3. /\ pc' \in {"idle", "hdr", "body"} /\ want' \in Nat /\ size' \in Nat
        /\ failed' \in BOOLEAN /\ got' \in Seq(Msg \cup {NotMsg})
    <3>1. CASE ReadFails /\ UNCHANGED got
      BY <3>1, TypeReadFails DEF TypeOK
    <3>2. CASE ~(ReadFails /\ UNCHANGED got)
      <4>1. PICK u \in hits : /\ got' = Append(got, u.plain)
                              /\ pc' = "idle" /\ want' = 0 /\ size' = 0
                              /\ UNCHANGED failed
        BY <1>4, <3>2 DEF ReadBody
      <4>2. u.plain \in Msg \cup {NotMsg}
        BY OpensIsUnit DEF TypeOK, UnitOK
      <4> QED BY <4>1, <4>2 DEF TypeOK
    <3> QED BY <3>1, <3>2
  <2> QED BY <1>4, <2>1, <2>2, <2>3 DEF ReadBody, TypeOK
<1>5. CASE ReadEof
  BY <1>5, TypeReadFails DEF ReadEof, TypeOK
<1>6. ASSUME NEW m \in WriteMsgs, Write(m) PROVE TypeOK'
  <2>1. m \in Msg /\ MsgLen[m] \in Nat
    BY MsgAssumption
  <2>2. HalfOK(tx') /\ UnitsOK(out') /\ outLen' \in Nat
    BY <1>6, <2>1, WriteTypes DEF Write
  <2> QED BY <1>6, <2>1, <2>2 DEF Write, TypeOK
<1>7. ASSUME NEW m \in SendMsgs, Send(m) PROVE TypeOK'
  <2>1. m \in Msg /\ MsgLen[m] % LenMod \in Nat
    BY MsgAssumption, BufAssumption
  <2>2. HalfOK(tx') /\ UnitsOK(out') /\ outLen' \in Nat
    BY <1>7, <2>1, WriteTypes DEF Send
  <2> QED BY <1>7, <2>1, <2>2 DEF Send, TypeOK
<1>8. ASSUME NEW m \in PeerMsgs, PeerSend(m) PROVE TypeOK'
  <2> DEFINE len == MsgLen[m]
             ptx1 == PeerStep(ptx)
             a == Unit(inLen, HdrSize, ptx.k, ptx.n, TRUE, len, NotMsg, TRUE)
             b == Unit(inLen + HdrSize, BodySize(len), ptx1.k, ptx1.n, FALSE,
                       len, m, TRUE)
  <2>1. m \in Msg /\ len \in Nat
    BY MsgAssumption
  <2>2. HalfOK(ptx1) /\ HalfOK(PeerStep(ptx1))
    BY PeerStepKeeps DEF TypeOK
  <2>3. UnitOK(a) /\ UnitOK(b)
    <3>1. /\ ptx.n \in Nat /\ ptx.k.gen \in Nat /\ ptx1.n \in Nat
          /\ ptx1.k.gen \in Nat /\ inLen \in Nat
      BY <2>2 DEF TypeOK, HalfOK
    <3>2. HdrSize \in Nat /\ BodySize(len) \in Nat /\ inLen + HdrSize \in Nat
      BY <2>1, <3>1, Sizes
    <3>3. UnitOK(a)
      BY <2>1, <3>1, <3>2, UnitIsOK
    <3>4. UnitOK(b)
      BY <2>1, <3>1, <3>2, UnitIsOK
    <3> QED BY <3>3, <3>4
  <2>4. inb' = inb \o <<a, b>> /\ inLen' = inLen + FrameSize(len)
        /\ ptx' = PeerStep(ptx1)
    BY <1>8 DEF PeerSend
  <2>5. inLen' \in Nat /\ pos <= inLen'
    <3>1. FrameSize(len) \in Nat
      BY <2>1, Sizes, Zenon
    <3> HIDE DEF len
    <3> QED BY <2>4, <3>1 DEF TypeOK
  <2> HIDE DEF a, b, ptx1
  <2>6. UnitsOK(inb')
    BY <2>3, <2>4, UnitsGrow DEF TypeOK
  <2>7. HalfOK(ptx')
    BY <2>2, <2>4, Zenon
  <2>8. UNCHANGED <<clientVars, pos, closed, outVars, prx, peerGot>>
    BY <1>8, Zenon DEF PeerSend
  <2> QED BY <2>5, <2>6, <2>7, <2>8 DEF TypeOK
<1>9. ASSUME HangUp, UNCHANGED <<clientVars, outVars, peerVars>> PROVE TypeOK'
  <2>1. inLen' \in Nat /\ pos <= inLen'
    BY <1>9, BoundAssumption DEF HangUp, TypeOK
  <2> QED BY <1>9, <2>1 DEF HangUp, TypeOK
<1>10. CASE PeerHangUp
  BY <1>9, <1>10 DEF PeerHangUp
<1>11. CASE PeerReceive
  <2>1. PICK h \in PeerHeaders : \E b \in PeerBodies(h.len) :
          /\ peerGot' = Append(peerGot, b.plain)
          /\ outPos' = outPos + FrameSize(h.len)
          /\ prx' = PeerStep(PeerStep(prx))
    BY <1>11 DEF PeerReceive
  <2>5. PICK b \in PeerBodies(h.len) :
          /\ peerGot' = Append(peerGot, b.plain)
          /\ outPos' = outPos + FrameSize(h.len)
          /\ prx' = PeerStep(PeerStep(prx))
    BY <2>1
  <2>2. h.len \in Nat /\ b.plain \in Msg \cup {NotMsg}
    BY OpensIsUnit DEF PeerHeaders, PeerBodies, TypeOK, UnitOK
  <2>3. peerGot' \in Seq(Msg \cup {NotMsg}) /\ outPos' \in Nat
    <3>1. peerGot \in Seq(Msg \cup {NotMsg}) /\ outPos \in Nat
      BY DEF TypeOK
    <3>2. FrameSize(h.len) \in Nat
      BY <2>2, Sizes
    <3> QED BY <2>5, <2>2, <3>1, <3>2
  <2>4. HalfOK(prx')
    BY <2>1, PeerStepKeeps DEF TypeOK
  <2> QED BY <1>11, <2>3, <2>4 DEF PeerReceive, TypeOK
<1>12. CASE PeerReject
  BY <1>9, <1>12 DEF PeerReject
<1>13. CASE UNCHANGED vars
  BY <1>13 DEF vars, TypeOK
<1> QED BY <1>1, <1>2, <1>3, <1>4, <1>5, <1>6, <1>7, <1>8, <1>10, <1>11, <1>12,
           <1>13 DEF Next, Reading

\* In every reachable state the variables have their types: no call, however
\* it fails, leaves a half of the crypto state or a stream malformed.
THEOREM TypeCorrect == Spec => []TypeOK
BY TypeInit, TypeStep, PTL DEF Spec

-----------------------------------------------------------------------------
(* No nonce is used twice *)

\* What makes NonceNeverReused inductive: every key used so far is of an
\* earlier generation than the key to send with, or is that key and was used
\* with smaller nonces only.
NoncesSpent ==
  \A i \in 1..Len(out) :
    /\ out[i].k.gen <= tx.k.gen
    /\ out[i].k = tx.k => out[i].n < tx.n

\* NonceNeverReused, over the range of indices that TypeOK gives the stream.
NoncesApart ==
  \A i, j \in 1..Len(out) : out[i].k = out[j].k /\ out[i].n = out[j].n => i = j

NonceInv == TypeOK /\ NoncesSpent /\ NoncesApart

\* After a message is sealed the sending key is the same and its nonce two
\* higher, or it is of a later generation.
LEMMA EncryptAdvances ==
  ASSUME NEW h, HalfOK(h)
  PROVE  LET h1 == AfterEncryptMsg(h)
         IN  \/ h1.k = h.k /\ h1.n = h.n + 2
             \/ h1.k.gen = h.k.gen + 1
BY DEF HalfOK, AfterEncryptMsg, MaybeRotateKey, HkdfTwoKeys

\* One write keeps the nonces apart, whether write() took all of it or not.
LEMMA WriteNonces ==
  ASSUME NonceInv, NEW len \in Nat, NEW plain, WriteSealed(len, plain)
  PROVE  NoncesSpent' /\ NoncesApart'
<1>1. PICK wrote \in Cuts \cup {FrameSize(len)} :
        /\ out' = out \o EncryptMsg(tx, outLen, len, plain, NotMsg, wrote)
        /\ tx' = AfterEncryptMsg(tx)
  BY DEF WriteSealed
<1> DEFINE a == EncryptMsg(tx, outLen, len, plain, NotMsg, wrote)[1]
           b == EncryptMsg(tx, outLen, len, plain, NotMsg, wrote)[2]
<1>2. /\ out' = out \o <<a, b>>
      /\ a.k = tx.k /\ a.n = tx.n /\ b.k = tx.k /\ b.n = tx.n + 1
  BY <1>1 DEF EncryptMsg, Unit
<1> HIDE DEF a, b
<1>3. /\ Len(out) \in Nat /\ Len(out') = Len(out) + 2
      /\ \A i \in 1..Len(out) : out'[i] = out[i]
      /\ out'[Len(out) + 1] = a /\ out'[Len(out) + 2] = b
  BY <1>2, AppendTwo DEF NonceInv, TypeOK, UnitsOK
<1>4. tx.n \in Nat /\ tx.k.gen \in Nat
  BY DEF NonceInv, TypeOK, HalfOK
<1>5. \A i \in 1..Len(out) : out[i].n \in Nat /\ out[i].k.gen \in Nat
  BY DEF NonceInv, TypeOK, UnitsOK, UnitOK
<1>6. \A i \in 1..Len(out') :
        \/ i \in 1..Len(out) /\ out'[i] = out[i]
        \/ i = Len(out) + 1 /\ out'[i] = a
        \/ i = Len(out) + 2 /\ out'[i] = b
  BY <1>3
<1>7. \A i \in 1..Len(out) : out[i].k = tx.k => out[i].n < tx.n
  BY DEF NonceInv, NoncesSpent
<1>8. NoncesApart'
  <2>1. SUFFICES ASSUME NEW i \in 1..Len(out'), NEW j \in 1..Len(out'),
                        out'[i].k = out'[j].k, out'[i].n = out'[j].n
                 PROVE  i = j
    BY DEF NoncesApart
  <2>2. CASE i \in 1..Len(out) /\ j \in 1..Len(out)
    BY <1>3, <2>1, <2>2 DEF NonceInv, NoncesApart
  <2>3. CASE i \in 1..Len(out) /\ j \notin 1..Len(out)
    BY <1>2, <1>3, <1>4, <1>5, <1>6, <1>7, <2>1, <2>3
  <2>4. CASE i \notin 1..Len(out) /\ j \in 1..Len(out)
    BY <1>2, <1>3, <1>4, <1>5, <1>6, <1>7, <2>1, <2>4
  <2>5. CASE i \notin 1..Len(out) /\ j \notin 1..Len(out)
    BY <1>2, <1>3, <1>4, <1>6, <2>1, <2>5
  <2> QED BY <2>2, <2>3, <2>4, <2>5
<1>9. NoncesSpent'
  <2>1. SUFFICES ASSUME NEW i \in 1..Len(out')
                 PROVE  out'[i].k.gen <= tx'.k.gen /\ (out'[i].k = tx'.k => out'[i].n < tx'.n)
    BY DEF NoncesSpent
  <2>2. \/ tx'.k = tx.k /\ tx'.n = tx.n + 2
        \/ tx'.k.gen = tx.k.gen + 1
    BY <1>1, EncryptAdvances DEF NonceInv, TypeOK
  <2>3. /\ out'[i].k.gen \in Nat /\ out'[i].n \in Nat /\ out'[i].k.gen <= tx.k.gen
        /\ out'[i].k = tx.k => out'[i].n < tx.n + 2
    <3>1. CASE i \in 1..Len(out)
      <4>1. out'[i] = out[i] /\ out[i].n \in Nat /\ out[i].k.gen \in Nat
        BY <1>3, <1>5, <3>1
      <4>2. out[i].k.gen <= tx.k.gen /\ (out[i].k = tx.k => out[i].n < tx.n)
        BY <3>1 DEF NonceInv, NoncesSpent
      <4> QED BY <1>4, <4>1, <4>2
    <3>2. CASE i \notin 1..Len(out)
      <4>1. out'[i] = a \/ out'[i] = b
        BY <1>6, <3>2
      <4>2. a.k = tx.k /\ a.n = tx.n /\ b.k = tx.k /\ b.n = tx.n + 1
        BY <1>2
      <4> QED BY <1>4, <4>1, <4>2
    <3> QED BY <3>1, <3>2
  <2>4. CASE tx'.k = tx.k /\ tx'.n = tx.n + 2
    BY <1>4, <2>3, <2>4
  <2>5. CASE tx'.k.gen = tx.k.gen + 1
    BY <1>4, <2>3, <2>5
  <2> QED BY <2>2, <2>4, <2>5
<1> QED BY <1>8, <1>9

LEMMA NonceStep == NonceInv /\ [Next]_vars => NonceInv'
<1> SUFFICES ASSUME NonceInv, [Next]_vars PROVE NonceInv'
  OBVIOUS
<1>1. TypeOK'
  BY TypeStep DEF NonceInv
<1>2. ASSUME UNCHANGED <<out, tx>> PROVE NonceInv'
  BY <1>1, <1>2 DEF NonceInv, NoncesSpent, NoncesApart
<1>3. ASSUME NEW m \in WriteMsgs, Write(m) PROVE NonceInv'
  <2>1. MsgLen[m] \in Nat
    BY MsgAssumption
  <2> QED BY <1>1, <1>3, <2>1, WriteNonces DEF NonceInv, Write
<1>4. ASSUME NEW m \in SendMsgs, Send(m) PROVE NonceInv'
  <2>1. MsgLen[m] % LenMod \in Nat
    BY MsgAssumption, BufAssumption
  <2> QED BY <1>1, <1>4, <2>1, WriteNonces DEF NonceInv, Send
<1>5. CASE ReadCall \/ Reading
  BY <1>2, <1>5 DEF ReadCall, Reading, ReadPart, ReadHeader, ReadBody, ReadEof, outVars
<1>6. ASSUME NEW m \in PeerMsgs, PeerSend(m) PROVE NonceInv'
  BY <1>2, <1>6 DEF PeerSend, clientVars, outVars
<1>7. CASE PeerHangUp \/ PeerReceive \/ PeerReject
  BY <1>2, <1>7 DEF PeerHangUp, PeerReceive, PeerReject, clientVars, outVars
<1>8. CASE UNCHANGED vars
  BY <1>2, <1>8 DEF vars, clientVars, outVars
<1> QED BY <1>3, <1>4, <1>5, <1>6, <1>7, <1>8 DEF Next

\* However many messages the caller writes, of whatever lengths, and whichever
\* of the writes fail half way, cryptomsg_encrypt_msg never seals two units
\* with the same key and nonce.
THEOREM NoncesUnique == Spec => []NonceNeverReused
<1>1. Init => NonceInv
  <2>1. Init => Len(out) = 0
    BY DEF Init
  <2> QED BY <2>1, TypeInit DEF NonceInv, NoncesSpent, NoncesApart
<1>2. NonceInv => NonceNeverReused
  <2> SUFFICES ASSUME NonceInv PROVE NonceNeverReused
    OBVIOUS
  <2>1. DOMAIN out = 1..Len(out)
    BY DEF NonceInv, TypeOK, UnitsOK
  <2> QED BY <2>1 DEF NonceInv, NoncesApart, NonceNeverReused
<1> QED BY <1>1, <1>2, NonceStep, PTL DEF Spec

-----------------------------------------------------------------------------
(* The key schedule *)

\* Half h is d units after half g, as far as the keys and nonces tell.
Apart(g, h, d) == g.k.gen < h.k.gen \/ (g.k = h.k /\ h.n = g.n + d)

\* hs lists the halves that sealed the units of a stream, one after the
\* other, and the half that seals the next: the key schedule as it went.
Track(hs, s, h) ==
  /\ Len(s) % 2 = 0 /\ hs[Len(s) + 1] = h
  /\ \A i \in 1..(Len(s) + 1) : HalfOK(hs[i]) /\ hs[i].n < RotateAt
  /\ \A i \in 1..Len(s) : /\ s[i].k = hs[i].k /\ s[i].n = hs[i].n
                          /\ hs[i + 1] = PeerStep(hs[i])
  /\ \A i \in 1..(Len(s) + 1) : i % 2 = 1 => hs[i].n % 2 = 0
  /\ \A i, j \in 1..(Len(s) + 1) : i < j => Apart(hs[i], hs[j], j - i)

LEMMA ApartAdds ==
  ASSUME NEW f, NEW g, NEW h, HalfOK(f), HalfOK(g), HalfOK(h), NEW d \in Nat, NEW e \in Nat,
         Apart(f, g, d), Apart(g, h, e)
  PROVE  Apart(f, h, d + e)
BY DEF Apart, HalfOK

\* A step of the schedule.
LEMMA StepForward ==
  ASSUME NEW h, HalfOK(h), h.n < RotateAt
  PROVE  /\ HalfOK(PeerStep(h)) /\ PeerStep(h).n < RotateAt
         /\ Apart(h, PeerStep(h), 1)
         /\ h.n % 2 = 0 => PeerStep(h) = [h EXCEPT !.n = @ + 1]
         /\ h.n % 2 = 0 => PeerStep(h).k = h.k /\ PeerStep(h).n = h.n + 1
         /\ h.n % 2 = 1 => PeerStep(h).n % 2 = 0
<1>1. RotateAt \in Nat \ {0} /\ RotateAt % 2 = 0 /\ h.n \in Nat /\ h.k.gen \in Nat
  BY CryptoAssumption DEF HalfOK
<1>2. h = [n |-> h.n, k |-> h.k, ck |-> h.ck]
  BY DEF HalfOK
<1>3. CASE h.n + 1 = RotateAt
  <2>1. h.n % 2 = 1
    BY <1>1, <1>3
  <2>2. /\ PeerStep(h).n = 0 /\ PeerStep(h).k.gen = h.k.gen + 1
    BY <1>3 DEF PeerStep, HkdfTwoKeys
  <2> QED BY <1>1, <2>1, <2>2, PeerStepKeeps DEF Apart
<1>4. CASE h.n + 1 # RotateAt
  <2>1. PeerStep(h) = [h EXCEPT !.n = @ + 1]
    BY <1>4 DEF PeerStep
  <2>2. PeerStep(h).n = h.n + 1 /\ PeerStep(h).k = h.k
    BY <1>2, <2>1
  <2>3. HalfOK(PeerStep(h))
    BY PeerStepKeeps
  <2>4. PeerStep(h).n < RotateAt /\ Apart(h, PeerStep(h), 1)
    BY <1>1, <1>4, <2>2 DEF Apart
  <2>5. h.n % 2 = 1 => PeerStep(h).n % 2 = 0
    BY <1>1, <2>2
  <2> QED BY <2>1, <2>2, <2>3, <2>4, <2>5
<1> QED BY <1>3, <1>4

\* The client's code counts by messages, the peer of BOLT #8 by units: they
\* rotate alike.
LEMMA StepsAlike ==
  ASSUME NEW h, HalfOK(h), h.n < RotateAt, h.n % 2 = 0
  PROVE  /\ AfterEncryptMsg(h) = PeerStep(PeerStep(h))
         /\ AfterDecryptHeader(h) = PeerStep(h)
         /\ AfterDecryptBody(PeerStep(h), TRUE) = PeerStep(PeerStep(h))
<1>1. RotateAt \in Nat \ {0} /\ RotateAt % 2 = 0 /\ h.n \in Nat
  BY CryptoAssumption DEF HalfOK
<1>2. h = [n |-> h.n, k |-> h.k, ck |-> h.ck]
  BY DEF HalfOK
<1>3. PeerStep(h) = [n |-> h.n + 1, k |-> h.k, ck |-> h.ck]
  BY <1>2, StepForward
<1>4. AfterDecryptHeader(h) = PeerStep(h)
  BY <1>2, <1>3 DEF AfterDecryptHeader
<1> DEFINE h2 == [n |-> h.n + 2, k |-> h.k, ck |-> h.ck]
<1>5. [PeerStep(h) EXCEPT !.n = @ + 1] = h2
  <2>1. h.n + 1 + 1 = h.n + 2
    BY <1>1
  <2> QED BY <1>3, <2>1
<1>6. [h EXCEPT !.n = @ + 2] = h2
  BY <1>2
<1>7. PeerStep(PeerStep(h)) = MaybeRotateKey(h2)
  <2>1. PeerStep(h).n + 1 = h2.n /\ PeerStep(h).k = h2.k /\ PeerStep(h).ck = h2.ck
    BY <1>1, <1>3
  <2> HIDE DEF h2
  <2> QED BY <1>5, <2>1 DEF PeerStep, MaybeRotateKey
<1> QED BY <1>4, <1>5, <1>6, <1>7 DEF AfterEncryptMsg, AfterDecryptBody

\* The half that sealed a unit tells which unit it is.
LEMMA TrackUnique ==
  ASSUME NEW hs, NEW s, Len(s) \in Nat, NEW h, Track(hs, s, h),
         NEW i \in 1..(Len(s) + 1), NEW j \in 1..(Len(s) + 1),
         hs[i].k = hs[j].k, hs[i].n = hs[j].n
  PROVE  i = j
<1>1. hs[i].k.gen \in Nat /\ hs[j].k.gen \in Nat /\ hs[i].n \in Nat /\ hs[j].n \in Nat
  <2>1. HalfOK(hs[i]) /\ HalfOK(hs[j])
    BY DEF Track
  <2> QED BY <2>1 DEF HalfOK
<1>2. (i < j => Apart(hs[i], hs[j], j - i)) /\ (j < i => Apart(hs[j], hs[i], i - j))
  BY DEF Track
<1>3. ~(i < j)
  BY <1>1, <1>2 DEF Apart
<1>4. ~(j < i)
  BY <1>1, <1>2 DEF Apart
<1> QED BY <1>3, <1>4

\* A message more in the stream.
LEMMA UnitsAppend ==
  ASSUME NEW s, UnitsOK(s), NEW a, NEW b
  PROVE  /\ Len(s) \in Nat
         /\ Len(s \o <<a, b>>) = Len(s) + 2
         /\ \A i \in 1..Len(s) : (s \o <<a, b>>)[i] = s[i]
         /\ (s \o <<a, b>>)[Len(s) + 1] = a
         /\ (s \o <<a, b>>)[Len(s) + 2] = b
BY AppendTwo DEF UnitsOK

\* A message more in the stream: the schedule goes on.
LEMMA TrackGrows ==
  ASSUME NEW s, UnitsOK(s), NEW h, NEW hs, Track(hs, s, h),
         NEW a, NEW b, a.k = h.k, a.n = h.n, b.k = PeerStep(h).k, b.n = PeerStep(h).n
  PROVE  \E new : /\ Track(new, s \o <<a, b>>, PeerStep(PeerStep(h)))
                  /\ \A i \in 1..(Len(s) + 1) : new[i] = hs[i]
<1> DEFINE t == s \o <<a, b>>
           L == Len(s)
           h1 == PeerStep(h)
           h2 == PeerStep(h1)
           new == [i \in 1..(L + 3) |-> IF i <= L + 1 THEN hs[i]
                                        ELSE IF i = L + 2 THEN h1 ELSE h2]
<1>1. /\ Len(t) = L + 2
      /\ \A i \in 1..L : t[i] = s[i]
      /\ t[L + 1] = a /\ t[L + 2] = b /\ L \in Nat
  BY UnitsAppend
<1>2. /\ \A i \in 1..(L + 1) : new[i] = hs[i]
      /\ new[L + 2] = h1 /\ new[L + 3] = h2
  OBVIOUS
<1>3. hs[L + 1] = h /\ HalfOK(h) /\ h.n < RotateAt /\ L % 2 = 0 /\ h.n % 2 = 0
  <2>1. L + 1 \in 1..(L + 1) /\ (L % 2 = 0 => (L + 1) % 2 = 1)
    BY <1>1
  <2> QED BY <2>1 DEF Track
<1>4. /\ HalfOK(h1) /\ h1.n < RotateAt /\ Apart(h, h1, 1) /\ h1.n % 2 = 1
  <2>1. HalfOK(h1) /\ h1.n < RotateAt /\ Apart(h, h1, 1) /\ h1.n = h.n + 1
    BY <1>3, StepForward
  <2>2. h.n \in Nat /\ h.n % 2 = 0
    BY <1>3 DEF HalfOK
  <2> HIDE DEF h1
  <2>3. h1.n % 2 = 1
    BY <2>1, <2>2
  <2> QED BY <2>1, <2>3
<1>5. HalfOK(h2) /\ h2.n < RotateAt /\ Apart(h1, h2, 1) /\ h2.n % 2 = 0
  BY <1>4, StepForward
<1>6. Apart(h, h2, 2)
  <2>1. 1 \in Nat /\ 1 + 1 = 2
    OBVIOUS
  <2>2. Apart(h, h2, 1 + 1)
    BY <1>3, <1>4, <1>5, <2>1, ApartAdds
  <2> QED BY <2>1, <2>2
<1>7. h2 = PeerStep(h1) /\ h1 = PeerStep(h)
  OBVIOUS
<1> HIDE DEF t, h1, h2, new
<1>8. Track(new, t, h2)
  <2>1. Len(t) % 2 = 0 /\ new[Len(t) + 1] = h2
    BY <1>1, <1>2, <1>3
  <2>2. ASSUME NEW i \in 1..(Len(t) + 1)
        PROVE  /\ HalfOK(new[i]) /\ new[i].n < RotateAt
               /\ i % 2 = 1 => new[i].n % 2 = 0
    <3>1. i \in 1..(L + 1) \/ i = L + 2 \/ i = L + 3
      BY <1>1
    <3>2. CASE i \in 1..(L + 1)
      BY <1>2, <3>2 DEF Track
    <3>3. CASE i = L + 2
      BY <1>2, <1>3, <1>4, <3>3
    <3>4. CASE i = L + 3
      BY <1>2, <1>5, <3>4
    <3> QED BY <3>1, <3>2, <3>3, <3>4
  <2>3. ASSUME NEW i \in 1..Len(t)
        PROVE  t[i].k = new[i].k /\ t[i].n = new[i].n /\ new[i + 1] = PeerStep(new[i])
    <3>1. i \in 1..L \/ i = L + 1 \/ i = L + 2
      BY <1>1
    <3>2. CASE i \in 1..L
      <4>1. i + 1 \in 1..(L + 1) /\ i \in 1..(L + 1)
        BY <3>2
      <4> QED BY <1>1, <1>2, <3>2, <4>1 DEF Track
    <3>3. CASE i = L + 1
      <4>1. new[i] = h /\ new[i + 1] = h1 /\ t[i] = a
        BY <1>1, <1>2, <1>3, <3>3
      <4> QED BY <1>7, <4>1
    <3>4. CASE i = L + 2
      <4>1. new[i] = h1 /\ new[i + 1] = h2 /\ t[i] = b
        BY <1>1, <1>2, <3>4
      <4> QED BY <1>7, <4>1
    <3> QED BY <3>1, <3>2, <3>3, <3>4
  <2>4. ASSUME NEW i \in 1..(Len(t) + 1), NEW j \in 1..(Len(t) + 1), i < j
        PROVE  Apart(new[i], new[j], j - i)
    <3>1. \A n \in 1..(L + 1) : n = L + 1 \/ Apart(new[n], h, L + 1 - n)
      <4>1. \A n \in 1..(L + 1) : L + 1 \in 1..(L + 1) /\ (n = L + 1 \/ n < L + 1)
        BY <1>1
      <4>2. \A n \in 1..(L + 1) : n = L + 1 \/ Apart(hs[n], hs[L + 1], L + 1 - n)
        BY <4>1 DEF Track
      <4> QED BY <1>2, <1>3, <4>2
    <3>2. ASSUME NEW n \in 1..(L + 1)
          PROVE  Apart(new[n], h1, L + 2 - n) /\ Apart(new[n], h2, L + 3 - n)
      <4>1. HalfOK(new[n])
        BY <1>2 DEF Track
      <4>2. CASE n = L + 1
        <5>1. L + 2 - n = 1 /\ L + 3 - n = 2
          BY <1>1, <4>2
        <5> QED BY <1>2, <1>3, <1>4, <1>6, <4>2, <5>1
      <4>3. CASE n # L + 1
        <5>1. /\ L + 1 - n \in Nat /\ 1 \in Nat /\ 2 \in Nat
              /\ (L + 1 - n) + 1 = L + 2 - n /\ (L + 1 - n) + 2 = L + 3 - n
          BY <1>1
        <5>2. Apart(new[n], h1, (L + 1 - n) + 1)
          BY <1>3, <1>4, <3>1, <4>1, <4>3, <5>1, ApartAdds
        <5>3. Apart(new[n], h2, (L + 1 - n) + 2)
          BY <1>3, <1>5, <1>6, <3>1, <4>1, <4>3, <5>1, ApartAdds
        <5> QED BY <5>1, <5>2, <5>3
      <4> QED BY <4>2, <4>3
    <3>3. CASE j \in 1..(L + 1)
      <4>1. i \in 1..(L + 1)
        BY <1>1, <2>4, <3>3
      <4> QED BY <1>2, <2>4, <3>3, <4>1 DEF Track
    <3>4. CASE j = L + 2
      <4>1. i \in 1..(L + 1)
        BY <1>1, <2>4, <3>4
      <4> QED BY <1>2, <3>2, <3>4, <4>1
    <3>5. CASE j = L + 3
      <4>1. i \in 1..(L + 1) \/ (i = L + 2 /\ j - i = 1)
        BY <1>1, <2>4, <3>5
      <4> QED BY <1>2, <1>5, <3>2, <3>5, <4>1
    <3> QED BY <1>1, <3>3, <3>4, <3>5
  <2> QED BY <2>1, <2>2, <2>3, <2>4 DEF Track
<1> QED BY <1>2, <1>7, <1>8 DEF t

-----------------------------------------------------------------------------
(* The messages of a stream *)

LEMMA BodiesOf ==
  ASSUME NEW s, UnitsOK(s), NEW n \in Nat, Len(s) = 2 * n
  PROVE  /\ Bodies(s) \in Seq(Msg \cup {NotMsg})
         /\ Len(Bodies(s)) = n
         /\ \A i \in 1..n : Bodies(s)[i] = s[2 * i].plain
<1>1. Len(s) \div 2 = n
  OBVIOUS
<1>2. Bodies(s) = [i \in 1..n |-> s[2 * i].plain]
  BY <1>1 DEF Bodies
<1>3. \A i \in 1..n : s[2 * i].plain \in Msg \cup {NotMsg}
  <2>1. \A i \in 1..n : 2 * i \in 1..Len(s)
    OBVIOUS
  <2> QED BY <2>1 DEF UnitsOK, UnitOK
<1> QED BY <1>2, <1>3

LEMMA BodiesAppend ==
  ASSUME NEW s, UnitsOK(s), Len(s) % 2 = 0, NEW a, UnitOK(a), NEW b, UnitOK(b)
  PROVE  Bodies(s \o <<a, b>>) = Append(Bodies(s), b.plain)
<1> DEFINE t == s \o <<a, b>>
           new == Bodies(t)
           old == Bodies(s)
<1>1. Len(t) = Len(s) + 2 /\ t[Len(s) + 2] = b /\ \A i \in 1..Len(s) : t[i] = s[i]
  BY UnitsAppend
<1>2. UnitsOK(t)
  BY UnitsGrow
<1> HIDE DEF t
<1>3. PICK n \in Nat : Len(s) = 2 * n
  <2>1. Len(s) \div 2 \in Nat /\ Len(s) = 2 * (Len(s) \div 2)
    BY UnitsAppend
  <2> QED BY <2>1
<1>4. Len(t) = 2 * (n + 1)
  BY <1>1, <1>3
<1>5. /\ new \in Seq(Msg \cup {NotMsg}) /\ Len(new) = n + 1
      /\ \A i \in 1..(n + 1) : new[i] = t[2 * i].plain
  <2>1. n + 1 \in Nat
    OBVIOUS
  <2> QED BY <1>2, <1>4, <2>1, BodiesOf, Zenon
<1>6. /\ old \in Seq(Msg \cup {NotMsg}) /\ Len(old) = n
      /\ \A i \in 1..n : old[i] = s[2 * i].plain
  BY <1>3, BodiesOf
<1> HIDE DEF new, old
<1>7. \A i \in 1..n : new[i] = old[i]
  <2>1. \A i \in 1..n : 2 * i \in 1..Len(s) /\ i \in 1..(n + 1)
    BY <1>3
  <2> QED BY <1>1, <1>5, <1>6, <2>1
<1>8. new[n + 1] = b.plain
  BY <1>1, <1>5, <1>3
<1>9. new = Append(old, b.plain)
  <2>1. b.plain \in Msg \cup {NotMsg}
    BY DEF UnitOK
  <2> QED BY <1>5, <1>6, <1>7, <1>8, <2>1
<1> QED BY <1>9 DEF t, new, old

-----------------------------------------------------------------------------
(* From the client to the peer *)

\* The peer's receiving half is where the schedule of the sending half was
\* when the next message was sealed, and what the peer accepted is what was
\* sealed up to there.
OutSteps ==
  /\ Len(out) = 2 * Len(handed)
  /\ 2 * Len(peerGot) <= Len(out)
  /\ \A i \in 1..Len(peerGot) : peerGot[i] = out[2 * i].plain
  /\ SendMsgs = {} => \A i \in 1..Len(handed) : handed[i] = out[2 * i].plain
  /\ \E hs : Track(hs, out, tx) /\ prx = hs[2 * Len(peerGot) + 1]

OutInv == TypeOK /\ OutSteps

\* A write or a send goes one message further on the schedule.
LEMMA OutWrite ==
  ASSUME OutInv, NEW len \in Nat, NEW plain \in Msg \cup {NotMsg}, WriteSealed(len, plain)
  PROVE  /\ Len(out') = Len(out) + 2
         /\ \A i \in 1..Len(out) : out'[i] = out[i]
         /\ out'[Len(out) + 2].plain = plain
         /\ Bodies(out') = Append(Bodies(out), plain)
         /\ \A p \in 1..(Len(out) + 1) :
              (\E hs : Track(hs, out, tx) /\ prx = hs[p]) =>
              (\E hs : Track(hs, out', tx') /\ prx = hs[p])
<1>1. PICK wrote \in Cuts \cup {FrameSize(len)} :
        /\ out' = out \o EncryptMsg(tx, outLen, len, plain, NotMsg, wrote)
        /\ tx' = AfterEncryptMsg(tx)
  BY DEF WriteSealed
<1> DEFINE a == EncryptMsg(tx, outLen, len, plain, NotMsg, wrote)[1]
           b == EncryptMsg(tx, outLen, len, plain, NotMsg, wrote)[2]
<1>2. /\ out' = out \o <<a, b>>
      /\ a.k = tx.k /\ a.n = tx.n /\ b.k = tx.k /\ b.n = tx.n + 1 /\ b.plain = plain
  BY <1>1 DEF EncryptMsg, Unit
<1>3. UnitOK(a) /\ UnitOK(b)
  <2>1. /\ wrote \in Nat /\ outLen \in Nat /\ HdrSize \in Nat
        /\ BodySize(len) \in Nat /\ FrameSize(len) \in Nat
        /\ tx.n \in Nat /\ tx.k.gen \in Nat
    BY <1>1, Sizes, BoundAssumption DEF OutInv, TypeOK, HalfOK
  <2>2. a = Unit(outLen, HdrSize, tx.k, tx.n, TRUE, len, NotMsg, wrote >= HdrSize)
    BY DEF EncryptMsg
  <2>3. b = Unit(outLen + HdrSize, BodySize(len), tx.k, tx.n + 1, FALSE, len,
                 plain, wrote >= FrameSize(len))
    BY DEF EncryptMsg
  <2>4. outLen + HdrSize \in Nat /\ tx.n + 1 \in Nat
    BY <2>1
  <2>5. (wrote >= HdrSize) \in BOOLEAN /\ (wrote >= FrameSize(len)) \in BOOLEAN
        /\ NotMsg \in Msg \cup {NotMsg}
    OBVIOUS
  <2> HIDE DEF a, b
  <2>6. UnitOK(a)
    BY <2>1, <2>2, <2>5, UnitIsOK, Zenon
  <2>7. UnitOK(b)
    BY <2>1, <2>3, <2>4, <2>5, UnitIsOK, Zenon
  <2> QED BY <2>6, <2>7
<1> HIDE DEF a, b
<1>4. /\ Len(out) \in Nat /\ out = [i \in 1..Len(out) |-> out[i]]
      /\ UnitsOK(out)
  BY DEF OutInv, TypeOK, UnitsOK
<1>5. /\ Len(out') = Len(out) + 2
      /\ \A i \in 1..Len(out) : out'[i] = out[i]
      /\ out'[Len(out) + 2] = b
  BY <1>2, <1>4, AppendTwo
<1>6. Bodies(out') = Append(Bodies(out), plain)
  <2>1. Len(out) % 2 = 0
    <3>1. Len(handed) \in Nat /\ Len(out) = 2 * Len(handed)
      BY DEF OutInv, OutSteps, TypeOK
    <3> QED BY <3>1
  <2> QED BY <1>2, <1>3, <1>4, <2>1, BodiesAppend
<1>7. ASSUME NEW p \in 1..(Len(out) + 1), NEW hs, Track(hs, out, tx), prx = hs[p]
      PROVE  \E new : Track(new, out', tx') /\ prx = new[p]
  <2>1. HalfOK(tx) /\ tx.n < RotateAt /\ tx.n % 2 = 0
    <3>1. hs[Len(out) + 1] = tx /\ Len(out) % 2 = 0
      BY <1>7 DEF Track
    <3>2. Len(out) + 1 \in 1..(Len(out) + 1) /\ (Len(out) + 1) % 2 = 1
      BY <1>4, <3>1
    <3> QED BY <1>7, <3>1, <3>2 DEF Track
  <2>2. b.k = PeerStep(tx).k /\ b.n = PeerStep(tx).n
    BY <1>2, <2>1, StepForward
  <2>3. tx' = PeerStep(PeerStep(tx))
    BY <1>1, <2>1, StepsAlike
  <2>4. PICK new : /\ Track(new, out \o <<a, b>>, PeerStep(PeerStep(tx)))
                   /\ \A i \in 1..(Len(out) + 1) : new[i] = hs[i]
    <3>1. a.k = tx.k /\ a.n = tx.n
      BY <1>2
    <3>2. UnitsOK(out) /\ Track(hs, out, tx)
      BY <1>4, <1>7
    <3> QED BY <2>2, <3>1, <3>2, TrackGrows
  <2> QED BY <1>2, <1>7, <2>3, <2>4
<1> QED BY <1>2, <1>5, <1>6, <1>7

\* The peer accepts the message that comes next on the schedule, and no other.
LEMMA OutReceive ==
  ASSUME OutInv, PeerReceive
  PROVE  /\ 2 * Len(peerGot) + 2 <= Len(out)
         /\ peerGot' = Append(peerGot, out[2 * Len(peerGot) + 2].plain)
         /\ \E hs : Track(hs, out, tx) /\ prx' = hs[2 * Len(peerGot) + 3]
<1> DEFINE p == 2 * Len(peerGot) + 1
<1>1. PICK hs : Track(hs, out, tx) /\ prx = hs[p]
  BY DEF OutInv, OutSteps
<1>2. PICK h \in PeerHeaders : \E b \in PeerBodies(h.len) :
        /\ peerGot' = Append(peerGot, b.plain)
        /\ prx' = PeerStep(PeerStep(prx))
  BY DEF PeerReceive
<1>3. PICK b \in PeerBodies(h.len) :
        /\ peerGot' = Append(peerGot, b.plain)
        /\ prx' = PeerStep(PeerStep(prx))
  BY <1>2
<1>4. /\ Len(out) \in Nat /\ DOMAIN out = 1..Len(out)
      /\ Len(peerGot) \in Nat /\ p \in 1..(Len(out) + 1)
  BY DEF OutInv, OutSteps, TypeOK, UnitsOK
<1>5. PICK i \in 1..Len(out) : h = out[i] /\ h.k = prx.k /\ h.n = prx.n
  BY <1>2, <1>4 DEF PeerHeaders, Opens
<1> HIDE DEF p
<1>6. i = p
  <2>1. hs[i].k = hs[p].k /\ hs[i].n = hs[p].n /\ i \in 1..(Len(out) + 1)
    BY <1>1, <1>4, <1>5 DEF Track
  <2> QED BY <1>1, <1>4, <2>1, TrackUnique
<1>7. hs[p + 1] = PeerStep(prx) /\ p \in 1..Len(out)
  BY <1>1, <1>5, <1>6 DEF Track
<1>8. PICK j \in 1..Len(out) : b = out[j] /\ b.k = PeerStep(prx).k /\ b.n = PeerStep(prx).n
  BY <1>3, <1>4 DEF PeerBodies, Opens
<1>9. j = p + 1
  <2>1. hs[j].k = hs[p + 1].k /\ hs[j].n = hs[p + 1].n
    BY <1>1, <1>7, <1>8 DEF Track
  <2>2. j \in 1..(Len(out) + 1) /\ p + 1 \in 1..(Len(out) + 1)
    BY <1>4, <1>7
  <2> QED BY <1>1, <1>4, <2>1, <2>2, TrackUnique
<1>10. prx' = hs[p + 2]
  <2>1. hs[(p + 1) + 1] = PeerStep(hs[p + 1])
    BY <1>1, <1>8, <1>9 DEF Track
  <2>2. (p + 1) + 1 = p + 2
    BY <1>4
  <2> QED BY <1>3, <1>7, <2>1, <2>2
<1>11. p + 1 = 2 * Len(peerGot) + 2 /\ p + 2 = 2 * Len(peerGot) + 3
  BY <1>4 DEF p
<1>12. 2 * Len(peerGot) + 2 <= Len(out)
  BY <1>4, <1>8, <1>9, <1>11
<1> QED BY <1>1, <1>3, <1>8, <1>9, <1>10, <1>11, <1>12

LEMMA OutInit == Init => OutInv
<1> SUFFICES ASSUME Init PROVE OutSteps
  BY TypeInit DEF OutInv
<1>1. Len(out) = 0 /\ Len(handed) = 0 /\ Len(peerGot) = 0 /\ tx = prx
  BY DEF Init
<1> DEFINE hs == [i \in 1..1 |-> tx]
<1>2. hs[1] = tx
  OBVIOUS
<1>3. HalfOK(tx) /\ tx.n = 0
  BY HandshakeOK DEF Init, HandshakeSend
<1> HIDE DEF hs
<1>4. Track(hs, out, tx)
  <2>1. \A i \in 1..(Len(out) + 1) : i = 1
    BY <1>1
  <2> QED BY <1>1, <1>2, <1>3, <2>1, CryptoAssumption DEF Track
<1>5. prx = hs[2 * Len(peerGot) + 1]
  BY <1>1, <1>2
<1> QED BY <1>1, <1>4, <1>5 DEF OutSteps

LEMMA OutStep == OutInv /\ [Next]_vars => OutInv'
<1> SUFFICES ASSUME OutInv, [Next]_vars PROVE OutSteps'
  BY TypeStep DEF OutInv
<1>1. ASSUME UNCHANGED <<out, tx, handed, prx, peerGot>> PROVE OutSteps'
  BY <1>1 DEF OutInv, OutSteps
<1>2. ASSUME NEW m \in Msg, handed' = Append(handed, m), NEW len \in Nat,
             NEW plain \in Msg \cup {NotMsg}, WriteSealed(len, plain),
             SendMsgs = {} => plain = m, UNCHANGED <<prx, peerGot>>
      PROVE  OutSteps'
  <2>1. /\ Len(out') = Len(out) + 2
        /\ \A i \in 1..Len(out) : out'[i] = out[i]
        /\ out'[Len(out) + 2].plain = plain
        /\ \A p \in 1..(Len(out) + 1) :
              (\E hs : Track(hs, out, tx) /\ prx = hs[p]) =>
              (\E hs : Track(hs, out', tx') /\ prx = hs[p])
    BY <1>2, OutWrite
  <2>2. /\ Len(handed) \in Nat /\ Len(handed') = Len(handed) + 1
        /\ \A i \in 1..Len(handed) : handed'[i] = handed[i]
        /\ handed'[Len(handed) + 1] = m
    BY <1>2 DEF OutInv, TypeOK
  <2>3. Len(peerGot) \in Nat /\ Len(out) = 2 * Len(handed) /\ 2 * Len(peerGot) <= Len(out)
    BY DEF OutInv, OutSteps, TypeOK
  <2>4. Len(out') = 2 * Len(handed')
    BY <2>1, <2>2, <2>3
  <2>5. 2 * Len(peerGot') <= Len(out')
    BY <1>2, <2>1, <2>3, <2>2
  <2>6. \A i \in 1..Len(peerGot') : peerGot'[i] = out'[2 * i].plain
    <3>1. \A i \in 1..Len(peerGot) : 2 * i \in 1..Len(out)
      BY <2>3, <2>2
    <3>2. \A i \in 1..Len(peerGot) : peerGot[i] = out[2 * i].plain
      BY DEF OutInv, OutSteps
    <3> QED BY <1>2, <2>1, <3>1, <3>2
  <2>7. ASSUME SendMsgs = {} PROVE \A i \in 1..Len(handed') : handed'[i] = out'[2 * i].plain
    <3>1. SUFFICES ASSUME NEW i \in 1..Len(handed') PROVE handed'[i] = out'[2 * i].plain
      OBVIOUS
    <3>2. CASE i \in 1..Len(handed)
      <4>1. 2 * i \in 1..Len(out)
        BY <2>2, <2>3, <3>2
      <4>2. handed[i] = out[2 * i].plain
        BY <2>7, <3>2 DEF OutInv, OutSteps
      <4> QED BY <2>1, <2>2, <3>2, <4>1, <4>2
    <3>3. CASE i = Len(handed) + 1
      <4>1. 2 * i = Len(out) + 2
        BY <2>2, <2>3, <3>3
      <4> QED BY <1>2, <2>1, <2>2, <2>7, <3>3, <4>1
    <3> QED BY <2>2, <3>1, <3>2, <3>3
  <2>8. \E hs : Track(hs, out', tx') /\ prx = hs[2 * Len(peerGot) + 1]
    <3>1. 2 * Len(peerGot) + 1 \in 1..(Len(out) + 1)
      BY <2>2, <2>3
    <3>2. \E hs : Track(hs, out, tx) /\ prx = hs[2 * Len(peerGot) + 1]
      BY DEF OutInv, OutSteps
    <3> QED BY <2>1, <3>1, <3>2
  <2>9. (\E hs : Track(hs, out, tx) /\ prx = hs[2 * Len(peerGot) + 1])'
    BY <1>2, <2>8
  <2> QED BY <2>4, <2>5, <2>6, <2>7, <2>9 DEF OutSteps
<1>3. ASSUME NEW m \in WriteMsgs, Write(m) PROVE OutSteps'
  <2>1. m \in Msg /\ MsgLen[m] \in Nat
    BY MsgAssumption
  <2> QED BY <1>2, <1>3, <2>1 DEF Write, peerVars
<1>4. ASSUME NEW m \in SendMsgs, Send(m) PROVE OutSteps'
  <2>1. m \in Msg /\ MsgLen[m] % LenMod \in Nat
    BY MsgAssumption, BufAssumption
  <2> QED BY <1>2, <1>4, <2>1 DEF Send, peerVars
<1>5. CASE PeerReceive
  <2>1. /\ 2 * Len(peerGot) + 2 <= Len(out)
        /\ peerGot' = Append(peerGot, out[2 * Len(peerGot) + 2].plain)
        /\ \E hs : Track(hs, out, tx) /\ prx' = hs[2 * Len(peerGot) + 3]
    BY <1>5, OutReceive
  <2>2. UNCHANGED <<out, tx, handed>>
    BY <1>5 DEF PeerReceive, clientVars
  <2>3. /\ Len(peerGot) \in Nat /\ Len(peerGot') = Len(peerGot) + 1
        /\ \A i \in 1..Len(peerGot) : peerGot'[i] = peerGot[i]
        /\ peerGot'[Len(peerGot) + 1] = out[2 * Len(peerGot) + 2].plain
    <3>1. peerGot \in Seq(Msg \cup {NotMsg})
      BY DEF OutInv, TypeOK
    <3> QED BY <2>1, <3>1
  <2>4. 2 * Len(peerGot') <= Len(out') /\ 2 * Len(peerGot') + 1 = 2 * Len(peerGot) + 3
        /\ 2 * (Len(peerGot) + 1) = 2 * Len(peerGot) + 2
    BY <2>1, <2>2, <2>3
  <2>5. \A i \in 1..Len(peerGot') : peerGot'[i] = out'[2 * i].plain
    <3>1. \A i \in 1..Len(peerGot) : peerGot[i] = out[2 * i].plain
      BY DEF OutInv, OutSteps
    <3>2. \A i \in 1..Len(peerGot') : i \in 1..Len(peerGot) \/ i = Len(peerGot) + 1
      BY <2>3
    <3> QED BY <2>2, <2>3, <2>4, <3>1, <3>2
  <2>6. (\E hs : Track(hs, out, tx) /\ prx = hs[2 * Len(peerGot) + 1])'
    BY <2>1, <2>2, <2>4
  <2>7. Len(out') = 2 * Len(handed')
        /\ (SendMsgs = {} => \A i \in 1..Len(handed') : handed'[i] = out'[2 * i].plain)
    BY <2>2 DEF OutInv, OutSteps
  <2> QED BY <2>4, <2>5, <2>6, <2>7 DEF OutSteps
<1>6. CASE ReadCall \/ Reading
  BY <1>1, <1>6 DEF ReadCall, Reading, ReadPart, ReadHeader, ReadBody, ReadEof, outVars, peerVars
<1>7. ASSUME NEW m \in PeerMsgs, PeerSend(m) PROVE OutSteps'
  BY <1>1, <1>7 DEF PeerSend, clientVars, outVars
<1>8. CASE PeerHangUp \/ PeerReject
  BY <1>1, <1>8 DEF PeerHangUp, PeerReject, clientVars, outVars, peerVars
<1>9. CASE UNCHANGED vars
  BY <1>1, <1>9 DEF vars, clientVars, outVars, peerVars
<1> QED BY <1>3, <1>4, <1>5, <1>6, <1>7, <1>8, <1>9 DEF Next

\* Whatever the peer accepts is a prefix of what the caller handed over, when
\* the caller hands it over through lnsocket_write: no write() that took half a
\* message, no call after one and no rotation ever makes the peer take a
\* message for another.  (lnsocket_send overwrites the message it builds.)
THEOREM WritesArriveInOrder ==
  ASSUME SendMsgs = {}
  PROVE  Spec => []PeerGotPrefix
<1>1. OutInv => PeerGotPrefix
  <2> SUFFICES ASSUME OutInv PROVE PeerGotPrefix
    OBVIOUS
  <2>1. /\ Len(peerGot) \in Nat /\ Len(handed) \in Nat
        /\ Len(peerGot) <= Len(handed)
    BY DEF OutInv, OutSteps, TypeOK
  <2>2. \A i \in 1..Len(peerGot) : i \in 1..Len(handed)
    BY <2>1
  <2> QED BY <2>1, <2>2, SendMsgs = {} DEF OutInv, OutSteps, PeerGotPrefix, IsPrefixOf
<1> QED BY <1>1, OutInit, OutStep, PTL DEF Spec

\* The stream of sealed messages from the client to the peer is a fail-stop
\* FIFO channel: the peer receives what cryptomsg_encrypt_msg sealed, in order
\* and each once, until the connection ends.
THEOREM OutChannelRefined == Spec => OutRefines
<1> USE DEF OutChannel!chanVars, OutChannel!ChanNext
<1>1. Init => OutChannel!ChanInit
  BY DEF Init, OutChannel!ChanInit, Bodies
<1>2. OutInv /\ [Next]_vars => [OutChannel!ChanNext]_(OutChannel!chanVars)
  <2> SUFFICES ASSUME OutInv, [Next]_vars
               PROVE  OutChannel!ChanNext \/ UNCHANGED OutChannel!chanVars
    OBVIOUS
  <2>1. ASSUME UNCHANGED <<out, peerGot, closed>> PROVE UNCHANGED OutChannel!chanVars
    BY <2>1 DEF Bodies
  <2>2. ASSUME NEW len \in Nat, NEW plain \in WriteMsgs \cup {NotMsg}, WriteSealed(len, plain),
               UNCHANGED <<peerGot, closed>>
        PROVE  OutChannel!ChanNext
    <3>1. plain \in Msg \cup {NotMsg}
      BY MsgAssumption
    <3>2. Bodies(out') = Append(Bodies(out), plain)
      BY <2>2, <3>1, OutWrite
    <3>3. OutChannel!ChanSend(plain)
      BY <2>2, <3>2 DEF OutChannel!ChanSend, Bodies
    <3> QED BY <3>3
  <2>3. ASSUME NEW m \in WriteMsgs, Write(m) PROVE OutChannel!ChanNext
    <3>1. MsgLen[m] \in Nat
      BY MsgAssumption
    <3> QED BY <2>2, <2>3, <3>1 DEF Write, peerVars, inVars
  <2>4. ASSUME NEW m \in SendMsgs, Send(m) PROVE OutChannel!ChanNext
    <3>1. MsgLen[m] % LenMod \in Nat
      BY MsgAssumption, BufAssumption
    <3> QED BY <2>2, <2>4, <3>1 DEF Send, peerVars, inVars
  <2>5. CASE PeerReceive
    <3>1. /\ 2 * Len(peerGot) + 2 <= Len(out)
          /\ peerGot' = Append(peerGot, out[2 * Len(peerGot) + 2].plain)
      BY <2>5, OutReceive
    <3>2. ~closed /\ UNCHANGED <<out, closed>>
      BY <2>5 DEF PeerReceive, inVars
    <3>3. /\ Len(handed) \in Nat /\ Len(peerGot) \in Nat /\ UnitsOK(out)
          /\ Len(out) = 2 * Len(handed)
      BY DEF OutInv, OutSteps, TypeOK
    <3>4. /\ Len(Bodies(out)) = Len(handed)
          /\ \A i \in 1..Len(handed) : Bodies(out)[i] = out[2 * i].plain
      BY <3>3, BodiesOf
    <3>5. /\ Len(peerGot) + 1 \in 1..Len(handed)
          /\ 2 * (Len(peerGot) + 1) = 2 * Len(peerGot) + 2
      BY <3>1, <3>3
    <3>6. Bodies(out)' = Bodies(out)
      BY <3>2 DEF Bodies
    <3>7. OutChannel!ChanReceive
      BY <3>1, <3>2, <3>3, <3>4, <3>5, <3>6 DEF OutChannel!ChanReceive
    <3> QED BY <3>7
  <2>6. ASSUME HangUp, UNCHANGED <<out, peerGot>> PROVE OutChannel!ChanNext
    BY <2>6 DEF HangUp, OutChannel!ChanBreak, Bodies
  <2>7. CASE ReadCall \/ Reading
    BY <2>1, <2>7 DEF ReadCall, Reading, ReadPart, ReadHeader, ReadBody, ReadEof,
                      outVars, peerVars, inVars
  <2>8. ASSUME NEW m \in PeerMsgs, PeerSend(m) PROVE UNCHANGED OutChannel!chanVars
    BY <2>1, <2>8 DEF PeerSend, outVars
  <2>9. CASE PeerHangUp \/ PeerReject
    BY <2>6, <2>9 DEF PeerHangUp, PeerReject, outVars, peerVars
  <2>10. CASE UNCHANGED vars
    BY <2>1, <2>10 DEF vars, inVars, outVars, peerVars
  <2> QED BY <2>3, <2>4, <2>5, <2>7, <2>8, <2>9, <2>10 DEF Next
<1> QED BY <1>1, <1>2, OutInit, OutStep, PTL DEF Spec, OutRefines, OutChannel!ChanSpec

-----------------------------------------------------------------------------
(* Where the units of a stream lie *)

\* The units of s lie end to end, a header and a body in turn; ps[i] is where
\* unit i starts, and ps[Len(s) + 1] where the stream ends.
Laid(ps, s) ==
  /\ ps[1] = 0
  /\ \A i \in 1..(Len(s) + 1) : ps[i] \in Nat
  /\ \A i \in 1..Len(s) : /\ s[i].at = ps[i] /\ ps[i + 1] = ps[i] + s[i].size
                          /\ s[i].whole /\ Tag <= s[i].size
  /\ \A i \in 1..Len(s) : i % 2 = 1 => /\ s[i].head /\ s[i].size = HdrSize
                                       /\ i + 1 \in 1..Len(s)
                                       /\ s[i + 1].size = BodySize(s[i].len)
  /\ \A i, j \in 1..(Len(s) + 1) : i <= j => ps[i] + (j - i) * Tag <= ps[j]

LEMMA OneMoreTag == \A n \in Nat : (n + 1) * Tag = n * Tag + Tag
BY CryptoAssumption

LEMMA TagsAhead ==
  ASSUME NEW u \in Nat, NEW x \in Nat, NEW p \in Nat, NEW v \in Nat, NEW w \in Nat,
         u + x <= p, p + Tag <= v, v + Tag <= w
  PROVE  u + (x + Tag) <= v /\ u + ((x + Tag) + Tag) <= w
BY CryptoAssumption

\* A message more in the stream.
LEMMA LaidGrows ==
  ASSUME NEW s, UnitsOK(s), Len(s) % 2 = 0, NEW ps, Laid(ps, s),
         NEW a, UnitOK(a), NEW b, UnitOK(b),
         a.at = ps[Len(s) + 1], a.size = HdrSize, a.head, a.whole,
         b.at = a.at + HdrSize, b.size = BodySize(a.len), b.whole
  PROVE  \E new : /\ Laid(new, s \o <<a, b>>)
                  /\ \A i \in 1..(Len(s) + 1) : new[i] = ps[i]
                  /\ new[Len(s) + 3] = ps[Len(s) + 1] + FrameSize(a.len)
<1> DEFINE t == s \o <<a, b>>
           L == Len(s)
           new == [i \in 1..(L + 3) |-> IF i <= L + 1 THEN ps[i]
                                        ELSE IF i = L + 2 THEN ps[L + 1] + HdrSize
                                        ELSE ps[L + 1] + FrameSize(a.len)]
<1>1. /\ Len(t) = L + 2 /\ L \in Nat
      /\ \A i \in 1..L : t[i] = s[i]
      /\ t[L + 1] = a /\ t[L + 2] = b
  BY UnitsAppend
<1>2. /\ \A i \in 1..(L + 1) : new[i] = ps[i]
      /\ new[L + 2] = ps[L + 1] + HdrSize
      /\ new[L + 3] = ps[L + 1] + FrameSize(a.len)
  BY <1>1
<1>3. /\ HdrSize \in Nat /\ a.len \in Nat /\ BodySize(a.len) \in Nat
      /\ FrameSize(a.len) = HdrSize + BodySize(a.len)
      /\ Tag <= HdrSize /\ Tag <= BodySize(a.len) /\ Tag \in Nat
      /\ ps[L + 1] \in Nat
  <2>1. a.len \in Nat /\ L + 1 \in 1..(L + 1)
    BY <1>1 DEF UnitOK
  <2>2. ps[L + 1] \in Nat
    BY <2>1 DEF Laid
  <2>3. /\ HdrSize \in Nat /\ BodySize(a.len) \in Nat /\ Tag \in Nat
        /\ FrameSize(a.len) = HdrSize + BodySize(a.len)
        /\ Tag <= HdrSize /\ Tag <= BodySize(a.len)
    BY <2>1, CryptoAssumption DEF HdrSize, BodySize, FrameSize
  <2> QED BY <2>1, <2>2, <2>3
<1> HIDE DEF t, new
<1>n. new[L + 2] \in Nat /\ new[L + 3] \in Nat /\ ps[L + 1] \in Nat
  BY <1>2, <1>3
<1>4. new[1] = 0 /\ \A i \in 1..(Len(t) + 1) : new[i] \in Nat
  <2>1. 1 \in 1..(L + 1)
    BY <1>1
  <2>2. \A i \in 1..(Len(t) + 1) : i \in 1..(L + 1) \/ i = L + 2 \/ i = L + 3
    BY <1>1
  <2>3. \A i \in 1..(L + 1) : new[i] \in Nat
    BY <1>2 DEF Laid
  <2>4. new[L + 2] \in Nat /\ new[L + 3] \in Nat
    BY <1>n
  <2>5. new[1] = 0
    BY <1>2, <2>1 DEF Laid
  <2> QED BY <2>2, <2>3, <2>4, <2>5
<1>5. ASSUME NEW i \in 1..Len(t)
      PROVE  /\ t[i].at = new[i] /\ new[i + 1] = new[i] + t[i].size
             /\ t[i].whole /\ Tag <= t[i].size
             /\ i % 2 = 1 => /\ t[i].head /\ t[i].size = HdrSize
                             /\ i + 1 \in 1..Len(t)
                             /\ t[i + 1].size = BodySize(t[i].len)
  <2>1. i \in 1..L \/ i = L + 1 \/ i = L + 2
    BY <1>1
  <2>2. CASE i \in 1..L
    <3>1. i \in 1..(L + 1) /\ i + 1 \in 1..(L + 1) /\ i + 1 \in 1..Len(t)
      BY <1>1, <2>2
    <3> QED BY <1>1, <1>2, <2>2, <3>1 DEF Laid
  <2>3. CASE i = L + 1
    <3>1. i + 1 = L + 2 /\ L + 2 \in 1..Len(t) /\ L + 1 \in 1..(L + 1)
      BY <1>1, <2>3
    <3> QED BY <1>1, <1>2, <1>3, <2>3, <3>1
  <2>4. CASE i = L + 2
    <3>1. i + 1 = L + 3 /\ i % 2 # 1 /\ L + 1 \in 1..(L + 1)
      BY <1>1, <2>4
    <3> QED BY <1>1, <1>2, <1>3, <2>4, <3>1
  <2> QED BY <2>1, <2>2, <2>3, <2>4
<1>6. ASSUME NEW i \in 1..(Len(t) + 1), NEW j \in 1..(Len(t) + 1), i <= j
      PROVE  new[i] + (j - i) * Tag <= new[j]
  <2>1. \A k \in 1..(L + 1) : ps[k] \in Nat /\ ps[k] + (L + 1 - k) * Tag <= ps[L + 1]
    <3>1. \A k \in 1..(L + 1) : L + 1 \in 1..(L + 1) /\ k <= L + 1
      BY <1>1
    <3>2. \A c, d \in 1..(L + 1) : c <= d => ps[c] + (d - c) * Tag <= ps[d]
      BY Zenon DEF Laid
    <3>3. \A k \in 1..(L + 1) : ps[k] \in Nat
      BY Zenon DEF Laid
    <3> QED BY <3>1, <3>2, <3>3
  <2>2. new[L + 2] + Tag <= new[L + 3] /\ ps[L + 1] + Tag <= new[L + 2]
    BY <1>2, <1>3
  <2>3. ASSUME NEW k \in 1..(L + 1)
        PROVE  new[k] + (L + 2 - k) * Tag <= new[L + 2] /\ new[k] + (L + 3 - k) * Tag <= new[L + 3]
    <3> DEFINE d == L + 1 - k
    <3>1. d \in Nat /\ d + 1 \in Nat /\ L + 2 - k = d + 1 /\ L + 3 - k = (d + 1) + 1
      <4>1. L \in Nat
        BY <1>1
      <4> HIDE DEF L
      <4> QED BY <4>1
    <3>2. new[k] = ps[k] /\ ps[k] \in Nat /\ ps[k] + d * Tag <= ps[L + 1]
      BY <1>2, <2>1
    <3> HIDE DEF d
    <3>3. (d + 1) * Tag = d * Tag + Tag
      BY <3>1, OneMoreTag
    <3>4. ((d + 1) + 1) * Tag = (d + 1) * Tag + Tag
      BY <3>1, OneMoreTag
    <3> DEFINE x == d * Tag
               u == new[k]
               e == ps[L + 1]
               v == new[L + 2]
               w == new[L + 3]
    <3>5. /\ x \in Nat /\ u \in Nat /\ u + x <= e
          /\ e \in Nat /\ v \in Nat /\ w \in Nat
      <4>1. x \in Nat
        BY <1>3, <3>1
      <4>2. u \in Nat /\ u + x <= e
        BY <3>2
      <4>3. e \in Nat /\ v \in Nat /\ w \in Nat
        BY <1>n
      <4> QED BY <4>1, <4>2, <4>3
    <3>6. e + Tag <= v /\ v + Tag <= w
      BY <2>2
    <3> HIDE DEF x, u, e, v, w
    <3>7. (L + 2 - k) * Tag = x + Tag /\ (L + 3 - k) * Tag = (x + Tag) + Tag
      <4>1. (d + 1) * Tag = x + Tag /\ ((d + 1) + 1) * Tag = (d + 1) * Tag + Tag
        BY <3>3, <3>4 DEF x
      <4> QED BY <3>1, <4>1
    <3>8. u + (x + Tag) <= v /\ u + ((x + Tag) + Tag) <= w
      BY <3>5, <3>6, TagsAhead
    <3> QED BY <3>7, <3>8 DEF u, v, w
  <2>4. CASE j \in 1..(L + 1)
    <3>1. i \in 1..(L + 1)
      BY <1>1, <1>6, <2>4
    <3> QED BY <1>2, <1>6, <2>4, <3>1 DEF Laid
  <2>5. CASE j = L + 2 /\ i \in 1..(L + 1)
    BY <2>3, <2>5
  <2>6. CASE j = L + 3 /\ i \in 1..(L + 1)
    BY <2>3, <2>6
  <2>7. CASE i = j
    <3>1. (j - i) * Tag = 0 /\ new[i] \in Nat
      BY <1>3, <1>4, <2>7
    <3> QED BY <2>7, <3>1
  <2>8. CASE i = L + 2 /\ j = L + 3
    <3>1. (j - i) * Tag = Tag
      BY <1>1, <1>3, <2>8
    <3> QED BY <2>2, <2>8, <3>1
  <2> QED BY <1>1, <1>6, <2>4, <2>5, <2>6, <2>7, <2>8
<1>7. Laid(new, t)
  BY <1>4, <1>5, <1>6 DEF Laid
<1> QED BY <1>2, <1>7 DEF t

\* A half on the schedule, where it is due, opens its unit and no other.
LEMMA OpensHere ==
  ASSUME NEW s, UnitsOK(s), NEW hs, NEW h, Track(hs, s, h), NEW ps, Laid(ps, s),
         NEW p \in 1..Len(s)
  PROVE  Opens(hs[p], ps[p], s[p].size, s) = {s[p]}
<1>1. Len(s) \in Nat /\ DOMAIN s = 1..Len(s) /\ p \in 1..(Len(s) + 1)
  BY DEF UnitsOK
<1>2. s[p].at = ps[p] /\ s[p].whole /\ s[p].k = hs[p].k /\ s[p].n = hs[p].n
  BY DEF Laid, Track
<1>3. ASSUME NEW i \in 1..Len(s), s[i].k = hs[p].k, s[i].n = hs[p].n PROVE i = p
  <2>1. hs[i].k = s[i].k /\ hs[i].n = s[i].n
    BY DEF Track
  <2>2. hs[i].k = hs[p].k /\ hs[i].n = hs[p].n /\ i \in 1..(Len(s) + 1)
    BY <1>1, <1>3, <2>1
  <2> QED BY <1>1, <2>2, TrackUnique
<1> QED BY <1>1, <1>2, <1>3 DEF Opens

-----------------------------------------------------------------------------
(* After a message that did not fit *)

\* Any length that does not fit is above all that fit.
LEMMA TooLong ==
  ASSUME NEW len \in Nat, ~Fits(len)
  PROVE  RotateAt * LenSize < len
<1>1. RotateAt * LenSize \in Nat
  BY CryptoAssumption
<1> QED BY <1>1, BufAssumption, CryptoAssumption DEF Fits, BodySize

\* lnsocket_read passed the header of a message that did not fit, left its body
\* where it was, and takes it for headers, HdrSize bytes and one nonce each
\* time: none of these opens, for as many times as it is called.
LEMMA LostOpensNothing ==
  ASSUME NEW s, UnitsOK(s), NEW hs, NEW h, Track(hs, s, h), NEW ps, Laid(ps, s),
         NEW p \in 1..Len(s), p % 2 = 1, ~Fits(s[p].len),
         NEW q \in Nat, NEW r, r.k = hs[p].k, r.n = hs[p].n + 1 + q
  PROVE  Opens(r, ps[p + 1] + q * HdrSize, HdrSize, s) = {}
<1>1. Len(s) \in Nat /\ DOMAIN s = 1..Len(s)
  BY DEF UnitsOK
<1>2. SUFFICES ASSUME NEW j \in 1..Len(s), s[j].at = ps[p + 1] + q * HdrSize,
                      s[j].size = HdrSize, s[j].k = r.k, s[j].n = r.n
               PROVE  FALSE
  BY <1>1 DEF Opens
<1>3. /\ p \in 1..(Len(s) + 1) /\ j \in 1..(Len(s) + 1) /\ p + 1 \in 1..Len(s)
      /\ p + 1 \in 1..(Len(s) + 1)
  BY <1>1 DEF Laid
<1>4. /\ hs[j].k = hs[p].k /\ hs[j].n = hs[p].n + 1 + q /\ hs[j].n < RotateAt
      /\ hs[j].n \in Nat /\ hs[p].n \in Nat /\ hs[p].k.gen \in Nat
  <2>1. hs[j].k = s[j].k /\ hs[j].n = s[j].n
    BY DEF Track
  <2>2. HalfOK(hs[j]) /\ HalfOK(hs[p]) /\ hs[j].n < RotateAt
    BY <1>3 DEF Track
  <2>3. hs[j].n \in Nat /\ hs[p].n \in Nat /\ hs[p].k.gen \in Nat
    BY <2>2 DEF HalfOK
  <2> QED BY <1>2, <2>1, <2>2, <2>3
<1>5. j = p + 1 + q
  <2>1. p < j
    <3>1. ~(j < p)
      <4>1. j < p => Apart(hs[j], hs[p], p - j)
        BY <1>3 DEF Track
      <4>2. j < p => hs[p].n = hs[j].n + (p - j)
        BY <1>4, <4>1 DEF Apart
      <4>3. j < p => hs[p].n > hs[j].n
        BY <1>1, <1>4, <4>2
      <4> QED BY <1>1, <1>4, <4>3
    <3>2. j # p
      BY <1>4
    <3> QED BY <3>1, <3>2
  <2>2. Apart(hs[p], hs[j], j - p)
    BY <1>3, <2>1 DEF Track
  <2> DEFINE n == hs[p].n
  <2>3. hs[j].n = n + (j - p) /\ hs[j].n = n + 1 + q /\ n \in Nat
    BY <1>4, <2>2 DEF Apart
  <2> HIDE DEF n
  <2>4. p \in Nat /\ j \in Nat /\ q \in Nat
    BY <1>1
  <2>5. j - p = 1 + q
    BY <2>3, <2>4
  <2> QED BY <2>4, <2>5
<1>6. RotateAt * LenSize < s[p].len /\ s[p].len \in Nat
  BY TooLong DEF UnitsOK, UnitOK
<1>7. q < RotateAt
  BY <1>4, CryptoAssumption
<1>8. /\ ps[p + 1] \in Nat /\ ps[j] = ps[p + 1] + q * HdrSize
      /\ s[p + 1].size = s[p].len + Tag
  BY <1>2, <1>3 DEF Laid, BodySize
<1>9. CASE q = 0
  <2>1. s[p].len + Tag = LenSize + Tag
    BY <1>2, <1>5, <1>8, <1>9 DEF HdrSize
  <2>2. LenSize <= RotateAt * LenSize
    BY CryptoAssumption
  <2> QED BY <1>6, <2>1, <2>2, CryptoAssumption
<1>10. CASE q # 0
  <2> DEFINE e == q - 1
  <2>1. e \in Nat /\ q = e + 1 /\ p + 2 \in 1..(Len(s) + 1) /\ p + 2 <= j /\ j - (p + 2) = e
    BY <1>3, <1>5, <1>10
  <2>2. ps[p + 2] = ps[p + 1] + s[p].len + Tag
    <3>1. (p + 1) + 1 = p + 2 /\ ps[(p + 1) + 1] = ps[p + 1] + s[p + 1].size
      BY <1>3 DEF Laid
    <3> QED BY <1>6, <1>8, <3>1, CryptoAssumption
  <2>3. ps[p + 2] + e * Tag <= ps[j]
    BY <1>3, <2>1 DEF Laid
  <2> HIDE DEF e
  <2>4. q * Tag = e * Tag + Tag
    BY <2>1, OneMoreTag
  <2>5. q * HdrSize = q * LenSize + q * Tag
    BY CryptoAssumption DEF HdrSize
  <2>6. q * LenSize <= RotateAt * LenSize
    BY <1>7, CryptoAssumption
  <2>7. /\ q * LenSize \in Nat /\ q * Tag \in Nat /\ e * Tag \in Nat /\ Tag \in Nat
        /\ RotateAt * LenSize \in Nat /\ s[p].len \in Nat
    BY <1>6, <2>1, CryptoAssumption
  <2>8. ps[p + 1] + s[p].len + Tag + e * Tag <= ps[p + 1] + (q * LenSize + (e * Tag + Tag))
    BY <1>8, <2>2, <2>3, <2>4, <2>5
  <2> DEFINE x == q * LenSize
             y == e * Tag
             z == ps[p + 1]
             len == s[p].len
  <2>9. /\ x \in Nat /\ y \in Nat /\ z \in Nat /\ len \in Nat /\ Tag \in Nat
        /\ z + len + Tag + y <= z + (x + (y + Tag))
    BY <1>8, <2>7, <2>8
  <2> HIDE DEF x, y, z, len
  <2>10. len <= x
    BY <2>9
  <2> QED BY <1>6, <2>6, <2>7, <2>10 DEF x, len
<1> QED BY <1>9, <1>10

-----------------------------------------------------------------------------
(* From the peer to the client *)

\* The unit that lnsocket_read is due to read.
Due == 2 * Len(got) + 1

\* While no call has failed, lnsocket_read is on the schedule and in place.
OnTrack(hs, ps) ==
  /\ pc = "idle" => rx = hs[Due] /\ pos = ps[Due]
  /\ pc = "hdr" => rx = hs[Due] /\ pos + want = ps[Due] + HdrSize
  /\ pc = "body" => /\ Due \in 1..Len(inb)
                    /\ rx = hs[Due + 1] /\ size = inb[Due].len
                    /\ pos + want = ps[Due + 1] + BodySize(size)

\* After a failure there is nothing to read any more, or the body of a message
\* that did not fit is read as one header after another, q of them so far.
Ended == closed /\ pos = inLen

OffTrack(hs, ps, p, q) ==
  /\ p % 2 = 1 /\ ~Fits(inb[p].len)
  /\ rx.k = hs[p].k /\ rx.n = hs[p].n + 1 + q
  /\ pc = "idle" => pos = ps[p + 1] + q * HdrSize
  /\ pc = "hdr" => pos + want = ps[p + 1] + q * HdrSize + HdrSize

InSteps(hs, ps) ==
  /\ Track(hs, inb, ptx) /\ Laid(ps, inb)
  /\ inLen <= ps[Len(inb) + 1] /\ (~closed => inLen = ps[Len(inb) + 1])
  /\ 2 * Len(got) <= Len(inb)
  /\ \A i \in 1..Len(got) : got[i] = inb[2 * i].plain
  /\ pc # "idle" => want # 0
  /\ ~failed => OnTrack(hs, ps)
  /\ failed => /\ pc # "body"
               /\ Ended \/ \E p \in 1..Len(inb), q \in Nat : OffTrack(hs, ps, p, q)

InInv == TypeOK /\ \E hs, ps : InSteps(hs, ps)

LEMMA SizeBack ==
  ASSUME NEW a \in Nat, NEW b \in Nat, NEW c \in Nat, NEW d \in Nat, a + b = c + d
  PROVE  a + b - d = c
OBVIOUS

\* The unit that is due lies in the stream or is the next to come.
LEMMA DueInStream ==
  ASSUME TypeOK, NEW hs, NEW ps, InSteps(hs, ps)
  PROVE  /\ Len(inb) \in Nat /\ Len(got) \in Nat /\ UnitsOK(inb)
         /\ Due \in 1..(Len(inb) + 1) /\ Due % 2 = 1
         /\ Due \in 1..Len(inb) => Due + 1 \in 1..Len(inb) /\ Due + 1 \in 1..(Len(inb) + 1)
         /\ \A i \in 1..(Len(inb) + 1) : ps[i] \in Nat
<1>1. Len(inb) \in Nat /\ Len(got) \in Nat /\ UnitsOK(inb)
  BY DEF TypeOK, UnitsOK
<1>2. 2 * Len(got) <= Len(inb) /\ Len(inb) % 2 = 0
  BY DEF InSteps, Track
<1>3. \A i \in 1..(Len(inb) + 1) : ps[i] \in Nat
  BY DEF InSteps, Laid
<1>4. Due \in 1..(Len(inb) + 1) /\ Due % 2 = 1
  BY <1>1, <1>2 DEF Due
<1>5. Due \in 1..Len(inb) => Due + 1 \in 1..Len(inb) /\ Due + 1 \in 1..(Len(inb) + 1)
  BY <1>1, <1>2, <1>4
<1> QED BY <1>1, <1>3, <1>4, <1>5

\* The header that is due: it is the only unit that opens, and it is whole.
LEMMA HeaderDue ==
  ASSUME TypeOK, NEW hs, NEW ps, InSteps(hs, ps), ~failed, pc = "hdr", want <= inLen - pos
  PROVE  /\ Due \in 1..Len(inb)
         /\ Opens(rx, pos + want - HdrSize, HdrSize, inb) = {inb[Due]}
         /\ inb[Due].head /\ inb[Due].len \in Nat
         /\ AfterDecryptHeader(rx) = hs[Due + 1]
         /\ pos + want = ps[Due + 1]
<1>1. /\ Len(inb) \in Nat /\ UnitsOK(inb) /\ Due \in 1..(Len(inb) + 1) /\ Due % 2 = 1
      /\ \A i \in 1..(Len(inb) + 1) : ps[i] \in Nat
  BY DueInStream
<1>2. /\ rx = hs[Due] /\ pos + want = ps[Due] + HdrSize
      /\ Track(hs, inb, ptx) /\ Laid(ps, inb) /\ inLen <= ps[Len(inb) + 1]
  BY DEF InSteps, OnTrack
<1>3. HdrSize \in Nat \ {0} /\ pos \in Nat /\ want \in Nat /\ inLen \in Nat
  BY Sizes DEF TypeOK
<1>4. Due \in 1..Len(inb)
  <2>1. ps[Due] + HdrSize <= inLen
    BY <1>2, <1>3
  <2>2. Len(inb) + 1 \in 1..(Len(inb) + 1)
    BY <1>1
  <2>3. Due # Len(inb) + 1
    BY <1>1, <1>2, <1>3, <2>1, <2>2
  <2> QED BY <1>1, <2>3
<1>5. /\ inb[Due].head /\ inb[Due].size = HdrSize
      /\ ps[Due + 1] = ps[Due] + HdrSize
  BY <1>1, <1>2, <1>4 DEF Laid
<1>6. pos + want - HdrSize = ps[Due]
  <2>1. ps[Due] \in Nat /\ pos + want = ps[Due] + HdrSize
    BY <1>1, <1>2
  <2> QED BY <1>3, <2>1, SizeBack
<1>7. Opens(rx, ps[Due], inb[Due].size, inb) = {inb[Due]}
  <2> PICK p \in 1..Len(inb) : p = Due
    BY <1>4
  <2>1. UnitsOK(inb) /\ Track(hs, inb, ptx) /\ Laid(ps, inb)
    BY <1>1, <1>2
  <2>2. Opens(hs[p], ps[p], inb[p].size, inb) = {inb[p]}
    BY <2>1, OpensHere
  <2> QED BY <1>2, <2>2
<1>8. AfterDecryptHeader(rx) = hs[Due + 1]
  <2>1. hs[Due + 1] = PeerStep(hs[Due])
    BY <1>2, <1>4 DEF Track
  <2>2. HalfOK(rx) /\ rx.n < RotateAt /\ rx.n % 2 = 0
    BY <1>1, <1>2 DEF Track
  <2> QED BY <1>2, <2>1, <2>2, StepsAlike
<1>9. inb[Due].len \in Nat
  BY <1>1, <1>4 DEF UnitsOK, UnitOK
<1> QED BY <1>2, <1>4, <1>5, <1>6, <1>7, <1>8, <1>9

\* The body that is due, likewise.
LEMMA BodyDue ==
  ASSUME TypeOK, NEW hs, NEW ps, InSteps(hs, ps), pc = "body"
  PROVE  /\ Due + 1 \in 1..Len(inb) /\ ~failed
         /\ Opens(rx, pos + want - BodySize(size), BodySize(size), inb) = {inb[Due + 1]}
         /\ AfterDecryptBody(rx, TRUE) = hs[Due + 2]
         /\ pos + want = ps[Due + 2]
<1>1. ~failed /\ OnTrack(hs, ps)
  BY DEF InSteps
<1>2. /\ Len(inb) \in Nat /\ UnitsOK(inb) /\ Due \in 1..(Len(inb) + 1) /\ Due % 2 = 1
      /\ Due \in 1..Len(inb) => Due + 1 \in 1..Len(inb) /\ Due + 1 \in 1..(Len(inb) + 1)
      /\ \A i \in 1..(Len(inb) + 1) : ps[i] \in Nat
  BY DueInStream
<1>3. /\ Due \in 1..Len(inb) /\ Due + 1 \in 1..Len(inb) /\ Due + 1 \in 1..(Len(inb) + 1)
      /\ rx = hs[Due + 1] /\ size = inb[Due].len
      /\ pos + want = ps[Due + 1] + BodySize(size)
      /\ Track(hs, inb, ptx) /\ Laid(ps, inb)
  BY <1>1, <1>2 DEF OnTrack, InSteps
<1>4. BodySize(size) \in Nat /\ pos \in Nat /\ want \in Nat
  BY Sizes DEF TypeOK
<1>5. (Due + 1) + 1 = Due + 2
  BY <1>2
<1>6. inb[Due + 1].size = BodySize(size) /\ ps[Due + 2] = ps[Due + 1] + BodySize(size)
  <2>1. inb[Due + 1].size = BodySize(size)
    BY <1>2, <1>3 DEF Laid
  <2>2. ps[(Due + 1) + 1] = ps[Due + 1] + inb[Due + 1].size
    BY <1>3 DEF Laid
  <2> QED BY <1>5, <2>1, <2>2
<1>7. pos + want - BodySize(size) = ps[Due + 1]
  <2>1. ps[Due + 1] \in Nat /\ pos + want = ps[Due + 1] + BodySize(size)
    BY <1>2, <1>3
  <2> QED BY <1>4, <2>1, SizeBack
<1>8. Opens(rx, ps[Due + 1], inb[Due + 1].size, inb) = {inb[Due + 1]}
  <2> PICK p \in 1..Len(inb) : p = Due + 1
    BY <1>3
  <2>1. UnitsOK(inb) /\ Track(hs, inb, ptx) /\ Laid(ps, inb)
    BY <1>2, <1>3
  <2>2. Opens(hs[p], ps[p], inb[p].size, inb) = {inb[p]}
    BY <2>1, OpensHere
  <2> QED BY <1>3, <2>2
<1>9. AfterDecryptBody(rx, TRUE) = hs[Due + 2]
  <2>1. hs[Due + 1] = PeerStep(hs[Due]) /\ hs[(Due + 1) + 1] = PeerStep(hs[Due + 1])
    BY <1>3 DEF Track
  <2>2. HalfOK(hs[Due]) /\ hs[Due].n < RotateAt /\ hs[Due].n % 2 = 0
    BY <1>2, <1>3 DEF Track
  <2>3. AfterDecryptBody(PeerStep(hs[Due]), TRUE) = PeerStep(PeerStep(hs[Due]))
    BY <2>2, StepsAlike
  <2> QED BY <1>3, <1>5, <2>1, <2>3
<1> QED BY <1>1, <1>3, <1>6, <1>7, <1>8, <1>9

\* Once off the track no header opens, and the call fails as the one before.
LEMMA HeaderOff ==
  ASSUME TypeOK, NEW hs, NEW ps, InSteps(hs, ps), failed, pc = "hdr", want <= inLen - pos
  PROVE  /\ Opens(rx, pos + want - HdrSize, HdrSize, inb) = {}
         /\ \E p \in 1..Len(inb), q \in Nat :
              /\ p % 2 = 1 /\ ~Fits(inb[p].len)
              /\ AfterDecryptHeader(rx).k = hs[p].k
              /\ AfterDecryptHeader(rx).n = hs[p].n + 1 + q
              /\ pos + want = ps[p + 1] + q * HdrSize
<1>1. Len(inb) \in Nat /\ UnitsOK(inb) /\ Track(hs, inb, ptx) /\ Laid(ps, inb)
      /\ \A i \in 1..(Len(inb) + 1) : ps[i] \in Nat
  BY DueInStream DEF InSteps
<1>2. HdrSize \in Nat \ {0} /\ pos \in Nat /\ want \in Nat /\ inLen \in Nat /\ want # 0
  BY Sizes DEF TypeOK, InSteps
<1>3. ~Ended
  BY <1>2 DEF Ended
<1>4. PICK p \in 1..Len(inb), q \in Nat : OffTrack(hs, ps, p, q)
  BY <1>3 DEF InSteps
<1>5. /\ p % 2 = 1 /\ ~Fits(inb[p].len) /\ rx.k = hs[p].k /\ rx.n = hs[p].n + 1 + q
      /\ pos + want = ps[p + 1] + q * HdrSize + HdrSize
  BY <1>4 DEF OffTrack
<1>6. Opens(rx, ps[p + 1] + q * HdrSize, HdrSize, inb) = {}
  BY <1>1, <1>5, LostOpensNothing
<1>7. p + 1 \in 1..(Len(inb) + 1) /\ p \in 1..(Len(inb) + 1) /\ ps[p + 1] \in Nat
  <2>1. p + 1 \in 1..(Len(inb) + 1) /\ p \in 1..(Len(inb) + 1)
    BY <1>1
  <2> QED BY <1>1, <2>1
<1>8. pos + want - HdrSize = ps[p + 1] + q * HdrSize
  <2> DEFINE x == q * HdrSize
  <2>1. x \in Nat /\ pos + want = ps[p + 1] + x + HdrSize
    BY <1>2, <1>5
  <2> HIDE DEF x
  <2>2. pos + want - HdrSize = ps[p + 1] + x
    BY <1>2, <1>7, <2>1
  <2> QED BY <2>2 DEF x
<1>9. /\ q + 1 \in Nat /\ (q + 1) * HdrSize = q * HdrSize + HdrSize
  BY <1>2
<1>10. AfterDecryptHeader(rx).k = rx.k /\ AfterDecryptHeader(rx).n = rx.n + 1
  BY DEF AfterDecryptHeader, TypeOK, HalfOK
<1>11. hs[p].n \in Nat
  BY <1>1, <1>7 DEF Track, HalfOK
<1>12. AfterDecryptHeader(rx).n = hs[p].n + 1 + (q + 1)
  <2> DEFINE n == hs[p].n
  <2>1. AfterDecryptHeader(rx).n = (n + 1 + q) + 1 /\ n \in Nat
    BY <1>5, <1>10, <1>11
  <2> HIDE DEF n
  <2>2. AfterDecryptHeader(rx).n = n + 1 + (q + 1)
    BY <2>1
  <2> QED BY <2>2 DEF n
<1>13. pos + want = ps[p + 1] + (q + 1) * HdrSize
  <2> DEFINE x == q * HdrSize
             start == ps[p + 1]
  <2>1. x \in Nat /\ start \in Nat /\ HdrSize \in Nat /\ pos + want = start + x + HdrSize
    BY <1>2, <1>5, <1>7
  <2>2. (q + 1) * HdrSize = x + HdrSize
    BY <1>9
  <2> HIDE DEF x, start
  <2>3. pos + want = start + (x + HdrSize)
    BY <2>1
  <2> QED BY <2>2, <2>3 DEF start
<1> QED BY <1>5, <1>6, <1>8, <1>9, <1>10, <1>12, <1>13

-----------------------------------------------------------------------------
(* Every step keeps lnsocket_read on the track, or off it *)

LEMMA InFrame ==
  ASSUME NEW hs, NEW ps, InSteps(hs, ps),
         UNCHANGED <<rx, pc, want, size, got, failed, inb, inLen, pos, closed, ptx>>
  PROVE  InSteps(hs, ps)'
BY DEF InSteps, OnTrack, OffTrack, Ended, Due

\* What a step of the client leaves as it is.
LEMMA StreamKept ==
  ASSUME NEW hs, NEW ps, InSteps(hs, ps), UNCHANGED <<inb, inLen, closed, ptx>>
  PROVE  /\ Track(hs, inb', ptx') /\ Laid(ps, inb')
         /\ inLen' <= ps[Len(inb') + 1] /\ (~closed' => inLen' = ps[Len(inb') + 1])
BY DEF InSteps

LEMMA InReadCall ==
  ASSUME TypeOK, NEW hs, NEW ps, InSteps(hs, ps), ReadCall
  PROVE  InSteps(hs, ps)'
<1>1. /\ pc = "idle" /\ pc' = "hdr" /\ want' = HdrSize
      /\ UNCHANGED <<rx, size, got, failed, inb, inLen, pos, closed, ptx>>
  BY DEF ReadCall, inVars, peerVars
<1>2. HdrSize \in Nat \ {0}
  BY Sizes
<1>3. ~failed => OnTrack(hs, ps)'
  BY <1>1 DEF InSteps, OnTrack, Due
<1>4. failed => /\ pc' # "body"
                /\ Ended' \/ \E p \in 1..Len(inb'), q \in Nat : OffTrack(hs, ps, p, q)'
  <2>1. ASSUME NEW p \in 1..Len(inb), NEW q \in Nat, OffTrack(hs, ps, p, q)
        PROVE  OffTrack(hs, ps, p, q)'
    BY <1>1, <2>1 DEF OffTrack
  <2>2. Ended => Ended'
    BY <1>1 DEF Ended
  <2> QED BY <1>1, <2>1, <2>2 DEF InSteps
<1>5. /\ 2 * Len(got') <= Len(inb')
      /\ \A i \in 1..Len(got') : got'[i] = inb'[2 * i].plain
  BY <1>1 DEF InSteps
<1> QED BY <1>1, <1>2, <1>3, <1>4, <1>5, StreamKept DEF InSteps

LEMMA InReadPart ==
  ASSUME TypeOK, NEW hs, NEW ps, InSteps(hs, ps), ReadPart
  PROVE  InSteps(hs, ps)'
<1>1. PICK done \in Chunks \cup {inLen - pos} :
        done < want /\ done <= inLen - pos /\ pos' = pos + done /\ want' = want - done
  BY DEF ReadPart
<1>2. /\ pc # "idle" /\ pos < inLen
      /\ UNCHANGED <<rx, pc, size, got, failed, inb, inLen, closed, ptx>>
  BY DEF ReadPart, peerVars
<1>3. done \in Nat /\ pos \in Nat /\ want \in Nat /\ inLen \in Nat
  BY <1>1, <1>2, BoundAssumption DEF TypeOK
<1>4. pos' + want' = pos + want /\ want' # 0
  BY <1>1, <1>3
<1>5. ~failed => OnTrack(hs, ps)'
  BY <1>2, <1>4 DEF InSteps, OnTrack, Due
<1>6. failed => /\ pc' # "body"
                /\ Ended' \/ \E p \in 1..Len(inb'), q \in Nat : OffTrack(hs, ps, p, q)'
  <2>1. ASSUME NEW p \in 1..Len(inb), NEW q \in Nat, OffTrack(hs, ps, p, q)
        PROVE  OffTrack(hs, ps, p, q)'
    BY <1>2, <1>4, <2>1 DEF OffTrack
  <2>2. ~Ended
    BY <1>2, <1>3 DEF Ended
  <2> QED BY <1>2, <2>1, <2>2 DEF InSteps
<1>7. /\ 2 * Len(got') <= Len(inb')
      /\ \A i \in 1..Len(got') : got'[i] = inb'[2 * i].plain
  BY <1>2 DEF InSteps
<1> QED BY <1>2, <1>4, <1>5, <1>6, <1>7, StreamKept DEF InSteps

LEMMA InReadHeader ==
  ASSUME TypeOK, NEW hs, NEW ps, InSteps(hs, ps), ReadHeader
  PROVE  InSteps(hs, ps)'
<1> DEFINE hits == Opens(rx, pos' - HdrSize, HdrSize, inb)
<1>1. /\ pc = "hdr" /\ want <= inLen - pos /\ pos' = pos + want
      /\ rx' = AfterDecryptHeader(rx)
      /\ \/ hits = {} /\ ReadFails
         \/ \E u \in hits : \E len \in LengthsIn(u) :
              \/ ~Fits(len) /\ ReadFails
              \/ /\ Fits(len)
                 /\ pc' = "body" /\ size' = len /\ want' = BodySize(len)
                 /\ UNCHANGED failed
      /\ UNCHANGED <<got, inb, inLen, closed, ptx>>
  BY Zenon DEF ReadHeader, peerVars
<1>2. hits = Opens(rx, pos + want - HdrSize, HdrSize, inb)
  <2>1. pos' = pos + want
    BY DEF ReadHeader
  <2>2. pos' - HdrSize = pos + want - HdrSize
    BY <2>1, Sizes DEF TypeOK
  <2> QED BY <2>2
<1>3. /\ 2 * Len(got') <= Len(inb')
      /\ \A i \in 1..Len(got') : got'[i] = inb'[2 * i].plain
  BY <1>1 DEF InSteps
<1>4. CASE failed
  <2>1. /\ hits = {}
        /\ \E p \in 1..Len(inb), q \in Nat :
             /\ p % 2 = 1 /\ ~Fits(inb[p].len)
             /\ AfterDecryptHeader(rx).k = hs[p].k
             /\ AfterDecryptHeader(rx).n = hs[p].n + 1 + q
             /\ pos + want = ps[p + 1] + q * HdrSize
    BY <1>1, <1>4, <1>2, HeaderOff
  <2>2. pc' = "idle" /\ failed'
    BY <1>1, <2>1 DEF ReadFails
  <2> HIDE DEF hits
  <2>3. \E p \in 1..Len(inb'), q \in Nat : OffTrack(hs, ps, p, q)'
    BY <1>1, <2>1, <2>2 DEF OffTrack
  <2> QED BY <1>1, <1>3, <2>2, <2>3, StreamKept DEF InSteps
<1>5. CASE ~failed
  <2>1. /\ Due \in 1..Len(inb)
        /\ hits = {inb[Due]}
        /\ inb[Due].head /\ inb[Due].len \in Nat
        /\ AfterDecryptHeader(rx) = hs[Due + 1]
        /\ pos + want = ps[Due + 1]
    BY <1>1, <1>5, <1>2, HeaderDue
  <2> DEFINE len == inb[Due].len
  <2>2. \/ ~Fits(len) /\ ReadFails
        \/ pc' = "body" /\ size' = len /\ want' = BodySize(len) /\ UNCHANGED failed
    <3>1. LengthsIn(inb[Due]) = {len}
      BY <2>1 DEF LengthsIn
    <3> HIDE DEF hits, len
    <3> QED BY <1>1, <2>1, <3>1
  <2>3. CASE ~Fits(len) /\ ReadFails
    <3>1. pc' = "idle" /\ failed'
      BY <2>3 DEF ReadFails
    <3>2. /\ Due % 2 = 1 /\ Due \in 1..(Len(inb) + 1)
      BY DueInStream
    <3>3. /\ Track(hs, inb, ptx)
      BY DEF InSteps
    <3>4. /\ hs[Due + 1] = PeerStep(hs[Due]) /\ HalfOK(hs[Due])
          /\ hs[Due].n < RotateAt /\ hs[Due].n % 2 = 0
      BY <2>1, <3>2, <3>3 DEF Track
    <3>5. hs[Due + 1].k = hs[Due].k /\ hs[Due + 1].n = hs[Due].n + 1 /\ hs[Due].n \in Nat
      BY <3>4, StepForward DEF HalfOK
    <3>6. ps[Due + 1] \in Nat
      BY <2>1, DueInStream
    <3>7. 0 \in Nat /\ hs[Due].n + 1 = hs[Due].n + 1 + 0
          /\ ps[Due + 1] = ps[Due + 1] + 0 * HdrSize
      BY <3>5, <3>6, Sizes
    <3>8. OffTrack(hs, ps, Due, 0)'
      BY <1>1, <2>1, <2>3, <3>1, <3>2, <3>5, <3>7 DEF OffTrack, Due
    <3>9. \E p \in 1..Len(inb'), q \in Nat : OffTrack(hs, ps, p, q)'
      <4>1. Due' = Due /\ Due \in 1..Len(inb')
        BY <1>1, <2>1 DEF Due
      <4> QED BY <3>7, <3>8, <4>1
    <3> QED BY <1>1, <1>3, <3>1, <3>9, StreamKept DEF InSteps
  <2>4. CASE pc' = "body" /\ size' = len /\ want' = BodySize(len) /\ UNCHANGED failed
    <3>1. want' # 0 /\ want' \in Nat
      BY <2>1, <2>4, Sizes
    <3>2. OnTrack(hs, ps)'
      <4>1. Due' = Due
        BY <1>1 DEF Due
      <4>2. pos' = ps[Due + 1] /\ pos' \in Nat
        BY <1>1, <2>1 DEF TypeOK
      <4>3. pos' + want' = ps[Due + 1] + BodySize(size')
        BY <2>4, <4>2
      <4> QED BY <1>1, <2>1, <2>4, <4>1, <4>3 DEF OnTrack
    <3> QED BY <1>1, <1>3, <1>5, <2>4, <3>1, <3>2, StreamKept DEF InSteps
  <2> QED BY <2>2, <2>3, <2>4
<1> QED BY <1>4, <1>5

\* A body that is read is returned: it is the next message the peer sent.
LEMMA ReadBodyReturns ==
  ASSUME TypeOK, NEW hs, NEW ps, InSteps(hs, ps), ReadBody
  PROVE  /\ ~failed /\ UNCHANGED failed /\ Due + 1 \in 1..Len(inb)
         /\ got' = Append(got, inb[Due + 1].plain)
         /\ pc' = "idle" /\ rx' = hs[Due + 2] /\ pos' = ps[Due + 2]
         /\ UNCHANGED <<inb, inLen, closed, ptx>>
<1> DEFINE hits == Opens(rx, pos' - BodySize(size), BodySize(size), inb)
<1>1. /\ pc = "body" /\ want <= inLen - pos /\ pos' = pos + want
      /\ rx' = AfterDecryptBody(rx, hits # {})
      /\ \/ hits = {} /\ ReadFails /\ UNCHANGED got
         \/ \E u \in hits : /\ got' = Append(got, u.plain)
                            /\ pc' = "idle" /\ UNCHANGED failed
      /\ UNCHANGED <<inb, inLen, closed, ptx>>
  BY Zenon DEF ReadBody, peerVars
<1>2. hits = Opens(rx, pos + want - BodySize(size), BodySize(size), inb)
  <2>1. pos' = pos + want
    BY DEF ReadBody
  <2>2. pos' - BodySize(size) = pos + want - BodySize(size)
    BY <2>1, Sizes DEF TypeOK
  <2> QED BY <2>2
<1>3. /\ Due + 1 \in 1..Len(inb) /\ ~failed
      /\ hits = {inb[Due + 1]}
      /\ AfterDecryptBody(rx, TRUE) = hs[Due + 2]
      /\ pos + want = ps[Due + 2]
  BY <1>1, <1>2, BodyDue
<1> HIDE DEF hits
<1>4. (hits # {}) = TRUE
  BY <1>3
<1> QED BY <1>1, <1>3, <1>4

LEMMA InReadBody ==
  ASSUME TypeOK, NEW hs, NEW ps, InSteps(hs, ps), ReadBody
  PROVE  InSteps(hs, ps)'
<1>1. /\ ~failed /\ UNCHANGED failed /\ Due + 1 \in 1..Len(inb)
      /\ got' = Append(got, inb[Due + 1].plain)
      /\ pc' = "idle" /\ rx' = hs[Due + 2] /\ pos' = ps[Due + 2]
      /\ UNCHANGED <<inb, inLen, closed, ptx>>
  BY ReadBodyReturns
<1>2. Len(got) \in Nat /\ Len(inb) \in Nat /\ got \in Seq(Msg \cup {NotMsg})
  BY DEF TypeOK, UnitsOK
<1>3. /\ Len(got') = Len(got) + 1
      /\ \A i \in 1..Len(got) : got'[i] = got[i]
      /\ got'[Len(got) + 1] = inb[Due + 1].plain
  BY <1>1, <1>2
<1>4. Due' = Due + 2 /\ 2 * (Len(got) + 1) = Due + 1
  BY <1>2, <1>3 DEF Due
<1>5. 2 * Len(got') <= Len(inb')
  BY <1>1, <1>2, <1>3, <1>4
<1>6. \A i \in 1..Len(got') : got'[i] = inb'[2 * i].plain
  <2>1. \A i \in 1..Len(got) : got[i] = inb[2 * i].plain
    BY DEF InSteps
  <2>2. \A i \in 1..Len(got') : i \in 1..Len(got) \/ i = Len(got) + 1
    BY <1>2, <1>3
  <2> QED BY <1>1, <1>3, <1>4, <2>1, <2>2
<1>7. OnTrack(hs, ps)'
  BY <1>1, <1>4 DEF OnTrack
<1> QED BY <1>1, <1>5, <1>6, <1>7, StreamKept DEF InSteps

LEMMA InReadEof ==
  ASSUME TypeOK, NEW hs, NEW ps, InSteps(hs, ps), ReadEof
  PROVE  InSteps(hs, ps)'
<1>1. /\ pc' = "idle" /\ failed' /\ closed /\ pos = inLen
      /\ UNCHANGED <<rx, got, inb, inLen, pos, closed, ptx>>
  BY DEF ReadEof, ReadFails, inVars, peerVars
<1>2. Ended'
  BY <1>1 DEF Ended
<1>3. /\ 2 * Len(got') <= Len(inb')
      /\ \A i \in 1..Len(got') : got'[i] = inb'[2 * i].plain
  BY <1>1 DEF InSteps
<1> QED BY <1>1, <1>2, <1>3, StreamKept DEF InSteps

LEMMA InHangUp ==
  ASSUME TypeOK, NEW hs, NEW ps, InSteps(hs, ps), HangUp,
         UNCHANGED <<rx, pc, want, size, got, failed, ptx>>
  PROVE  InSteps(hs, ps)'
<1>1. PICK lost \in Lost \cup {0} : lost <= inLen - pos /\ inLen' = inLen - lost
  BY DEF HangUp
<1>2. ~closed /\ closed' = TRUE /\ UNCHANGED <<inb, pos>>
  BY DEF HangUp
<1>3. inLen = ps[Len(inb) + 1] /\ inLen' \in Nat /\ inLen' <= inLen /\ inLen \in Nat
  BY <1>1, <1>2, BoundAssumption DEF TypeOK, InSteps
<1>4. inLen' <= ps[Len(inb') + 1]
  BY <1>2, <1>3
<1>5. ~failed => OnTrack(hs, ps)'
  BY <1>2 DEF InSteps, OnTrack, Due
<1>6. failed => /\ pc' # "body"
                /\ Ended' \/ \E p \in 1..Len(inb'), q \in Nat : OffTrack(hs, ps, p, q)'
  <2>1. ASSUME NEW p \in 1..Len(inb), NEW q \in Nat, OffTrack(hs, ps, p, q)
        PROVE  OffTrack(hs, ps, p, q)'
    BY <1>2, <2>1 DEF OffTrack
  <2>2. ~Ended
    BY <1>2 DEF Ended
  <2> QED BY <1>2, <2>1, <2>2 DEF InSteps
<1>7. /\ Track(hs, inb', ptx') /\ Laid(ps, inb')
      /\ 2 * Len(got') <= Len(inb')
      /\ \A i \in 1..Len(got') : got'[i] = inb'[2 * i].plain
      /\ pc' # "idle" => want' # 0
  BY <1>2 DEF InSteps
<1> QED BY <1>2, <1>4, <1>5, <1>6, <1>7 DEF InSteps

\* The units a and b that the peer seals for message m.
PeerSeals(a, b, m) ==
  /\ inb' = inb \o <<a, b>> /\ UnitOK(a) /\ UnitOK(b)
  /\ a.k = ptx.k /\ a.n = ptx.n /\ a.at = inLen /\ a.size = HdrSize
  /\ a.head /\ a.whole /\ a.len = MsgLen[m]
  /\ b.k = PeerStep(ptx).k /\ b.n = PeerStep(ptx).n
  /\ b.at = inLen + HdrSize /\ b.size = BodySize(MsgLen[m]) /\ b.whole
  /\ b.plain = m

LEMMA PeerSendUnits ==
  ASSUME TypeOK, NEW m \in PeerMsgs, PeerSend(m)
  PROVE  \E a, b : PeerSeals(a, b, m)
<1> DEFINE len == MsgLen[m]
           ptx1 == PeerStep(ptx)
           a == Unit(inLen, HdrSize, ptx.k, ptx.n, TRUE, len, NotMsg, TRUE)
           b == Unit(inLen + HdrSize, BodySize(len), ptx1.k, ptx1.n, FALSE, len, m, TRUE)
<1>1. m \in Msg /\ len \in Nat
  BY MsgAssumption
<1>2. HalfOK(ptx1) /\ HalfOK(ptx)
  BY PeerStepKeeps DEF TypeOK
<1>3. /\ ptx.n \in Nat /\ ptx.k.gen \in Nat /\ ptx1.n \in Nat
      /\ ptx1.k.gen \in Nat /\ inLen \in Nat
  BY <1>2 DEF TypeOK, HalfOK
<1>4. HdrSize \in Nat /\ BodySize(len) \in Nat /\ inLen + HdrSize \in Nat
  BY <1>1, <1>3, Sizes
<1>5. UnitOK(a)
  BY <1>1, <1>3, <1>4, UnitIsOK
<1>6. UnitOK(b)
  BY <1>1, <1>3, <1>4, UnitIsOK
<1>7. inb' = inb \o <<a, b>>
  BY DEF PeerSend
<1>8. /\ a.k = ptx.k /\ a.n = ptx.n /\ a.at = inLen /\ a.size = HdrSize
      /\ a.head /\ a.whole /\ a.len = MsgLen[m]
      /\ b.k = PeerStep(ptx).k /\ b.n = PeerStep(ptx).n
      /\ b.at = inLen + HdrSize /\ b.size = BodySize(MsgLen[m]) /\ b.whole /\ b.plain = m
  BY DEF Unit
<1> HIDE DEF a, b
<1>9. PeerSeals(a, b, m)
  BY <1>5, <1>6, <1>7, <1>8 DEF PeerSeals
<1> QED BY <1>9

LEMMA InPeerSend ==
  ASSUME TypeOK, NEW hs, NEW ps, InSteps(hs, ps), NEW m \in PeerMsgs, PeerSend(m)
  PROVE  \E new, at : InSteps(new, at)'
<1> PICK a, b : PeerSeals(a, b, m)
  BY PeerSendUnits
<1>1. /\ inb' = inb \o <<a, b>> /\ UnitOK(a) /\ UnitOK(b)
      /\ a.k = ptx.k /\ a.n = ptx.n /\ a.at = inLen /\ a.size = HdrSize
      /\ a.head /\ a.whole /\ a.len = MsgLen[m]
      /\ b.k = PeerStep(ptx).k /\ b.n = PeerStep(ptx).n
      /\ b.at = inLen + HdrSize /\ b.size = BodySize(MsgLen[m]) /\ b.whole
      /\ b.plain = m
  BY DEF PeerSeals
<1>2. /\ ~closed /\ inLen' = inLen + FrameSize(MsgLen[m])
      /\ ptx' = PeerStep(PeerStep(ptx))
      /\ UNCHANGED <<rx, pc, want, size, got, failed, pos, closed>>
  BY DEF PeerSend, clientVars
<1>3. /\ Track(hs, inb, ptx) /\ Laid(ps, inb) /\ inLen = ps[Len(inb) + 1]
      /\ Len(inb) \in Nat /\ UnitsOK(inb) /\ Len(inb) % 2 = 0
  BY <1>2 DEF InSteps, TypeOK, UnitsOK, Track
<1>4. PICK new : /\ Track(new, inb \o <<a, b>>, PeerStep(PeerStep(ptx)))
                 /\ \A i \in 1..(Len(inb) + 1) : new[i] = hs[i]
  <2>1. UnitsOK(inb) /\ Track(hs, inb, ptx)
    BY <1>3
  <2>2. a.k = ptx.k /\ a.n = ptx.n /\ b.k = PeerStep(ptx).k /\ b.n = PeerStep(ptx).n
    BY <1>1
  <2> QED BY <2>1, <2>2, TrackGrows
<1>5. PICK at : /\ Laid(at, inb \o <<a, b>>)
                /\ \A i \in 1..(Len(inb) + 1) : at[i] = ps[i]
                /\ at[Len(inb) + 3] = ps[Len(inb) + 1] + FrameSize(a.len)
  <2>1. /\ a.at = ps[Len(inb) + 1] /\ a.size = HdrSize /\ a.head /\ a.whole
        /\ b.at = a.at + HdrSize /\ b.size = BodySize(a.len) /\ b.whole
        /\ UnitOK(a) /\ UnitOK(b)
    BY <1>1, <1>3
  <2>2. UnitsOK(inb) /\ Len(inb) % 2 = 0 /\ Laid(ps, inb)
    BY <1>3
  <2> QED BY <2>1, <2>2, LaidGrows
<1>6. /\ Len(inb') = Len(inb) + 2
      /\ \A i \in 1..Len(inb) : inb'[i] = inb[i]
  BY <1>1, <1>3, UnitsAppend
<1>7. Track(new, inb', ptx') /\ Laid(at, inb')
  BY <1>1, <1>2, <1>4, <1>5
<1>8. inLen' = at[Len(inb') + 1]
  BY <1>1, <1>2, <1>3, <1>5, <1>6
<1>9. inLen' <= at[Len(inb') + 1]
  <2>1. FrameSize(MsgLen[m]) \in Nat /\ inLen \in Nat
    BY MsgAssumption, Sizes DEF TypeOK
  <2>2. inLen' \in Nat
    BY <1>2, <2>1
  <2> QED BY <1>8, <2>2
<1>10. 2 * Len(got') <= Len(inb') /\ \A i \in 1..Len(got') : got'[i] = inb'[2 * i].plain
  <2>1. 2 * Len(got) <= Len(inb) /\ \A i \in 1..Len(got) : got[i] = inb[2 * i].plain
    BY DEF InSteps
  <2>2. Len(got) \in Nat /\ Len(inb) \in Nat
    BY DEF TypeOK, UnitsOK
  <2>3. \A i \in 1..Len(got) : 2 * i \in 1..Len(inb)
    BY <2>1, <2>2
  <2>4. \A i \in 1..Len(got) : inb'[2 * i] = inb[2 * i]
    BY <1>6, <2>3
  <2>5. 2 * Len(got) <= Len(inb')
    BY <1>3, <1>6, <2>1, <2>2
  <2> QED BY <1>2, <2>1, <2>4, <2>5
<1>11. ~failed => OnTrack(new, at)'
  <2>1. /\ Due \in 1..(Len(inb) + 1)
        /\ Due \in 1..Len(inb) => Due + 1 \in 1..(Len(inb) + 1)
    BY DueInStream
  <2>2. Due' = Due
    BY <1>2 DEF Due
  <2>3. SUFFICES ASSUME ~failed PROVE OnTrack(new, at)'
    OBVIOUS
  <2>4. OnTrack(hs, ps)
    BY <2>3 DEF InSteps
  <2>5. CASE pc = "idle"
    BY <1>2, <1>4, <1>5, <2>1, <2>2, <2>4, <2>5 DEF OnTrack
  <2>6. CASE pc = "hdr"
    BY <1>2, <1>4, <1>5, <2>1, <2>2, <2>4, <2>6 DEF OnTrack
  <2>7. CASE pc = "body"
    <3>1. /\ Due \in 1..Len(inb) /\ Due + 1 \in 1..(Len(inb) + 1)
          /\ rx = hs[Due + 1] /\ size = inb[Due].len
          /\ pos + want = ps[Due + 1] + BodySize(size)
      BY <2>1, <2>4, <2>7 DEF OnTrack
    <3>2. Due \in 1..Len(inb') /\ inb'[Due] = inb[Due]
      BY <1>3, <1>6, <3>1
    <3>3. new[Due + 1] = hs[Due + 1] /\ at[Due + 1] = ps[Due + 1]
      BY <1>4, <1>5, <3>1
    <3> QED BY <1>2, <2>2, <2>7, <3>1, <3>2, <3>3 DEF OnTrack
  <2> QED BY <2>5, <2>6, <2>7 DEF TypeOK
<1>12. failed => /\ pc' # "body"
                 /\ Ended' \/ \E p \in 1..Len(inb'), q \in Nat : OffTrack(new, at, p, q)'
  <2>1. ASSUME NEW p \in 1..Len(inb), NEW q \in Nat, OffTrack(hs, ps, p, q)
        PROVE  p \in 1..Len(inb') /\ OffTrack(new, at, p, q)'
    <3>1. p \in 1..(Len(inb) + 1) /\ p + 1 \in 1..(Len(inb) + 1) /\ p \in 1..Len(inb')
      BY <1>3, <1>6
    <3>2. inb'[p] = inb[p] /\ new[p] = hs[p] /\ at[p + 1] = ps[p + 1]
      BY <1>4, <1>5, <1>6, <3>1
    <3> QED BY <1>2, <2>1, <3>1, <3>2 DEF OffTrack
  <2>2. ~Ended
    BY <1>2 DEF Ended
  <2> QED BY <1>2, <2>1, <2>2 DEF InSteps
<1>13. pc' # "idle" => want' # 0
  BY <1>2 DEF InSteps
<1>14. InSteps(new, at)'
  BY <1>2, <1>7, <1>8, <1>9, <1>10, <1>11, <1>12, <1>13 DEF InSteps
<1> QED BY <1>14

LEMMA InInit == Init => InInv
<1> SUFFICES ASSUME Init PROVE \E hs, ps : InSteps(hs, ps)
  BY TypeInit DEF InInv
<1>1. /\ Len(inb) = 0 /\ Len(got) = 0 /\ ptx = rx /\ pc = "idle" /\ ~failed
      /\ inLen = 0 /\ pos = 0
  BY DEF Init
<1> DEFINE hs == [i \in 1..1 |-> rx]
           ps == [i \in 1..1 |-> 0]
<1>2. hs[1] = rx /\ ps[1] = 0
  OBVIOUS
<1>3. HalfOK(ptx) /\ ptx.n = 0
  BY HandshakeOK DEF Init, HandshakeRecv
<1> HIDE DEF hs, ps
<1>4. \A i \in 1..(Len(inb) + 1) : i = 1
  BY <1>1
<1>5. Track(hs, inb, ptx)
  BY <1>1, <1>2, <1>3, <1>4, CryptoAssumption DEF Track
<1>6. Laid(ps, inb)
  BY <1>1, <1>2, <1>4, CryptoAssumption DEF Laid
<1>7. Due = 1
  BY <1>1 DEF Due
<1>8. InSteps(hs, ps)
  BY <1>1, <1>2, <1>5, <1>6, <1>7 DEF InSteps, OnTrack
<1> QED BY <1>8

LEMMA InStep == InInv /\ [Next]_vars => InInv'
<1> SUFFICES ASSUME InInv, [Next]_vars PROVE \E hs, ps : InSteps(hs, ps)'
  BY TypeStep DEF InInv
<1>1. TypeOK
  BY DEF InInv
<1>2. PICK hs, ps : InSteps(hs, ps)
  BY DEF InInv
<1>3. ASSUME UNCHANGED <<rx, pc, want, size, got, failed, inb, inLen, pos, closed, ptx>>
      PROVE  InSteps(hs, ps)'
  BY <1>2, <1>3, InFrame
<1>4. CASE ReadCall
  BY <1>1, <1>2, <1>4, InReadCall
<1>5. CASE ReadPart
  BY <1>1, <1>2, <1>5, InReadPart
<1>6. CASE ReadHeader
  BY <1>1, <1>2, <1>6, InReadHeader
<1>7. CASE ReadBody
  BY <1>1, <1>2, <1>7, InReadBody
<1>8. CASE ReadEof
  BY <1>1, <1>2, <1>8, InReadEof
<1>9. ASSUME NEW m \in WriteMsgs, Write(m) PROVE InSteps(hs, ps)'
  BY <1>3, <1>9 DEF Write, inVars, peerVars
<1>10. ASSUME NEW m \in SendMsgs, Send(m) PROVE InSteps(hs, ps)'
  BY <1>3, <1>10 DEF Send, inVars, peerVars
<1>11. ASSUME NEW m \in PeerMsgs, PeerSend(m) PROVE \E new, at : InSteps(new, at)'
  BY <1>1, <1>2, <1>11, InPeerSend
<1>12. CASE PeerHangUp
  BY <1>1, <1>2, <1>12, InHangUp DEF PeerHangUp, clientVars, peerVars
<1>13. CASE PeerReject
  BY <1>1, <1>2, <1>13, InHangUp DEF PeerReject, clientVars, peerVars
<1>14. CASE PeerReceive
  BY <1>3, <1>14 DEF PeerReceive, clientVars, inVars
<1>15. CASE UNCHANGED vars
  BY <1>3, <1>15 DEF vars, clientVars, inVars, peerVars
<1> QED BY <1>4, <1>5, <1>6, <1>7, <1>8, <1>9, <1>10, <1>11, <1>12, <1>13, <1>14, <1>15
        DEF Next, Reading

-----------------------------------------------------------------------------
(* What lnsocket_read promises *)

\* lnsocket_read returns a prefix of what the peer sent: nothing is lost,
\* repeated, reordered, made up or taken for something else, for any lengths,
\* any rotation period and any cut of the stream into reads.
THEOREM ReadsArriveInOrder == Spec => []ClientGotPrefix
<1>1. InInv => ClientGotPrefix
  <2> SUFFICES ASSUME InInv PROVE ClientGotPrefix
    OBVIOUS
  <2>1. PICK hs, ps : InSteps(hs, ps)
    BY DEF InInv
  <2>2. /\ Len(inb) \in Nat /\ Len(got) \in Nat /\ UnitsOK(inb)
        /\ 2 * Len(got) <= Len(inb) /\ Len(inb) % 2 = 0
        /\ \A i \in 1..Len(got) : got[i] = inb[2 * i].plain
    BY <2>1 DEF InInv, InSteps, TypeOK, UnitsOK, Track
  <2>3. PICK n \in Nat : Len(inb) = 2 * n
    <3>1. Len(inb) \div 2 \in Nat /\ Len(inb) = 2 * (Len(inb) \div 2)
      BY <2>2
    <3> QED BY <3>1
  <2>4. Len(Bodies(inb)) = n /\ \A i \in 1..n : Bodies(inb)[i] = inb[2 * i].plain
    BY <2>2, <2>3, BodiesOf
  <2>5. Len(got) <= n /\ \A i \in 1..Len(got) : i \in 1..n
    BY <2>2, <2>3
  <2> QED BY <2>2, <2>4, <2>5 DEF ClientGotPrefix, IsPrefixOf
<1> QED BY <1>1, InInit, InStep, PTL DEF Spec

\* lnsocket_read returns 0 only when the stream has ended or a message did not
\* fit in msgbuf: through any number of rotations the two sides' keys and
\* nonces never come apart by themselves.
THEOREM FailuresExplained == Spec => []FailureExplained
<1>1. InInv => FailureExplained
  <2> SUFFICES ASSUME InInv, failed, ~closed PROVE \E i \in DOMAIN inb : ~Fits(inb[i].len)
    BY DEF FailureExplained
  <2>1. PICK hs, ps : InSteps(hs, ps)
    BY DEF InInv
  <2>2. PICK p \in 1..Len(inb), q \in Nat : OffTrack(hs, ps, p, q)
    BY <2>1 DEF InSteps, Ended
  <2>3. DOMAIN inb = 1..Len(inb)
    BY DEF InInv, TypeOK, UnitsOK
  <2> QED BY <2>2, <2>3 DEF OffTrack
<1> QED BY <1>1, InInit, InStep, PTL DEF Spec

\* With the sizes of the code, what does not fit is one of the last seven lengths
\* that BOLT #8 allows, and nothing else makes lnsocket_read fail.
THEOREM LimitOfReads ==
  ASSUME Tag = 16, MsgBufMem = 131072
  PROVE  Spec => []ReadLimit
<1>1. InInv => ReadLimit
  <2> SUFFICES ASSUME InInv, failed, ~closed PROVE \E i \in DOMAIN inb : inb[i].len >= 65529
    BY DEF ReadLimit
  <2>1. PICK hs, ps : InSteps(hs, ps)
    BY DEF InInv
  <2>2. PICK p \in 1..Len(inb), q \in Nat : OffTrack(hs, ps, p, q)
    BY <2>1 DEF InSteps, Ended
  <2>3. DOMAIN inb = 1..Len(inb) /\ \A i \in 1..Len(inb) : inb[i].len \in Nat
    BY DEF InInv, TypeOK, UnitsOK, UnitOK
  <2>4. PICK i \in 1..Len(inb) : ~Fits(inb[i].len)
    BY <2>2 DEF OffTrack
  <2>5. PICK n \in Nat : n = inb[i].len
    BY <2>3, <2>4
  <2>6. ~(n + 16 + n <= 131072)
    BY <2>4, <2>5 DEF Fits, BodySize
  <2>7. n >= 65529
    BY <2>6
  <2> QED BY <2>3, <2>4, <2>5, <2>7
<1> QED BY <1>1, InInit, InStep, PTL DEF Spec

\* Once lnsocket_read has returned 0 it never returns a message again, however
\* often the caller tries, whatever arrives, and although no flag is kept: the
\* bytes it takes for headers and the nonces it tries never meet a unit.
THEOREM StoppedForGood == Spec => FailStop
<1>1. InInv /\ [Next]_vars => [failed => got' = got]_vars
  <2> SUFFICES ASSUME InInv, [Next]_vars, failed PROVE got' = got
    OBVIOUS
  <2>1. PICK hs, ps : InSteps(hs, ps)
    BY DEF InInv
  <2>2. ~ReadBody
    BY <2>1, ReadBodyReturns DEF InInv
  <2> QED BY <2>2 DEF Next, Reading, ReadCall, ReadPart, ReadHeader, ReadEof, Write, Send,
                      PeerSend, PeerHangUp, PeerReceive, PeerReject, vars, clientVars
<1> QED BY <1>1, InInit, InStep, PTL DEF Spec, FailStop

\* The stream of messages from the peer to the caller of lnsocket_read is a
\* fail-stop FIFO channel, which breaks at the first call that returns 0.
THEOREM InChannelRefined == Spec => InRefines
<1> USE DEF InChannel!chanVars, InChannel!ChanNext
<1>1. Init => InChannel!ChanInit
  BY DEF Init, InChannel!ChanInit, Bodies
<1>2. InInv /\ [Next]_vars => [InChannel!ChanNext]_(InChannel!chanVars)
  <2> SUFFICES ASSUME InInv, [Next]_vars
               PROVE  InChannel!ChanNext \/ UNCHANGED InChannel!chanVars
    OBVIOUS
  <2>1. TypeOK
    BY DEF InInv
  <2>2. PICK hs, ps : InSteps(hs, ps)
    BY DEF InInv
  <2>3. ASSUME UNCHANGED <<inb, got, failed>> PROVE UNCHANGED InChannel!chanVars
    BY <2>3 DEF Bodies
  <2>4. ASSUME UNCHANGED <<inb, got>>, failed'
        PROVE  InChannel!ChanNext \/ UNCHANGED InChannel!chanVars
    <3>1. Bodies(inb)' = Bodies(inb)
      BY <2>4 DEF Bodies
    <3>2. failed' = TRUE
      BY <2>1, <2>4, TypeStep DEF TypeOK
    <3>3. CASE ~failed
      BY <2>4, <3>1, <3>2, <3>3 DEF InChannel!ChanBreak
    <3>4. CASE failed
      BY <2>1, <2>4, <3>1, <3>2, <3>4 DEF TypeOK
    <3> QED BY <3>3, <3>4
  <2>5. CASE ReadBody
    <3>1. /\ ~failed /\ UNCHANGED failed /\ Due + 1 \in 1..Len(inb)
          /\ got' = Append(got, inb[Due + 1].plain) /\ UNCHANGED inb
      BY <2>1, <2>2, <2>5, ReadBodyReturns
    <3>2. /\ Len(inb) \in Nat /\ Len(got) \in Nat /\ UnitsOK(inb) /\ Len(inb) % 2 = 0
      BY <2>1, <2>2 DEF InSteps, Track, TypeOK, UnitsOK
    <3>3. PICK n \in Nat : Len(inb) = 2 * n
      <4>1. Len(inb) \div 2 \in Nat /\ Len(inb) = 2 * (Len(inb) \div 2)
        BY <3>2
      <4> QED BY <4>1
    <3>4. Len(Bodies(inb)) = n /\ \A i \in 1..n : Bodies(inb)[i] = inb[2 * i].plain
      BY <3>2, <3>3, BodiesOf
    <3>5. Len(got) + 1 \in 1..n /\ 2 * (Len(got) + 1) = Due + 1
      BY <3>1, <3>2, <3>3 DEF Due
    <3>6. Bodies(inb)' = Bodies(inb)
      BY <3>1 DEF Bodies
    <3>7. InChannel!ChanReceive
      BY <3>1, <3>2, <3>4, <3>5, <3>6 DEF InChannel!ChanReceive
    <3> QED BY <3>7
  <2>6. ASSUME NEW m \in PeerMsgs, PeerSend(m) PROVE InChannel!ChanNext
    <3> PICK a, b : PeerSeals(a, b, m)
      BY <2>1, <2>6, PeerSendUnits
    <3>1. inb' = inb \o <<a, b>> /\ UnitOK(a) /\ UnitOK(b) /\ b.plain = m
      BY DEF PeerSeals
    <3>2. UnitsOK(inb) /\ Len(inb) % 2 = 0
      BY <2>1, <2>2 DEF InSteps, Track, TypeOK
    <3>3. Bodies(inb)' = Append(Bodies(inb), m)
      <4>1. Bodies(inb \o <<a, b>>) = Append(Bodies(inb), b.plain)
        BY <3>1, <3>2, BodiesAppend
      <4>2. Bodies(inb)' = Bodies(inb')
        BY DEF Bodies
      <4> QED BY <3>1, <4>1, <4>2
    <3>4. InChannel!ChanSend(m)
      BY <2>6, <3>3 DEF PeerSend, clientVars, InChannel!ChanSend
    <3> QED BY <3>4
  <2>7. CASE ReadHeader
    <3>1. UNCHANGED <<inb, got>> /\ (failed' = failed \/ failed')
      BY <2>7 DEF ReadHeader, ReadFails
    <3> QED BY <2>3, <2>4, <3>1
  <2>8. CASE ReadEof
    BY <2>4, <2>8 DEF ReadEof, ReadFails, inVars
  <2>9. CASE ReadCall \/ ReadPart
    BY <2>3, <2>9 DEF ReadCall, ReadPart, inVars
  <2>10. ASSUME NEW m \in WriteMsgs, Write(m) PROVE UNCHANGED InChannel!chanVars
    BY <2>3, <2>10 DEF Write, inVars
  <2>11. ASSUME NEW m \in SendMsgs, Send(m) PROVE UNCHANGED InChannel!chanVars
    BY <2>3, <2>11 DEF Send, inVars
  <2>12. CASE PeerHangUp \/ PeerReceive \/ PeerReject
    BY <2>3, <2>12 DEF PeerHangUp, PeerReceive, PeerReject, HangUp, inVars, clientVars
  <2>13. CASE UNCHANGED vars
    BY <2>3, <2>13 DEF vars, inVars, clientVars
  <2> QED BY <2>5, <2>6, <2>7, <2>8, <2>9, <2>10, <2>11, <2>12, <2>13 DEF Next, Reading
<1> QED BY <1>1, <1>2, InInit, InStep, PTL DEF Spec, InRefines, InChannel!ChanSpec
============================================================================
