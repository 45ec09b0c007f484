----------------------------- MODULE HashProofs -----------------------------
(***************************************************************************)
(* Theorems about HashStream, for any sizes of blocks, digests and size    *)
(* fields, any keys and data and any cut of the data into updates: the     *)
(* digest is the one of FIPS 180-4, the HMAC the one of RFC 2104, and the  *)
(* key derivation the one of RFC 5869.                                     *)
(***************************************************************************)
EXTENDS HashStream, DataProofs

-----------------------------------------------------------------------------
(* Numbers, sequences and their pieces *)

LEMMA Times ==
  ASSUME NEW a \in Nat, NEW b \in Nat, NEW c \in Nat, a <= b
  PROVE  a * c \in Nat /\ b * c \in Nat /\ a * c <= b * c
<1>1. PICK d \in Nat : b = a + d
  <2>1. b - a \in Nat /\ b = a + (b - a)
    OBVIOUS
  <2> QED BY <2>1
<1>2. b * c = a * c + d * c
  BY <1>1
<1>3. d * c \in Nat /\ a * c \in Nat
  OBVIOUS
<1> QED BY <1>2, <1>3

LEMMA Divided ==
  ASSUME NEW n \in Nat, NEW B \in Nat \ {0}
  PROVE  \E q \in Nat, r \in 0..(B - 1) : q = n \div B /\ r = n % B /\ n = q * B + r
<1>1. n \div B \in Nat
  OBVIOUS
<1>2. n % B \in 0..(B - 1)
  OBVIOUS
<1>3. n % B = n - B * (n \div B)
  OBVIOUS
<1>4. PICK q \in Nat : q = n \div B
  BY <1>1
<1>5. PICK r \in 0..(B - 1) : r = n % B
  BY <1>2
<1>6. n = q * B + r
  <2>1. r = n - B * q
    BY <1>3, <1>4, <1>5
  <2>2. B * q = q * B /\ q * B \in Nat
    OBVIOUS
  <2> QED BY <2>1, <2>2
<1> QED BY <1>4, <1>5, <1>6

LEMMA Divides ==
  ASSUME NEW B \in Nat \ {0}, NEW q \in Nat, NEW r \in 0..(B - 1), NEW n, n = q * B + r
  PROVE  n \in Nat /\ n \div B = q /\ n % B = r
<1>1. n \in Nat
  OBVIOUS
<1>2. PICK p \in Nat, s \in 0..(B - 1) : p = n \div B /\ s = n % B /\ n = p * B + s
  BY <1>1, Divided
<1>4. q * B + r = p * B + s
  BY <1>2
<1>5. p = q
  <2>1. CASE p < q
    <3>1. (p + 1) * B <= q * B
      BY <2>1, Times
    <3>2. (p + 1) * B = p * B + B /\ p * B \in Nat /\ q * B \in Nat
      OBVIOUS
    <3> QED BY <1>4, <3>1, <3>2
  <2>2. CASE q < p
    <3>1. (q + 1) * B <= p * B
      BY <2>2, Times
    <3>2. (q + 1) * B = q * B + B /\ p * B \in Nat /\ q * B \in Nat
      OBVIOUS
    <3> QED BY <1>4, <3>1, <3>2
  <2> QED BY <2>1, <2>2
<1>6. s = r
  <2>1. q * B \in Nat
    OBVIOUS
  <2> QED BY <1>4, <1>5, <2>1
<1> QED BY <1>1, <1>2, <1>5, <1>6

-----------------------------------------------------------------------------
(* What the buffer and the chaining value hold *)

\* c has taken in data: q whole blocks of it, and r bytes in the buffer.
HoldsAt(c, data, q, r) ==
  /\ IsSeq(data) /\ IsSeq(c.s) /\ q \in Nat /\ r \in 0..(Block - 1)
  /\ Len(data) = q * Block + r /\ c.bytes = Len(data) /\ Len(c.s) = q
  /\ \A k \in 1..q : IsPiece(c.s[k], data, (k - 1) * Block, Block)
  /\ \A i \in 1..r : c.buf[i] = data[q * Block + i]
Holds(c, data) == \E q, r : HoldsAt(c, data, q, r)

LEMMA BlockIs == Block \in Nat \ {0}
BY HashAssumption

FillsAt(buf, at, data, i) ==
  /\ i <= at => Fill(buf, at, data)[i] = buf[i]
  /\ i > at /\ i <= at + Len(data) => Fill(buf, at, data)[i] = data[i - at]

LEMMA FillIs ==
  ASSUME NEW buf, NEW at \in Nat, NEW data, NEW i \in 1..Block, Len(data) \in Nat
  PROVE  FillsAt(buf, at, data, i)
<1>1. Block \in Nat
  BY BlockIs
<1>2. Fill(buf, at, data)[i] = IF i \in at + 1 .. at + Len(data) THEN data[i - at] ELSE buf[i]
  BY DEF Fill
<1> QED BY <1>1, <1>2 DEF FillsAt

\* The parts of Add, by name.
AddParts(c, data, t, f, u, rest, filled, chunks) ==
  /\ u = (Len(data) - f) \div Block
  /\ rest = SubSeq(data, f + u * Block + 1, Len(data))
  /\ filled = Fill(c.buf, c.bytes % Block, SubSeq(data, 1, f))
  /\ chunks = [k \in 1..u |-> SubSeq(data, f + (k - 1) * Block + 1, f + k * Block)]
  /\ t.s = Transform(IF f > 0 THEN Transform(c.s, <<filled>>) ELSE c.s, chunks)
  /\ t.bytes = c.bytes + Len(data)
  /\ t.buf = Fill(filled, IF f > 0 THEN 0 ELSE c.bytes % Block, rest)

\* The parts that add cuts its data into.
LEMMA AddIs ==
  ASSUME NEW c, NEW data, NEW f,
         f = IF (c.bytes % Block) + Len(data) >= Block THEN Block - (c.bytes % Block) ELSE 0
  PROVE  \E u, rest, filled, chunks : AddParts(c, data, Add(c, data), f, u, rest, filled, chunks)
<1>1. PICK u : u = (Len(data) - f) \div Block
  OBVIOUS
<1>2. PICK rest : rest = SubSeq(data, f + u * Block + 1, Len(data))
  OBVIOUS
<1>3. PICK filled : filled = Fill(c.buf, c.bytes % Block, SubSeq(data, 1, f))
  OBVIOUS
<1>4. PICK chunks :
        chunks = [k \in 1..u |-> SubSeq(data, f + (k - 1) * Block + 1, f + k * Block)]
  OBVIOUS
<1>5. PICK t : t = Add(c, data)
  OBVIOUS
<1>6. t = [s     |-> Transform(IF f > 0 THEN Transform(c.s, <<filled>>) ELSE c.s, chunks),
           bytes |-> c.bytes + Len(data),
           buf   |-> Fill(filled, IF f > 0 THEN 0 ELSE c.bytes % Block, rest)]
  BY <1>1, <1>2, <1>3, <1>4, <1>5, Zenon DEF Add
<1>7. /\ t.s = Transform(IF f > 0 THEN Transform(c.s, <<filled>>) ELSE c.s, chunks)
      /\ t.bytes = c.bytes + Len(data)
      /\ t.buf = Fill(filled, IF f > 0 THEN 0 ELSE c.bytes % Block, rest)
  BY <1>6
<1>8. AddParts(c, data, t, f, u, rest, filled, chunks)
  BY <1>1, <1>2, <1>3, <1>4, <1>7 DEF AddParts
<1> QED BY <1>5, <1>8

\* Data that does not fill the buffer stays in it.
LEMMA AddShort ==
  ASSUME NEW c, NEW data, NEW q, NEW r, HoldsAt(c, data, q, r), NEW x, IsSeq(x),
         r + Len(x) < Block, NEW all, Joined(data, x, all)
  PROVE  HoldsAt(Add(c, x), all, q, r + Len(x))
<1>0. Block \in Nat \ {0} /\ q \in Nat /\ r \in 0..(Block - 1)
  BY BlockIs DEF HoldsAt
<1>1. PICK m \in Nat : m = Len(x)
  BY DEF IsSeq
<1>2. c.bytes % Block = r
  <2>1. c.bytes = q * Block + r
    BY DEF HoldsAt
  <2> QED BY <1>0, <2>1, Divides
<1>3. PICK f : f = 0
  OBVIOUS
<1>4. f = IF (c.bytes % Block) + Len(x) >= Block THEN Block - (c.bytes % Block) ELSE 0
  BY <1>0, <1>1, <1>2, <1>3
<1>5. PICK u, rest, filled, chunks : AddParts(c, x, Add(c, x), f, u, rest, filled, chunks)
  BY <1>4, AddIs
<1>6. PICK t : t = Add(c, x)
  OBVIOUS
<1>7. u = 0
  <2>1. m = 0 * Block + m /\ m \in 0..(Block - 1) /\ m - 0 = m
    BY <1>0, <1>1
  <2>2. m \div Block = 0
    BY <1>0, <2>1, Divides
  <2> QED BY <1>1, <1>3, <1>5, <2>1, <2>2 DEF AddParts
<1>8. rest = x
  <2>1. rest = SubSeq(x, 0 + 0 * Block + 1, m)
    BY <1>1, <1>3, <1>5, <1>7 DEF AddParts
  <2>2. 0 + 0 * Block + 1 = 0 + 1 /\ m = 0 + m
    BY <1>0
  <2>3. IsPiece(SubSeq(x, 0 + 1, m), x, 0, m)
    BY <1>1, <2>2, Piece
  <2>4. IsPiece(rest, x, 0, m)
    BY <2>1, <2>2, <2>3
  <2>5. \A i \in 1..m : rest[i] = x[i]
    <3>1. \A i \in 1..m : 0 + i = i
      OBVIOUS
    <3> QED BY <2>4, <3>1 DEF IsPiece
  <2> QED BY <1>1, <2>4, <2>5, SameSeq DEF IsPiece
<1>9. t.s = c.s
  <2>1. chunks = <<>>
    BY <1>3, <1>5, <1>7 DEF AddParts
  <2>2. PICK S : c.s \in Seq(S)
    BY SeqIs DEF HoldsAt
  <2>3. PICK s : s = c.s
    OBVIOUS
  <2>4. s \o <<>> = s
    BY <2>2, <2>3, ConcatEmptySeq
  <2>5. t.s = s \o chunks
    <3>1. t.s = Transform(IF f > 0 THEN Transform(c.s, <<filled>>) ELSE c.s, chunks)
      BY <1>5, <1>6 DEF AddParts
    <3>2. ~(f > 0)
      BY <1>3
    <3>3. t.s = Transform(c.s, chunks)
      BY <3>1, <3>2, Zenon
    <3> QED BY <2>3, <3>3 DEF Transform
  <2> QED BY <2>1, <2>3, <2>4, <2>5
<1>10. t.bytes = c.bytes + m
  BY <1>1, <1>5, <1>6 DEF AddParts
<1>11. \A i \in 1..Block : i <= r + m =>
         t.buf[i] = IF i <= r THEN c.buf[i] ELSE x[i - r]
  <2>1. t.buf = Fill(filled, r, x)
    <3>1. t.buf = Fill(filled, IF f > 0 THEN 0 ELSE c.bytes % Block, rest)
      BY <1>5, <1>6 DEF AddParts
    <3>2. ~(f > 0)
      BY <1>3
    <3>3. t.buf = Fill(filled, c.bytes % Block, rest)
      BY <3>1, <3>2, Zenon
    <3> QED BY <1>2, <1>8, <3>3
  <2>2. PICK e : e = SubSeq(x, 1, f)
    OBVIOUS
  <2>3. filled = Fill(c.buf, r, e)
    BY <1>2, <1>5, <2>2 DEF AddParts
  <2>4. Len(e) \in Nat
    <3>1. PICK lo : lo = 1
      OBVIOUS
    <3>2. lo = f + 1 /\ f = f + f /\ f + f <= Len(x) /\ f \in Nat
      BY <1>1, <1>3, <3>1
    <3>3. IsPiece(SubSeq(x, lo, f), x, f, f)
      BY <3>2, Piece
    <3> QED BY <2>2, <3>1, <3>2, <3>3 DEF IsPiece
  <2> TAKE i \in 1..Block
  <2> HAVE i <= r + m
  <2>a. r \in Nat /\ Len(x) \in Nat
    BY <1>0, <1>1
  <2>5. i <= r => t.buf[i] = filled[i] /\ filled[i] = c.buf[i]
    <3>1. FillsAt(filled, r, x, i)
      BY <2>a, FillIs
    <3>2. PICK b : b = c.buf
      OBVIOUS
    <3>3. FillsAt(b, r, e, i)
      BY <2>a, <2>4, FillIs
    <3> QED BY <2>1, <2>3, <3>1, <3>2, <3>3 DEF FillsAt
  <2>6. i > r => t.buf[i] = x[i - r]
    <3>1. FillsAt(filled, r, x, i)
      BY <2>a, FillIs
    <3> QED BY <1>1, <2>1, <3>1 DEF FillsAt
  <2>7. i <= r \/ i > r
    BY <1>0
  <2> QED BY <1>0, <2>5, <2>6, <2>7
<1>12. PICK n \in Nat : n = Len(data)
  BY DEF HoldsAt, IsSeq
<1>13. /\ IsSeq(all) /\ Len(all) = n + m /\ \A i \in 1..n : all[i] = data[i]
       /\ \A i \in 1..m : all[n + i] = x[i]
  BY <1>1, <1>12 DEF Joined
<1>14. PICK Q \in Nat : Q = q * Block
  BY <1>0
<1>15. n = Q + r /\ Len(all) = Q + (r + m) /\ r + m \in 0..(Block - 1) /\ t.bytes = Len(all)
  BY <1>0, <1>1, <1>10, <1>12, <1>13, <1>14 DEF HoldsAt
<1>16. \A i \in 1..(r + m) : t.buf[i] = all[Q + i]
  <2> TAKE i \in 1..(r + m)
  <2>1. i \in 1..Block /\ i <= r + m
    BY <1>0, <1>1, <1>15
  <2>2. CASE i <= r
    <3>1. c.buf[i] = data[Q + i] /\ Q + i \in 1..n
      BY <1>0, <1>14, <1>15, <2>2 DEF HoldsAt
    <3> QED BY <1>11, <1>13, <2>1, <2>2, <3>1
  <2>3. CASE i > r
    <3>1. i - r \in 1..m /\ n + (i - r) = Q + i
      BY <1>0, <1>1, <1>15, <2>3
    <3>2. t.buf[i] = x[i - r]
      BY <1>0, <1>11, <2>1, <2>3
    <3>3. all[n + (i - r)] = x[i - r]
      BY <1>13, <3>1
    <3> QED BY <3>1, <3>2, <3>3
  <2> QED BY <1>0, <2>2, <2>3
<1>17. \A k \in 1..q : IsPiece(c.s[k], all, (k - 1) * Block, Block)
  <2> TAKE k \in 1..q
  <2>1. IsPiece(c.s[k], data, (k - 1) * Block, Block)
    BY DEF HoldsAt
  <2>2. PICK K \in Nat : K = (k - 1) * Block
    BY <1>0
  <2>3. K + Block <= Q
    <3>1. k * Block <= q * Block
      BY <1>0, Times
    <3>2. k * Block = (k - 1) * Block + Block
      BY <1>0
    <3> QED BY <1>14, <2>2, <3>1, <3>2
  <2>4. \A i \in 1..Block : K + i \in 1..n
    BY <1>0, <1>15, <2>3
  <2>5. IsPiece(c.s[k], all, K, Block)
    BY <1>13, <2>1, <2>2, <2>4 DEF IsPiece
  <2> QED BY <2>2, <2>5
<1>18. HoldsAt(t, all, q, r + m)
  BY <1>0, <1>9, <1>13, <1>14, <1>15, <1>16, <1>17 DEF HoldsAt
<1> QED BY <1>1, <1>6, <1>18

-----------------------------------------------------------------------------
(* Data that fills the buffer *)

\* What is a piece of the second part is a piece of the whole.
LEMMA PieceOfWhole ==
  ASSUME NEW a, NEW b, NEW all, Joined(a, b, all), NEW p, NEW k \in Nat, NEW n \in Nat,
         IsPiece(p, b, k, n), k + n <= Len(b), NEW K, K = Len(a) + k,
         Len(a) \in Nat, Len(b) \in Nat
  PROVE  IsPiece(p, all, K, n)
<1>1. IsSeq(p) /\ Len(p) = n /\ \A i \in 1..n : p[i] = b[k + i]
  BY DEF IsPiece
<1>2. \A i \in 1..Len(b) : all[Len(a) + i] = b[i]
  BY DEF Joined
<1>3. ASSUME NEW i \in 1..n PROVE p[i] = all[K + i]
  <2>1. k + i \in 1..Len(b) /\ Len(a) + (k + i) = K + i
    OBVIOUS
  <2> QED BY <1>1, <1>2, <2>1
<1> QED BY <1>1, <1>3 DEF IsPiece

\* The buffer, filled, is the block that comes next.
LEMMA FilledIs ==
  ASSUME NEW c, NEW data, NEW q, NEW r, HoldsAt(c, data, q, r), NEW x, IsSeq(x),
         NEW f, f = Block - r, f <= Len(x), NEW all, Joined(data, x, all),
         NEW Q \in Nat, Q = q * Block
  PROVE  IsPiece(Fill(c.buf, r, SubSeq(x, 1, f)), all, Q, Block)
<1>0. Block \in Nat \ {0} /\ q \in Nat /\ r \in 0..(Block - 1)
  BY BlockIs DEF HoldsAt
<1>1. PICK m \in Nat : m = Len(x)
  BY DEF IsSeq
<1>2. PICK n \in Nat : n = Len(data)
  BY DEF HoldsAt, IsSeq
<1>3. n = Q + r
  BY <1>2 DEF HoldsAt
<1>4. PICK e : e = SubSeq(x, 1, f)
  OBVIOUS
<1>5. IsPiece(e, x, 0, f)
  <2>1. PICK lo : lo = 1
    OBVIOUS
  <2>2. f \in Nat /\ lo = 0 + 1 /\ f = 0 + f /\ 0 + f <= Len(x)
    BY <1>0, <1>1, <2>1
  <2>3. IsPiece(SubSeq(x, lo, f), x, 0, f)
    BY <2>2, Piece
  <2> QED BY <1>4, <2>1, <2>3
<1>6. Len(e) = f /\ \A i \in 1..f : e[i] = x[i]
  <2>1. \A i \in 1..f : 0 + i = i
    BY <1>0
  <2> QED BY <1>5, <2>1 DEF IsPiece
<1>7. PICK buf : buf = c.buf
  OBVIOUS
<1>8. PICK w : w = Fill(buf, r, e)
  OBVIOUS
<1>9. IsSeq(w) /\ Len(w) = Block
  BY <1>0, <1>8 DEF Fill, IsSeq
<1>10. /\ \A i \in 1..n : all[i] = data[i]
       /\ \A i \in 1..m : all[n + i] = x[i]
  BY <1>1, <1>2 DEF Joined
<1>11. \A i \in 1..r : buf[i] = data[Q + i]
  BY <1>7 DEF HoldsAt
<1>12. ASSUME NEW i \in 1..Block PROVE w[i] = all[Q + i]
  <2>1. FillsAt(buf, r, e, i)
    BY <1>0, <1>6, FillIs
  <2>2. CASE i <= r
    <3>1. Q + i \in 1..n /\ i \in 1..r
      BY <1>0, <1>3, <2>2
    <3>2. w[i] = buf[i]
      BY <1>8, <2>1, <2>2 DEF FillsAt
    <3> QED BY <1>10, <1>11, <3>1, <3>2
  <2>3. CASE i > r
    <3>1. i - r \in 1..f /\ i - r \in 1..m /\ n + (i - r) = Q + i /\ i <= r + Len(e)
      BY <1>0, <1>1, <1>3, <1>6, <2>3
    <3>2. w[i] = e[i - r]
      BY <1>8, <2>1, <2>3, <3>1 DEF FillsAt
    <3>3. all[n + (i - r)] = x[i - r]
      BY <1>10, <3>1
    <3> QED BY <1>6, <3>1, <3>2, <3>3
  <2> QED BY <1>0, <2>2, <2>3
<1>13. IsPiece(w, all, Q, Block)
  BY <1>9, <1>12 DEF IsPiece
<1> QED BY <1>4, <1>7, <1>8, <1>13

\* Data that fills a block: the buffer is compressed, and with it whole blocks of
\* the data; the rest is copied to the start of the buffer.
LEMMA AddLong ==
  ASSUME NEW c, NEW data, NEW q, NEW r, HoldsAt(c, data, q, r), NEW x, IsSeq(x),
         r + Len(x) >= Block, NEW all, Joined(data, x, all)
  PROVE  \E p, v : HoldsAt(Add(c, x), all, p, v)
<1>0. Block \in Nat \ {0} /\ q \in Nat /\ r \in 0..(Block - 1)
  BY BlockIs DEF HoldsAt
<1>1. PICK m \in Nat : m = Len(x)
  BY DEF IsSeq
<1>2. c.bytes % Block = r
  <2>1. c.bytes = q * Block + r
    BY DEF HoldsAt
  <2> QED BY <1>0, <2>1, Divides
<1>3. PICK f \in 1..Block : f = Block - r
  BY <1>0
<1>4. f = IF (c.bytes % Block) + Len(x) >= Block THEN Block - (c.bytes % Block) ELSE 0
  BY <1>2, <1>3
<1>5. PICK u, rest, filled, chunks : AddParts(c, x, Add(c, x), f, u, rest, filled, chunks)
  BY <1>4, AddIs
<1>6. PICK t : t = Add(c, x)
  OBVIOUS
<1>7. m - f \in Nat /\ f <= m
  BY <1>0, <1>1, <1>3
<1>8. PICK v \in 0..(Block - 1) : u \in Nat /\ m - f = u * Block + v
  <2>1. PICK mf \in Nat : mf = m - f
    BY <1>7
  <2>2. PICK a \in Nat, b \in 0..(Block - 1) : a = mf \div Block /\ mf = a * Block + b
    BY <1>0, <2>1, Divided
  <2>3. u = mf \div Block
    BY <1>1, <1>5, <2>1 DEF AddParts
  <2> QED BY <2>1, <2>2, <2>3
<1>9. PICK U \in Nat : U = u * Block
  BY <1>0, <1>8
<1>10. PICK Q \in Nat : Q = q * Block
  BY <1>0
<1>11. PICK n \in Nat : n = Len(data)
  BY DEF HoldsAt, IsSeq
<1>12. n = Q + r /\ n + f = Q + Block /\ m = f + U + v
  BY <1>0, <1>1, <1>3, <1>7, <1>8, <1>9, <1>10, <1>11 DEF HoldsAt
<1>13. IsPiece(rest, x, f + U, v)
  <2>1. PICK k \in Nat : k = f + U
    BY <1>0
  <2>2. PICK lo : lo = k + 1
    OBVIOUS
  <2>3. m = k + v /\ k + v <= Len(x) /\ v \in Nat
    BY <1>0, <1>1, <1>12, <2>1
  <2>4. IsPiece(SubSeq(x, lo, m), x, k, v)
    BY <2>2, <2>3, Piece
  <2>5. rest = SubSeq(x, f + U + 1, Len(x))
    BY <1>5, <1>9 DEF AddParts
  <2> QED BY <1>1, <2>1, <2>2, <2>4, <2>5
<1>14. IsPiece(rest, all, Q + Block + U, v)
  <2>1. PICK k \in Nat : k = f + U
    BY <1>0
  <2>2. Q + Block + U = Len(data) + k /\ k + v <= Len(x) /\ v \in Nat
        /\ Len(data) \in Nat /\ Len(x) \in Nat
    BY <1>0, <1>1, <1>11, <1>12, <2>1
  <2>3. IsPiece(rest, x, k, v)
    BY <1>13, <2>1
  <2> QED BY <2>2, <2>3, PieceOfWhole
<1>15. IsPiece(filled, all, Q, Block)
  <2>1. f <= Len(x)
    BY <1>1, <1>7
  <2>2. IsPiece(Fill(c.buf, r, SubSeq(x, 1, f)), all, Q, Block)
    BY <1>3, <1>10, <2>1, FilledIs
  <2> QED BY <1>2, <1>5, <2>2 DEF AddParts
<1>16. /\ IsSeq(chunks) /\ Len(chunks) = u
       /\ \A j \in 1..u : chunks[j] = SubSeq(x, f + (j - 1) * Block + 1, f + j * Block)
  <2>1. chunks = [k \in 1..u |-> SubSeq(x, f + (k - 1) * Block + 1, f + k * Block)]
    BY <1>5 DEF AddParts
  <2>2. DOMAIN chunks = 1..u
    BY <2>1
  <2>3. Len(chunks) = u
    BY <1>8, <2>2
  <2>4. IsSeq(chunks)
    BY <1>8, <2>1, <2>3 DEF IsSeq
  <2> QED BY <2>1, <2>3, <2>4
<1>17. ASSUME NEW j \in 1..u PROVE IsPiece(chunks[j], all, Q + Block + (j - 1) * Block, Block)
  <2>1. PICK J \in Nat : J = (j - 1) * Block
    BY <1>0, <1>8
  <2>2. j * Block = J + Block /\ J + Block <= U
    <3>1. j * Block <= u * Block
      BY <1>0, <1>8, Times
    <3>2. j * Block = (j - 1) * Block + Block
      BY <1>0, <1>8
    <3> QED BY <1>9, <2>1, <3>1, <3>2
  <2>3. PICK k \in Nat : k = f + J
    BY <2>1
  <2>4. PICK lo, hi : lo = k + 1 /\ hi = k + Block
    OBVIOUS
  <2>5. k + Block <= Len(x)
    BY <1>0, <1>1, <1>12, <2>1, <2>2, <2>3
  <2>6. IsPiece(SubSeq(x, lo, hi), x, k, Block)
    BY <1>0, <2>4, <2>5, Piece
  <2>7. lo = f + (j - 1) * Block + 1 /\ hi = f + j * Block
    BY <1>0, <2>1, <2>2, <2>3, <2>4
  <2>8. IsPiece(chunks[j], x, k, Block)
    BY <1>16, <2>6, <2>7
  <2>9. PICK K : K = Len(data) + k
    OBVIOUS
  <2>10. IsPiece(chunks[j], all, K, Block)
    <3>1. PICK ch : ch = chunks[j]
      OBVIOUS
    <3>2. IsPiece(ch, x, k, Block) /\ Block \in Nat /\ Len(data) \in Nat /\ Len(x) \in Nat
      BY <1>0, <1>1, <1>11, <2>8, <3>1
    <3>3. IsPiece(ch, all, K, Block)
      BY <2>5, <2>9, <3>2, PieceOfWhole
    <3> QED BY <3>1, <3>3
  <2>11. K = Q + Block + (j - 1) * Block
    <3>1. K = n + k
      BY <1>11, <2>9
    <3>2. n + f = Q + Block
      BY <1>12
    <3>3. n + k = Q + Block + J
      BY <1>0, <2>3, <3>2
    <3> QED BY <2>1, <3>1, <3>3
  <2> QED BY <2>10, <2>11
<1>18. PICK one : one = <<filled>>
  OBVIOUS
<1>19. IsSeq(one) /\ Len(one) = 1 /\ one[1] = filled
  BY <1>18 DEF IsSeq
<1>20. PICK s0 : s0 = c.s
  OBVIOUS
<1>21. IsSeq(s0) /\ Len(s0) = q /\ \A k \in 1..q : IsPiece(s0[k], data, (k - 1) * Block, Block)
  BY <1>20 DEF HoldsAt
<1>22. PICK s1 : s1 = s0 \o one
  OBVIOUS
<1>23. Joined(s0, one, s1)
  BY <1>19, <1>21, <1>22, Joins
<1>24. IsSeq(s1) /\ Len(s1) = q + 1 /\ s1[q + 1] = filled /\ \A k \in 1..q : s1[k] = s0[k]
  <2>1. 1 \in 1..1
    OBVIOUS
  <2> QED BY <1>19, <1>21, <1>23, <2>1 DEF Joined
<1>25. PICK s2 : s2 = s1 \o chunks
  OBVIOUS
<1>26. Joined(s1, chunks, s2)
  BY <1>16, <1>24, <1>25, Joins
<1>27. /\ IsSeq(s2) /\ Len(s2) = q + 1 + u
       /\ \A k \in 1..(q + 1) : s2[k] = s1[k]
       /\ \A j \in 1..u : s2[q + 1 + j] = chunks[j]
  BY <1>16, <1>24, <1>26 DEF Joined
<1>28. t.s = s2
  <2>1. t.s = Transform(IF f > 0 THEN Transform(c.s, <<filled>>) ELSE c.s, chunks)
    BY <1>5, <1>6 DEF AddParts
  <2>2. f > 0
    BY <1>0
  <2>3. t.s = Transform(Transform(c.s, <<filled>>), chunks)
    BY <2>1, <2>2, Zenon
  <2> QED BY <1>18, <1>20, <1>22, <1>25, <2>3, Zenon DEF Transform
<1>29. PICK p \in Nat : p = q + 1 + u
  BY <1>0, <1>8
<1>30. PICK P \in Nat : P = p * Block
  BY <1>0
<1>31. P = Q + Block + U
  <2>1. (q + 1 + u) * Block = q * Block + Block + u * Block
    BY <1>0, <1>8
  <2> QED BY <1>9, <1>10, <1>29, <1>30, <2>1
<1>32. IsSeq(all) /\ Len(all) = n + m /\ Len(all) = P + v /\ t.bytes = Len(all)
  <2>1. t.bytes = c.bytes + m /\ c.bytes = n
    BY <1>1, <1>5, <1>6, <1>11 DEF AddParts, HoldsAt
  <2>2. IsSeq(all) /\ Len(all) = n + m
    BY <1>1, <1>11 DEF Joined
  <2> QED BY <1>0, <1>12, <1>31, <2>1, <2>2
<1>33. ASSUME NEW k \in 1..p PROVE IsPiece(t.s[k], all, (k - 1) * Block, Block)
  <2>1. CASE k <= q
    <3>1. k \in 1..q /\ k \in 1..(q + 1)
      BY <1>0, <2>1
    <3>2. t.s[k] = s0[k]
      BY <1>24, <1>27, <1>28, <3>1
    <3>3. IsPiece(s0[k], data, (k - 1) * Block, Block)
      BY <1>21, <3>1
    <3>4. PICK K \in Nat : K = (k - 1) * Block
      BY <1>0
    <3>5. K + Block <= Q
      <4>1. k * Block <= q * Block
        BY <1>0, <2>1, Times
      <4>2. k * Block = (k - 1) * Block + Block
        BY <1>0
      <4> QED BY <1>10, <3>4, <4>1, <4>2
    <3>6. \A i \in 1..Block : K + i \in 1..n
      BY <1>0, <1>12, <3>5
    <3>7. \A i \in 1..n : all[i] = data[i]
      BY <1>11 DEF Joined
    <3>8. IsPiece(s0[k], all, K, Block)
      BY <3>3, <3>4, <3>6, <3>7 DEF IsPiece
    <3> QED BY <3>2, <3>4, <3>8
  <2>2. CASE k = q + 1
    <3>1. t.s[k] = filled
      BY <1>0, <1>24, <1>27, <1>28, <2>2
    <3>2. (k - 1) * Block = Q
      <4>1. k - 1 = q
        BY <1>0, <2>2
      <4> QED BY <1>10, <4>1
    <3> QED BY <1>15, <3>1, <3>2
  <2>3. CASE k > q + 1
    <3>1. PICK j \in 1..u : k = q + 1 + j
      <4>1. k - (q + 1) \in 1..u /\ k = q + 1 + (k - (q + 1))
        BY <1>0, <1>8, <1>29, <2>3
      <4> QED BY <4>1
    <3>2. t.s[k] = chunks[j]
      BY <1>27, <1>28, <3>1
    <3>3. (k - 1) * Block = Q + Block + (j - 1) * Block
      <4>1. k - 1 = q + 1 + (j - 1)
        BY <1>0, <1>8, <3>1
      <4>2. PICK i \in Nat : i = j - 1
        BY <1>8
      <4>3. (q + 1 + i) * Block = q * Block + Block + i * Block
        BY <1>0
      <4> QED BY <1>10, <4>1, <4>2, <4>3
    <3>4. IsPiece(chunks[j], all, Q + Block + (j - 1) * Block, Block)
      BY <1>17
    <3> QED BY <3>2, <3>3, <3>4
  <2> QED BY <1>0, <1>29, <2>1, <2>2, <2>3
<1>34. ASSUME NEW i \in 1..v PROVE t.buf[i] = all[P + i]
  <2>1. t.buf = Fill(filled, 0, rest)
    <3>1. t.buf = Fill(filled, IF f > 0 THEN 0 ELSE c.bytes % Block, rest)
      BY <1>5, <1>6 DEF AddParts
    <3>2. f > 0
      BY <1>0
    <3> QED BY <3>1, <3>2, Zenon
  <2>2. PICK z : z = 0
    OBVIOUS
  <2>3. /\ z \in Nat /\ i \in 1..Block /\ i > z /\ Len(rest) = v /\ v \in Nat
        /\ i <= z + v /\ i - z = i
    BY <1>0, <1>13, <2>2 DEF IsPiece
  <2>4. FillsAt(filled, z, rest, i)
    BY <2>3, FillIs
  <2>5. t.buf[i] = rest[i]
    BY <2>1, <2>2, <2>3, <2>4 DEF FillsAt
  <2>6. rest[i] = all[P + i]
    BY <1>14, <1>31 DEF IsPiece
  <2> QED BY <2>5, <2>6
<1>35. HoldsAt(t, all, p, v)
  BY <1>0, <1>27, <1>28, <1>29, <1>30, <1>32, <1>33, <1>34 DEF HoldsAt
<1> QED BY <1>6, <1>35

\* However the data is cut, what Add has taken in is all of it.
LEMMA AddHolds ==
  ASSUME NEW c, NEW data, Holds(c, data), NEW x, IsSeq(x)
  PROVE  Holds(Add(c, x), data \o x)
<1>1. PICK q, r : HoldsAt(c, data, q, r)
  BY DEF Holds
<1>2. PICK all : all = data \o x
  OBVIOUS
<1>3. Joined(data, x, all)
  BY <1>1, <1>2, Joins DEF HoldsAt
<1>4. Block \in Nat /\ r \in Nat /\ Len(x) \in Nat
  BY <1>1, BlockIs DEF HoldsAt, IsSeq
<1>5. CASE r + Len(x) < Block
  <2>1. HoldsAt(Add(c, x), all, q, r + Len(x))
    BY <1>1, <1>3, <1>5, AddShort
  <2> QED BY <1>2, <2>1 DEF Holds
<1>6. CASE r + Len(x) >= Block
  <2>1. \E p, v : HoldsAt(Add(c, x), all, p, v)
    BY <1>1, <1>3, <1>6, AddLong
  <2> QED BY <1>2, <2>1 DEF Holds
<1> QED BY <1>4, <1>5, <1>6

-----------------------------------------------------------------------------
(* The end of a hash *)

LEMMA InitHolds == ASSUME NEW e, e = <<>> PROVE Holds(Sha256Init, e)
<1>0. Block \in Nat \ {0}
  BY BlockIs
<1>1. PICK c : c = Sha256Init
  OBVIOUS
<1>2. c.s = <<>> /\ c.bytes = 0
  BY <1>1 DEF Sha256Init
<1>3. PICK z : z = 0
  OBVIOUS
<1>4. IsSeq(e) /\ IsSeq(c.s) /\ Len(e) = 0 /\ Len(c.s) = 0
  BY <1>2 DEF IsSeq
<1>5. HoldsAt(c, e, z, z)
  <2>1. z * Block + z = 0 /\ z \in Nat /\ z \in 0..(Block - 1)
    BY <1>0, <1>3
  <2>2. \A k : k \notin 1..z
    BY <1>3
  <2> QED BY <1>2, <1>3, <1>4, <2>1, <2>2 DEF HoldsAt
<1> QED BY <1>1, <1>5 DEF Holds

\* When whole blocks were taken in, the chaining value is theirs.
LEMMA WholeBlocks ==
  ASSUME NEW c, NEW data, Holds(c, data), Len(data) % Block = 0
  PROVE  c.s = Blocks(data)
<1>0. Block \in Nat \ {0}
  BY BlockIs
<1>1. PICK q, r : HoldsAt(c, data, q, r)
  BY DEF Holds
<1>2. q \in Nat /\ r \in 0..(Block - 1) /\ Len(data) = q * Block + r /\ IsSeq(data)
      /\ IsSeq(c.s) /\ Len(c.s) = q /\ \A k \in 1..q : IsPiece(c.s[k], data, (k - 1) * Block, Block)
  BY <1>1 DEF HoldsAt
<1>3. PICK n : n = Len(data)
  OBVIOUS
<1>4. n \in Nat /\ n \div Block = q /\ n % Block = r
  <2>1. n = q * Block + r
    BY <1>2, <1>3
  <2>2. q \in Nat /\ r \in 0..(Block - 1)
    BY <1>2
  <2> QED BY <1>0, <2>1, <2>2, Divides
<1>5. PICK Q \in Nat : Q = q * Block
  BY <1>0, <1>2
<1>6. n = Q
  BY <1>2, <1>3, <1>4, <1>5
<1>7. PICK b : b = Blocks(data)
  OBVIOUS
<1>8. b = [k \in 1..q |-> SubSeq(data, (k - 1) * Block + 1, k * Block)]
  BY <1>3, <1>4, <1>7 DEF Blocks
<1>9. DOMAIN b = 1..q
  BY <1>8
<1>10. Len(b) = q
  BY <1>2, <1>9
<1>11. IsSeq(b)
  BY <1>2, <1>8, <1>10 DEF IsSeq
<1>12. ASSUME NEW k \in 1..q PROVE b[k] = c.s[k]
  <2>1. PICK K \in Nat : K = (k - 1) * Block
    BY <1>0, <1>2
  <2>2. k * Block = K + Block /\ K + Block <= Q
    <3>1. k * Block <= q * Block
      BY <1>0, <1>2, Times
    <3>2. k * Block = (k - 1) * Block + Block
      BY <1>0, <1>2
    <3> QED BY <1>5, <2>1, <3>1, <3>2
  <2>3. PICK lo, hi : lo = K + 1 /\ hi = K + Block
    OBVIOUS
  <2>4. K + Block <= Len(data)
    BY <1>3, <1>6, <2>2
  <2>5. IsPiece(SubSeq(data, lo, hi), data, K, Block)
    BY <1>0, <1>2, <2>3, <2>4, Piece
  <2>6. b[k] = SubSeq(data, lo, hi)
    BY <1>8, <2>1, <2>2, <2>3
  <2>7. IsPiece(b[k], data, K, Block) /\ IsPiece(c.s[k], data, K, Block)
    BY <1>2, <2>1, <2>5, <2>6
  <2> QED BY <2>7, PieceUnique
<1>13. b = c.s
  BY <1>2, <1>10, <1>11, <1>12, SameSeq
<1> QED BY <1>7, <1>13

\* sha256_done's zeros are the ones of FIPS 180-4.
LEMMA ZerosAre ==
  ASSUME NEW n \in Nat
  PROVE  \E z \in 0..(Block - 1) :
           /\ z = (2 * Block - SizeField - (n % Block) - 1) % Block
           /\ (n + 1 + z + SizeField) % Block = 0
           /\ z = CHOOSE y \in 0..(Block - 1) : (n + 1 + y + SizeField) % Block = 0
<1>0. Block \in Nat \ {0} /\ SizeField \in 1..(Block - 1)
  BY HashAssumption
<1>1. PICK q \in Nat, r \in 0..(Block - 1) : q = n \div Block /\ r = n % Block /\ n = q * Block + r
  BY <1>0, Divided
<1>2. PICK k \in Nat : k = 2 * Block - SizeField - r - 1
  <2>1. 2 * Block - SizeField - r - 1 \in Nat
    BY <1>0
  <2> QED BY <2>1
<1>3. PICK a \in Nat, z \in 0..(Block - 1) : a = k \div Block /\ z = k % Block /\ k = a * Block + z
  BY <1>0, Divided
<1>4. PICK p \in Nat : n + 1 + z + SizeField = p * Block
  <2>1. a = 0 \/ a = 1
    <3>1. CASE a >= 2
      <4>1. 2 * Block <= a * Block
        BY <1>0, <3>1, Times
      <4>2. k < 2 * Block
        BY <1>0, <1>2
      <4>3. a * Block \in Nat
        BY <1>0
      <4> QED BY <1>0, <1>3, <4>1, <4>2, <4>3
    <3> QED BY <3>1
  <2>2. PICK Q \in Nat : Q = q * Block
    BY <1>0
  <2>3. CASE a = 0
    <3>1. a * Block = 0
      BY <1>0, <2>3
    <3>2. n + 1 + z + SizeField = Q + 2 * Block
      BY <1>0, <1>1, <1>2, <1>3, <2>2, <3>1
    <3>3. (q + 2) * Block = q * Block + 2 * Block
      BY <1>0
    <3>4. q + 2 \in Nat
      OBVIOUS
    <3> QED BY <2>2, <3>2, <3>3, <3>4
  <2>4. CASE a = 1
    <3>1. a * Block = Block
      BY <1>0, <2>4
    <3>2. n + 1 + z + SizeField = Q + Block
      BY <1>0, <1>1, <1>2, <1>3, <2>2, <3>1
    <3>3. (q + 1) * Block = q * Block + Block
      BY <1>0
    <3>4. q + 1 \in Nat
      OBVIOUS
    <3> QED BY <2>2, <3>2, <3>3, <3>4
  <2> QED BY <2>1, <2>3, <2>4
<1>5. PICK g \in Nat : g = n + 1 + SizeField
  BY <1>0
<1>6. g + z = p * Block /\ \A y \in 0..(Block - 1) : n + 1 + y + SizeField = g + y
  BY <1>0, <1>4, <1>5
<1>7. (g + z) % Block = 0
  <2>1. PICK o \in 0..(Block - 1) : o = 0
    BY <1>0
  <2>2. PICK s \in Nat : s = p * Block
    BY <1>0
  <2>3. s = p * Block + o
    BY <2>1, <2>2
  <2>4. s % Block = o
    BY <1>0, <2>3, Divides
  <2> QED BY <1>6, <2>1, <2>2, <2>4
<1>8. ASSUME NEW y \in 0..(Block - 1), (g + y) % Block = 0 PROVE y = z
  <2>1. PICK e \in Nat : e = g + y
    BY <1>0
  <2>2. PICK u \in Nat, w \in 0..(Block - 1) :
          u = e \div Block /\ w = e % Block /\ e = u * Block + w
    BY <1>0, Divided
  <2>3. PICK U \in Nat, P \in Nat : U = u * Block /\ P = p * Block
    BY <1>0
  <2>4. g + y = U /\ g + z = P
    BY <1>6, <1>8, <2>1, <2>2, <2>3
  <2>5. CASE u < p
    <3>1. (u + 1) * Block <= p * Block
      BY <2>5, <1>0, Times
    <3>2. (u + 1) * Block = u * Block + Block
      BY <1>0
    <3> QED BY <1>0, <2>3, <2>4, <3>1, <3>2
  <2>6. CASE p < u
    <3>1. (p + 1) * Block <= u * Block
      BY <2>6, <1>0, Times
    <3>2. (p + 1) * Block = p * Block + Block
      BY <1>0
    <3> QED BY <1>0, <2>3, <2>4, <3>1, <3>2
  <2>7. CASE u = p
    BY <1>0, <2>3, <2>4, <2>7
  <2> QED BY <2>5, <2>6, <2>7
<1>9. z = CHOOSE y \in 0..(Block - 1) : (n + 1 + y + SizeField) % Block = 0
  <2>1. \A y \in 0..(Block - 1) : (n + 1 + y + SizeField) % Block = 0 <=> y = z
    BY <1>6, <1>7, <1>8
  <2>2. PICK y \in 0..(Block - 1) :
          /\ y = CHOOSE x \in 0..(Block - 1) : (n + 1 + x + SizeField) % Block = 0
          /\ (n + 1 + y + SizeField) % Block = 0
    BY <2>1
  <2> QED BY <2>1, <2>2
<1> QED BY <1>1, <1>2, <1>3, <1>6, <1>7, <1>9

-----------------------------------------------------------------------------
(* Digests and HMACs *)

LEMMA BytesAre ==
  /\ \A n \in Nat : IsSeq(ZeroBytes(n)) /\ Len(ZeroBytes(n)) = n
  /\ \A n : IsSeq(SizeBytes(n)) /\ Len(SizeBytes(n)) = SizeField
  /\ \A s : IsSeq(Digest(s)) /\ Len(Digest(s)) = HashLen
  /\ IsSeq(<<One>>) /\ Len(<<One>>) = 1
  /\ \A name : \A n \in Nat : IsSeq(Data(name, n)) /\ Len(Data(name, n)) = n
<1>1. ASSUME NEW n \in Nat PROVE IsSeq(ZeroBytes(n)) /\ Len(ZeroBytes(n)) = n
  BY DEF ZeroBytes, IsSeq
<1>2. ASSUME NEW n PROVE IsSeq(SizeBytes(n)) /\ Len(SizeBytes(n)) = SizeField
  <2>1. SizeField \in Nat
    BY HashAssumption
  <2> QED BY <2>1 DEF SizeBytes, IsSeq
<1>3. ASSUME NEW s PROVE IsSeq(Digest(s)) /\ Len(Digest(s)) = HashLen
  <2>1. HashLen \in Nat
    BY HashAssumption
  <2> QED BY <2>1 DEF Digest, IsSeq
<1>4. IsSeq(<<One>>) /\ Len(<<One>>) = 1
  BY DEF IsSeq
<1>5. ASSUME NEW name, NEW n \in Nat PROVE IsSeq(Data(name, n)) /\ Len(Data(name, n)) = n
  BY DEF Data, IsSeq
<1> QED BY <1>1, <1>2, <1>3, <1>4, <1>5

\* sha256_done makes of what was taken in the digest of FIPS 180-4.
LEMMA DoneIs ==
  ASSUME NEW c, NEW data, Holds(c, data)
  PROVE  Sha256Done(c) = Fips(data)
<1>1. PICK q, r : HoldsAt(c, data, q, r)
  BY DEF Holds
<1>2. PICK n \in Nat : n = Len(data) /\ n = c.bytes /\ IsSeq(data)
  BY <1>1 DEF HoldsAt, IsSeq
<1>3. PICK z \in 0..(Block - 1) :
        /\ z = (2 * Block - SizeField - (n % Block) - 1) % Block
        /\ (n + 1 + z + SizeField) % Block = 0
        /\ z = CHOOSE y \in 0..(Block - 1) : (n + 1 + y + SizeField) % Block = 0
  BY ZerosAre
<1>4. PICK mark, zb, sb : mark = <<One>> /\ zb = ZeroBytes(z) /\ sb = SizeBytes(n)
  OBVIOUS
<1>5. /\ Block \in Nat /\ SizeField \in Nat /\ z \in Nat
  BY HashAssumption, BlockIs
<1>6. /\ IsSeq(mark) /\ Len(mark) = 1 /\ IsSeq(zb) /\ Len(zb) = z /\ IsSeq(sb) /\ Len(sb) = SizeField
  BY <1>4, <1>5, BytesAre
<1>7. PICK x : x = mark \o zb
  OBVIOUS
<1>8. IsSeq(x) /\ Len(x) = 1 + z
  BY <1>6, <1>7, JoinIsSeq
<1>9. PICK p : p = Add(c, x)
  OBVIOUS
<1>10. PICK d : d = data \o x
  OBVIOUS
<1>11. Holds(p, d) /\ IsSeq(d) /\ Len(d) = n + (1 + z)
  BY <1>2, <1>8, <1>9, <1>10, AddHolds, JoinIsSeq
<1>12. PICK t : t = Add(p, sb)
  OBVIOUS
<1>13. PICK e : e = d \o sb
  OBVIOUS
<1>14. Holds(t, e) /\ IsSeq(e) /\ Len(e) = n + (1 + z) + SizeField
  BY <1>6, <1>11, <1>12, <1>13, AddHolds, JoinIsSeq
<1>15. Len(e) % Block = 0
  <2>1. n + (1 + z) + SizeField = n + 1 + z + SizeField
    BY <1>5
  <2> QED BY <1>3, <1>14, <2>1
<1>16. t.s = Blocks(e)
  BY <1>14, <1>15, WholeBlocks
<1>17. Sha256Done(c) = Digest(t.s)
  BY <1>2, <1>3, <1>4, <1>7, <1>9, <1>12, Zenon DEF Sha256Done
<1>18. e = data \o mark \o zb \o sb
  <2>1. (data \o mark) \o zb = data \o (mark \o zb)
    <3>1. IsSeq(data) /\ IsSeq(mark) /\ IsSeq(zb)
      BY <1>2, <1>6
    <3> QED BY <3>1, Assoc
  <2> QED BY <1>7, <1>10, <1>13, <2>1
<1>19. Fips(data) = Digest(Blocks(e))
  BY <1>2, <1>3, <1>4, <1>18, Zenon DEF Fips
<1> QED BY <1>16, <1>17, <1>19

LEMMA AddFirst ==
  ASSUME NEW data, IsSeq(data)
  PROVE  Holds(Add(Sha256Init, data), data)
<1>1. PICK e : e = <<>>
  OBVIOUS
<1>2. Holds(Sha256Init, e)
  BY <1>1, InitHolds
<1>3. e \o data = data
  BY <1>1, EmptyJoin
<1>4. Holds(Add(Sha256Init, data), e \o data)
  BY <1>2, AddHolds
<1> QED BY <1>3, <1>4

LEMMA Sha256Is ==
  ASSUME NEW data, IsSeq(data)
  PROVE  Sha256(data) = Fips(data) /\ IsSeq(Sha256(data)) /\ Len(Sha256(data)) = HashLen
<1>1. Sha256(data) = Fips(data)
  BY AddFirst, DoneIs DEF Sha256
<1>2. \E s : Sha256(data) = Digest(s)
  BY DEF Sha256, Sha256Done
<1> QED BY <1>1, <1>2, BytesAre

\* Bytes that no pad was xored with.
Plain(a) == IsSeq(a) /\ \A i \in 1..Len(a) : a[i][1] # "xor"

\* The key as RFC 2104 has it: hashed if it is long, with zeros up to a block.
Padded(key) ==
  LET short == IF Len(key) > Block THEN Fips(key) ELSE key
  IN  short \o ZeroBytes(Block - Len(short))

\* A key of any length makes one block, of bytes no pad was xored with.
LEMMA PaddedIs ==
  ASSUME NEW key, Plain(key)
  PROVE  Plain(Padded(key)) /\ Len(Padded(key)) = Block
<1>0. Block \in Nat /\ HashLen \in Nat /\ HashLen <= Block
  BY HashAssumption
<1>1. PICK short : short = IF Len(key) > Block THEN Fips(key) ELSE key
  OBVIOUS
<1>2. Plain(short) /\ Len(short) \in Nat /\ Len(short) <= Block
  <2>1. CASE Len(key) > Block
    <3>1. short = Fips(key)
      BY <1>1, <2>1
    <3>2. PICK s : short = Digest(s)
      BY <3>1 DEF Fips
    <3>3. IsSeq(short) /\ Len(short) = HashLen
      BY <3>2, BytesAre
    <3>4. \A i \in 1..HashLen : short[i] = <<"digest", s, i>>
      BY <3>2 DEF Digest
    <3>5. \A i \in 1..HashLen : short[i][1] # "xor"
      BY <3>4
    <3> QED BY <1>0, <3>3, <3>5 DEF Plain
  <2>2. CASE ~(Len(key) > Block)
    <3>1. short = key /\ Len(key) \in Nat
      BY <1>1, <2>2 DEF Plain, IsSeq
    <3> QED BY <1>0, <2>2, <3>1
  <2> QED BY <2>1, <2>2
<1>3. PICK m \in Nat : m = Block - Len(short)
  BY <1>0, <1>2
<1>4. PICK zb : zb = ZeroBytes(m)
  OBVIOUS
<1>5. IsSeq(zb) /\ Len(zb) = m
  BY <1>4, BytesAre
<1>6. PICK k : k = short \o zb
  OBVIOUS
<1>7. Joined(short, zb, k)
  BY <1>2, <1>5, <1>6, Joins DEF Plain
<1>8. IsSeq(k) /\ Len(k) = Block
  BY <1>0, <1>2, <1>3, <1>5, <1>7 DEF Joined
<1>9. ASSUME NEW i \in 1..Block PROVE k[i][1] # "xor"
  <2>1. CASE i <= Len(short)
    <3>1. i \in 1..Len(short)
      BY <1>2, <2>1
    <3>2. k[i] = short[i]
      BY <1>7, <3>1 DEF Joined
    <3> QED BY <1>2, <3>1, <3>2 DEF Plain
  <2>2. CASE i > Len(short)
    <3>1. PICK j \in 1..m : i = Len(short) + j
      <4>1. i - Len(short) \in 1..m /\ i = Len(short) + (i - Len(short))
        BY <1>0, <1>2, <1>3, <2>2
      <4> QED BY <4>1
    <3>2. k[i] = zb[j]
      BY <1>5, <1>7, <3>1 DEF Joined
    <3>3. zb[j] = <<"zero">>
      BY <1>4 DEF ZeroBytes, Zero
    <3> QED BY <3>2, <3>3
  <2> QED BY <1>0, <1>2, <2>1, <2>2
<1>10. Padded(key) = k
  BY <1>1, <1>3, <1>4, <1>6, Zenon DEF Padded
<1> QED BY <1>8, <1>9, <1>10 DEF Plain

\* The inner pad, taken off with the outer one.
LEMMA PadsAre ==
  ASSUME NEW K, Plain(K)
  PROVE  /\ IsSeq(Xor(K, {"ipad"})) /\ IsSeq(Xor(K, {"opad"}))
         /\ Len(Xor(K, {"opad"})) = Len(K)
         /\ Xor(Xor(K, {"ipad"}), {"ipad", "opad"}) = Xor(K, {"opad"})
<1>1. PICK n \in Nat : n = Len(K) /\ K = [i \in 1..n |-> K[i]]
  BY DEF Plain, IsSeq
<1>2. DOMAIN K = 1..n
  BY <1>1
<1>3. PICK ip, op, bo : ip = {"ipad"} /\ op = {"opad"} /\ bo = {"ipad", "opad"}
  OBVIOUS
<1>4. \A pads : Xor(K, pads) = [i \in 1..n |-> <<"xor", pads, K[i]>>]
  <2> TAKE pads
  <2>1. \A i \in 1..n : K[i][1] # "xor"
    BY <1>1 DEF Plain
  <2>2. Xor(K, pads) = [i \in 1..n |->
          IF K[i][1] = "xor"
          THEN <<"xor", (K[i][2] \cup pads) \ (K[i][2] \cap pads), K[i][3]>>
          ELSE <<"xor", pads, K[i]>>]
    BY <1>2 DEF Xor
  <2> QED BY <2>1, <2>2
<1>5. \A pads : IsSeq(Xor(K, pads)) /\ Len(Xor(K, pads)) = n
  <2> TAKE pads
  <2>1. PICK x : x = Xor(K, pads)
    OBVIOUS
  <2>2. x = [i \in 1..n |-> <<"xor", pads, K[i]>>]
    BY <1>4, <2>1
  <2>3. Len(x) = n
    BY <2>2
  <2> QED BY <2>1, <2>2, <2>3 DEF IsSeq
<1>6. PICK x : x = Xor(K, ip)
  OBVIOUS
<1>7. x = [i \in 1..n |-> <<"xor", ip, K[i]>>]
  BY <1>4, <1>6
<1>8. DOMAIN x = 1..n
  BY <1>7
<1>9. \A i \in 1..n : x[i][1] = "xor" /\ x[i][2] = ip /\ x[i][3] = K[i]
  BY <1>7
<1>10. (ip \cup bo) \ (ip \cap bo) = op
  BY <1>3
<1>11. Xor(x, bo) = [i \in 1..n |-> <<"xor", op, K[i]>>]
  <2>1. Xor(x, bo) = [i \in 1..n |->
          IF x[i][1] = "xor"
          THEN <<"xor", (x[i][2] \cup bo) \ (x[i][2] \cap bo), x[i][3]>>
          ELSE <<"xor", bo, x[i]>>]
    BY <1>8 DEF Xor
  <2>2. ASSUME NEW i \in 1..n
        PROVE (IF x[i][1] = "xor"
               THEN <<"xor", (x[i][2] \cup bo) \ (x[i][2] \cap bo), x[i][3]>>
               ELSE <<"xor", bo, x[i]>>) = <<"xor", op, K[i]>>
    BY <1>9, <1>10
  <2> QED BY <2>1, <2>2
<1>12. Xor(x, bo) = Xor(K, op)
  BY <1>4, <1>11
<1> QED BY <1>1, <1>3, <1>5, <1>6, <1>12

\* hmac_sha256_init takes in the key with the inner pad and keeps it with the outer.
LEMMA HmacInitIs ==
  ASSUME NEW key, Plain(key), NEW K, K = Padded(key)
  PROVE  /\ Holds(HmacInit(key).sha, Xor(K, {"ipad"}))
         /\ HmacInit(key).k_opad = Xor(K, {"opad"})
         /\ HmacInit(key) = [sha |-> HmacInit(key).sha, k_opad |-> HmacInit(key).k_opad]
<1>1. Plain(K)
  BY PaddedIs
<1>2. PICK ki : ki = Xor(K, {"ipad"})
  OBVIOUS
<1>3. IsSeq(ki) /\ Xor(ki, {"ipad", "opad"}) = Xor(K, {"opad"})
  BY <1>1, <1>2, PadsAre
<1>4. PICK short : short = IF Len(key) > Block THEN Sha256(key) ELSE key
  OBVIOUS
<1>5. short = IF Len(key) > Block THEN Fips(key) ELSE key
  BY <1>4, Sha256Is DEF Plain
<1>6. K = short \o ZeroBytes(Block - Len(short))
  BY <1>5, Zenon DEF Padded
<1>7. HmacInit(key) = [sha |-> Add(Sha256Init, ki), k_opad |-> Xor(ki, {"ipad", "opad"})]
  BY <1>2, <1>4, <1>6, Zenon DEF HmacInit
<1>8. Holds(Add(Sha256Init, ki), ki)
  BY <1>3, AddFirst
<1> QED BY <1>2, <1>3, <1>7, <1>8

\* hmac_sha256_done makes the HMAC of RFC 2104.
LEMMA HmacDoneIs ==
  ASSUME NEW key, Plain(key), NEW K, K = Padded(key), NEW text, IsSeq(text),
         NEW c, Holds(c.sha, Xor(K, {"ipad"}) \o text), c.k_opad = Xor(K, {"opad"})
  PROVE  HmacDone(c) = Rfc2104(key, text)
<1>1. Plain(K)
  BY PaddedIs
<1>2. PICK inner : inner = Fips(Xor(K, {"ipad"}) \o text)
  OBVIOUS
<1>3. Sha256Done(c.sha) = inner
  BY <1>2, DoneIs
<1>4. IsSeq(inner)
  <2>1. \E s : inner = Digest(s)
    BY <1>2 DEF Fips
  <2> QED BY <2>1, BytesAre
<1>5. PICK ko : ko = Xor(K, {"opad"})
  OBVIOUS
<1>6. IsSeq(ko)
  BY <1>1, <1>5, PadsAre
<1>7. PICK a : a = Add(Sha256Init, ko)
  OBVIOUS
<1>8. Holds(a, ko)
  BY <1>6, <1>7, AddFirst
<1>9. PICK b : b = Add(a, inner)
  OBVIOUS
<1>10. Holds(b, ko \o inner)
  BY <1>4, <1>8, <1>9, AddHolds
<1>11. Sha256Done(b) = Fips(ko \o inner)
  BY <1>10, DoneIs
<1>12. HmacDone(c) = Sha256Done(b)
  BY <1>3, <1>5, <1>7, <1>9, Zenon DEF HmacDone
<1>13. Rfc2104(key, text) = Fips(Xor(K, {"opad"}) \o Fips(Xor(K, {"ipad"}) \o text))
  BY Zenon DEF Rfc2104, Padded
<1> QED BY <1>2, <1>5, <1>11, <1>12, <1>13

-----------------------------------------------------------------------------
(* The invariant *)

Key == Data("key", job.key)
Text == Data("data", job.data)
Given == SubSeq(Text, 1, fed)

\* What the hash has taken in is the data given to it, of an HMAC after the key
\* with its inner pad; k_opad is the key with its outer pad.
Taken ==
  /\ job.kind = "sha256" => Holds(ctx.sha, Given)
  /\ job.kind = "hmac" /\ ctx.k_opad = <<>> => fed = 0
  /\ job.kind = "hmac" /\ ctx.k_opad # <<>> =>
       /\ ctx.k_opad = Xor(Padded(Key), {"opad"})
       /\ Holds(ctx.sha, Xor(Padded(Key), {"ipad"}) \o Given)

HashInv ==
  /\ job \in Jobs /\ fed \in 0..job.data
  /\ ctx = [sha |-> ctx.sha, k_opad |-> ctx.k_opad]
  /\ Taken /\ CutsDoNotMatter /\ HmacIsRfc2104

LEMMA JobIs ==
  ASSUME NEW j \in Jobs
  PROVE  j.kind \in {"sha256", "hmac", "hkdf"} /\ j.key \in Nat /\ j.data \in Nat
BY HashAssumption

LEMMA KeyIs == ASSUME NEW n \in Nat PROVE Plain(Data("key", n))
<1>1. PICK k : k = Data("key", n)
  OBVIOUS
<1>2. \A i \in 1..n : k[i] = <<"key", i>>
  BY <1>1 DEF Data
<1>3. \A i \in 1..n : k[i][1] # "xor"
  BY <1>2
<1> QED BY <1>1, <1>3, BytesAre DEF Plain

\* k bytes behind the first f, joined to them.
Cut(d, f, k) ==
  /\ IsSeq(SubSeq(d, f + 1, f + k))
  /\ SubSeq(d, 1, f) \o SubSeq(d, f + 1, f + k) = SubSeq(d, 1, f + k)

\* The data given, and what an update gives more.
LEMMA TextIs ==
  ASSUME NEW n \in Nat, NEW d, d = Data("data", n)
  PROVE  /\ SubSeq(d, 1, 0) = <<>> /\ SubSeq(d, 1, n) = d
         /\ \A f \in 0..n : IsSeq(SubSeq(d, 1, f))
         /\ \A f \in 0..n : \A k \in 0..(n - f) : Cut(d, f, k)
<1>1. IsSeq(d) /\ Len(d) = n
  BY BytesAre
<1>2. PICK o : o = 1
  OBVIOUS
<1>3. \A k \in 0..n : \A m \in 0..(n - k) : IsPiece(SubSeq(d, k + 1, k + m), d, k, m)
  <2> TAKE k \in 0..n
  <2> TAKE m \in 0..(n - k)
  <2>1. PICK lo, hi : lo = k + 1 /\ hi = k + m
    OBVIOUS
  <2>2. k \in Nat /\ m \in Nat /\ k + m <= Len(d)
    BY <1>1
  <2>3. IsPiece(SubSeq(d, lo, hi), d, k, m)
    BY <1>1, <2>1, <2>2, Piece
  <2> QED BY <2>1, <2>3
<1>4. \A f \in 0..n : IsPiece(SubSeq(d, o, f), d, 0, f)
  <2> TAKE f \in 0..n
  <2>1. PICK z : z = 0
    OBVIOUS
  <2>2. z \in 0..n /\ f \in 0..(n - z) /\ z + 1 = o /\ z + f = f
    BY <1>2, <2>1
  <2>3. IsPiece(SubSeq(d, z + 1, z + f), d, z, f)
    BY <1>3, <2>2
  <2> QED BY <2>1, <2>2, <2>3
<1>5. PICK S : d \in Seq(S)
  BY <1>1, SeqIs
<1>6. ASSUME NEW f \in 0..n, NEW k \in 0..(n - f)
      PROVE  SubSeq(d, o, f) \o SubSeq(d, f + 1, f + k) = SubSeq(d, o, f + k)
  <2>1. o \in 1..(Len(d) + 1) /\ f \in (o - 1)..Len(d) /\ f + k \in f..Len(d)
    BY <1>1, <1>2
  <2> QED BY <1>5, <2>1, ConcatAdjacentSubSeq
<1>7. SubSeq(d, o, 0) = <<>>
  <2>1. PICK s : s = SubSeq(d, o, 0)
    OBVIOUS
  <2>2. IsPiece(s, d, 0, 0)
    <3>1. 0 \in 0..n
      OBVIOUS
    <3> QED BY <1>4, <2>1, <3>1
  <2>3. IsSeq(s) /\ Len(s) = 0
    BY <2>2 DEF IsPiece
  <2>4. PICK T : s \in Seq(T)
    BY <2>3, SeqIs
  <2>5. s = <<>>
    BY <2>3, <2>4
  <2> QED BY <2>1, <2>5
<1>8. SubSeq(d, o, n) = d
  <2>1. PICK s : s = SubSeq(d, o, n)
    OBVIOUS
  <2>2. IsPiece(s, d, 0, n)
    BY <1>4, <2>1
  <2>3. IsSeq(s) /\ Len(s) = n /\ \A i \in 1..n : s[i] = d[0 + i]
    BY <2>2 DEF IsPiece
  <2>4. \A i \in 1..n : 0 + i = i
    OBVIOUS
  <2>5. \A i \in 1..Len(s) : s[i] = d[i]
    BY <2>3, <2>4
  <2>6. s = d
    BY <1>1, <2>3, <2>5, SameSeq
  <2> QED BY <2>1, <2>6
<1>9. \A f \in 0..n : IsSeq(SubSeq(d, o, f))
  BY <1>4 DEF IsPiece
<1>10. \A f \in 0..n : \A k \in 0..(n - f) : IsSeq(SubSeq(d, f + 1, f + k))
  BY <1>3 DEF IsPiece
<1>11. \A f \in 0..n : \A k \in 0..(n - f) : Cut(d, f, k)
  BY <1>2, <1>6, <1>10 DEF Cut
<1> QED BY <1>2, <1>7, <1>8, <1>9, <1>11

LEMMA HashInvInit == HashInit => HashInv
<1> SUFFICES ASSUME HashInit PROVE HashInv
  OBVIOUS
<1>1. /\ job \in Jobs /\ ctx = [sha |-> Sha256Init, k_opad |-> <<>>]
      /\ fed = 0 /\ result = <<>>
  BY DEF HashInit
<1>2. job.data \in Nat /\ ctx.sha = Sha256Init /\ ctx.k_opad = <<>>
  BY <1>1, JobIs
<1>3. Given = <<>>
  <2>1. PICK d : d = Data("data", job.data)
    OBVIOUS
  <2>2. SubSeq(d, 1, 0) = <<>>
    BY <1>2, <2>1, TextIs
  <2> QED BY <1>1, <2>1, <2>2 DEF Given, Text
<1>4. Holds(ctx.sha, Given)
  BY <1>2, <1>3, InitHolds
<1>5. Taken
  BY <1>1, <1>2, <1>4 DEF Taken
<1>6. fed \in 0..job.data
  BY <1>1, <1>2
<1> QED BY <1>1, <1>2, <1>5, <1>6 DEF HashInv, CutsDoNotMatter, HmacIsRfc2104

\* Each call keeps this: Start takes in the padded key, Update the next bytes,
\* Done reads the digest.
LEMMA HashStep == HashInv /\ [HashNext]_hashVars => HashInv'
<1> SUFFICES ASSUME HashInv, [HashNext]_hashVars PROVE HashInv'
  OBVIOUS
<1>0. /\ job \in Jobs /\ fed \in 0..job.data
      /\ ctx = [sha |-> ctx.sha, k_opad |-> ctx.k_opad]
      /\ job.kind \in {"sha256", "hmac", "hkdf"} /\ job.key \in Nat /\ job.data \in Nat
      /\ Taken /\ CutsDoNotMatter /\ HmacIsRfc2104
  BY JobIs DEF HashInv
<1>k. Plain(Key) /\ Plain(Padded(Key)) /\ Len(Padded(Key)) = Block
  BY <1>0, KeyIs, PaddedIs DEF Key
<1>o. IsSeq(Xor(Padded(Key), {"opad"})) /\ IsSeq(Xor(Padded(Key), {"ipad"}))
      /\ Xor(Padded(Key), {"opad"}) # <<>>
  <2>1. PICK K : K = Padded(Key)
    OBVIOUS
  <2>2. Plain(K) /\ Len(K) = Block
    BY <1>k, <2>1
  <2>3. PICK x : x = Xor(K, {"opad"})
    OBVIOUS
  <2>4. IsSeq(Xor(K, {"opad"})) /\ IsSeq(Xor(K, {"ipad"})) /\ Len(x) = Block
    BY <2>2, <2>3, PadsAre
  <2>5. x # <<>>
    BY <2>4, BlockIs
  <2> QED BY <2>1, <2>3, <2>4, <2>5
<1>1. CASE Start
  <2>1. /\ job.kind = "hmac" /\ ctx.k_opad = <<>> /\ ctx' = HmacInit(Key)
        /\ job' = job /\ fed' = fed /\ result' = result
    BY <1>1 DEF Start, Key
  <2>2. fed = 0
    BY <1>0, <2>1 DEF Taken
  <2>3. PICK K : K = Padded(Key)
    OBVIOUS
  <2>4. PICK h : h = HmacInit(Key)
    OBVIOUS
  <2>5. /\ Holds(h.sha, Xor(K, {"ipad"})) /\ h.k_opad = Xor(K, {"opad"})
        /\ h = [sha |-> h.sha, k_opad |-> h.k_opad]
    BY <1>k, <2>3, <2>4, HmacInitIs
  <2>6. Given = <<>>
    <3>1. PICK d : d = Data("data", job.data)
      OBVIOUS
    <3>2. SubSeq(d, 1, 0) = <<>>
      BY <1>0, <3>1, TextIs
    <3> QED BY <2>2, <3>1, <3>2 DEF Given, Text
  <2>7. Xor(K, {"ipad"}) \o Given = Xor(K, {"ipad"})
    <3>1. PICK x : x = Xor(K, {"ipad"})
      OBVIOUS
    <3>2. IsSeq(x)
      BY <1>o, <2>3, <3>1
    <3>3. x \o Given = x
      BY <2>6, <3>2, EmptyJoin
    <3> QED BY <3>1, <3>3
  <2>8. Key' = Key /\ Given' = Given /\ ctx' = h
    BY <2>1, <2>4 DEF Key, Given, Text
  <2>9. Taken'
    <3>1. Holds(h.sha, Xor(Padded(Key), {"ipad"}) \o Given)
      BY <2>3, <2>5, <2>7
    <3>2. h.k_opad = Xor(Padded(Key), {"opad"}) /\ h.k_opad # <<>>
      BY <1>o, <2>3, <2>5
    <3>3. job'.kind = "hmac" /\ ctx'.sha = h.sha /\ ctx'.k_opad = h.k_opad
      BY <2>1, <2>8
    <3> QED BY <2>8, <3>1, <3>2, <3>3 DEF Taken
  <2> QED BY <1>0, <2>1, <2>5, <2>8, <2>9 DEF HashInv, CutsDoNotMatter, HmacIsRfc2104
<1>2. CASE Update
  <2>1. PICK n \in 0..(job.data - fed) :
          /\ ctx' = HmacUpdate(ctx, SubSeq(Data("data", job.data), fed + 1, fed + n))
          /\ fed' = fed + n
    BY <1>2 DEF Update
  <2>2. /\ job' = job /\ result' = result /\ result = <<>>
        /\ job.kind = "sha256" \/ ctx.k_opad # <<>>
    BY <1>2 DEF Update, Started
  <2>3. PICK d : d = Data("data", job.data)
    OBVIOUS
  <2>4. PICK x : x = SubSeq(d, fed + 1, fed + n)
    OBVIOUS
  <2>5. IsSeq(x) /\ IsSeq(Given) /\ Given' = Given \o x
    <3>1. IsSeq(SubSeq(d, fed + 1, fed + n)) /\ IsSeq(SubSeq(d, 1, fed))
          /\ SubSeq(d, 1, fed) \o SubSeq(d, fed + 1, fed + n) = SubSeq(d, 1, fed + n)
      <4>1. PICK N \in Nat : N = job.data
        BY <1>0
      <4>2. PICK F \in 0..N : F = fed
        BY <1>0, <4>1
      <4>3. n \in 0..(N - F) /\ d = Data("data", N)
        BY <2>3, <4>1, <4>2
      <4>4. \A f \in 0..N : IsSeq(SubSeq(d, 1, f))
        BY <4>3, TextIs
      <4>5. Cut(d, F, n)
        BY <4>3, TextIs
      <4> QED BY <4>2, <4>4, <4>5 DEF Cut
    <3>2. Given' = SubSeq(d, 1, fed + n) /\ Given = SubSeq(d, 1, fed)
      BY <2>1, <2>2, <2>3 DEF Given, Text
    <3> QED BY <2>4, <3>1, <3>2
  <2>6. PICK c : c = Add(ctx.sha, x)
    OBVIOUS
  <2>7. ctx' = [sha |-> c, k_opad |-> ctx.k_opad]
    <3>1. ctx' = [ctx EXCEPT !.sha = Add(ctx.sha, x)]
      BY <2>1, <2>3, <2>4 DEF HmacUpdate
    <3> QED BY <1>0, <2>6, <3>1
  <2>8. ctx'.sha = c /\ ctx'.k_opad = ctx.k_opad
    BY <2>7
  <2>9. Key' = Key
    BY <2>2 DEF Key
  <2>10. ASSUME job.kind = "sha256" PROVE Holds(c, Given')
    BY <1>0, <2>5, <2>6, <2>10, AddHolds DEF Taken
  <2>11. ASSUME job.kind = "hmac", ctx.k_opad # <<>>
         PROVE  Holds(c, Xor(Padded(Key), {"ipad"}) \o Given')
    <3>1. PICK i : i = Xor(Padded(Key), {"ipad"})
      OBVIOUS
    <3>2. PICK g : g = Given
      OBVIOUS
    <3>3. IsSeq(i) /\ IsSeq(g) /\ Holds(ctx.sha, i \o g)
      BY <1>0, <1>o, <2>5, <2>11, <3>1, <3>2 DEF Taken
    <3>4. Holds(c, (i \o g) \o x)
      BY <2>5, <2>6, <3>3, AddHolds
    <3>5. (i \o g) \o x = i \o (g \o x)
      BY <2>5, <3>3, Assoc
    <3> QED BY <2>5, <3>1, <3>2, <3>4, <3>5
  <2>12. Taken'
    <3>1. job.kind = "hmac" => ctx.k_opad # <<>>
      BY <2>2
    <3> QED BY <1>0, <2>2, <2>8, <2>9, <2>10, <2>11, <3>1 DEF Taken
  <2>13. fed' \in 0..job'.data
    BY <1>0, <2>1, <2>2
  <2> QED BY <1>0, <2>2, <2>7, <2>12, <2>13 DEF HashInv, CutsDoNotMatter, HmacIsRfc2104
<1>3. CASE Done
  <2>1. /\ job' = job /\ ctx' = ctx /\ fed' = fed /\ fed = job.data
        /\ job.kind = "sha256" \/ ctx.k_opad # <<>>
        /\ result' = IF job.kind = "hmac" THEN HmacDone(ctx) ELSE Sha256Done(ctx.sha)
    BY <1>3 DEF Done, Started
  <2>2. Given = Text /\ IsSeq(Text)
    <3>1. PICK d : d = Data("data", job.data)
      OBVIOUS
    <3>2. SubSeq(d, 1, job.data) = d /\ IsSeq(d)
      <4>1. IsSeq(d)
        BY <1>0, <3>1, BytesAre
      <4>2. SubSeq(d, 1, job.data) = d
        BY <1>0, <3>1, TextIs
      <4> QED BY <4>1, <4>2
    <3> QED BY <2>1, <3>1, <3>2 DEF Given, Text
  <2>3. Key' = Key /\ Text' = Text /\ Given' = Given
    BY <2>1 DEF Key, Text, Given
  <2>4. ASSUME job.kind = "sha256" PROVE result' = Fips(Text)
    BY <1>0, <2>1, <2>2, <2>4, DoneIs DEF Taken
  <2>5. ASSUME job.kind = "hmac" PROVE result' = Rfc2104(Key, Text)
    <3>1. PICK K : K = Padded(Key)
      OBVIOUS
    <3>2. ctx.k_opad = Xor(K, {"opad"}) /\ Holds(ctx.sha, Xor(K, {"ipad"}) \o Text)
      BY <1>0, <2>1, <2>2, <2>5, <3>1 DEF Taken
    <3>3. PICK c : c = ctx
      OBVIOUS
    <3>4. HmacDone(c) = Rfc2104(Key, Text)
      BY <1>k, <2>2, <3>1, <3>2, <3>3, HmacDoneIs
    <3> QED BY <2>1, <2>5, <3>3, <3>4
  <2>6. Taken'
    BY <1>0, <2>1, <2>3 DEF Taken
  <2>7. CutsDoNotMatter' /\ HmacIsRfc2104'
    BY <2>1, <2>3, <2>4, <2>5 DEF CutsDoNotMatter, HmacIsRfc2104, Key, Text
  <2> QED BY <1>0, <2>1, <2>6, <2>7 DEF HashInv
<1>4. CASE Derive
  <2>1. job.kind = "hkdf" /\ job' = job /\ ctx' = ctx /\ fed' = fed
    BY <1>4 DEF Derive
  <2>2. Taken'
    BY <2>1 DEF Taken
  <2> QED BY <1>0, <2>1, <2>2 DEF HashInv, CutsDoNotMatter, HmacIsRfc2104
<1>5. CASE UNCHANGED hashVars
  <2>1. job' = job /\ ctx' = ctx /\ fed' = fed /\ result' = result
    BY <1>5 DEF hashVars
  <2>2. Key' = Key /\ Given' = Given
    BY <2>1 DEF Key, Given, Text
  <2>3. Taken'
    BY <1>0, <2>1, <2>2 DEF Taken
  <2> QED BY <1>0, <2>1, <2>3 DEF HashInv, CutsDoNotMatter, HmacIsRfc2104
<1> QED BY <1>1, <1>2, <1>3, <1>4, <1>5 DEF HashNext

\* However the data is cut into updates, for any sizes of blocks, size fields and
\* digests, sha256_done's digest is the one of FIPS 180-4.
THEOREM DigestsAreFips == HashSpec => []CutsDoNotMatter
<1>1. HashInv => CutsDoNotMatter
  BY DEF HashInv
<1> QED BY <1>1, HashInvInit, HashStep, PTL DEF HashSpec

\* An HMAC is the one of RFC 2104, for keys and data of any lengths.
THEOREM HmacsAreRfc2104 == HashSpec => []HmacIsRfc2104
<1>1. HashInv => HmacIsRfc2104
  BY DEF HashInv
<1> QED BY <1>1, HashInvInit, HashStep, PTL DEF HashSpec

-----------------------------------------------------------------------------
(* The steps of a key derivation *)

LEMMA UpdateIs ==
  ASSUME NEW c, c = [sha |-> c.sha, k_opad |-> c.k_opad], NEW a, Holds(c.sha, a),
         NEW x, IsSeq(x), NEW d, d = HmacUpdate(c, x)
  PROVE  d = [sha |-> d.sha, k_opad |-> c.k_opad] /\ d.k_opad = c.k_opad /\ Holds(d.sha, a \o x)
<1>1. PICK s : s = Add(c.sha, x)
  OBVIOUS
<1>2. d = [c EXCEPT !.sha = Add(c.sha, x)]
  BY DEF HmacUpdate
<1>3. d = [sha |-> s, k_opad |-> c.k_opad]
  BY <1>1, <1>2
<1>4. d.sha = s /\ d.k_opad = c.k_opad
  BY <1>3
<1>5. Holds(s, a \o x)
  BY <1>1, AddHolds
<1> QED BY <1>3, <1>4, <1>5

LEMMA HoldsSeq == ASSUME NEW c, NEW a, Holds(c, a) PROVE IsSeq(a)
BY DEF Holds, HoldsAt

LEMMA Rfc2104Is ==
  ASSUME NEW key, NEW text
  PROVE  /\ \E s : Rfc2104(key, text) = Digest(s)
         /\ IsSeq(Rfc2104(key, text)) /\ Len(Rfc2104(key, text)) = HashLen
         /\ Plain(Rfc2104(key, text))
<1>1. PICK s : Rfc2104(key, text) = Digest(s)
  BY DEF Rfc2104, Fips
<1>2. PICK d : d = Digest(s)
  OBVIOUS
<1>3. IsSeq(d) /\ Len(d) = HashLen
  BY <1>2, BytesAre
<1>4. \A i \in 1..HashLen : d[i] = <<"digest", s, i>>
  BY <1>2 DEF Digest
<1>5. \A i \in 1..HashLen : d[i][1] # "xor"
  BY <1>4
<1> QED BY <1>1, <1>2, <1>3, <1>5 DEF Plain

LEMMA HmacIs ==
  ASSUME NEW key, Plain(key), NEW text, IsSeq(text)
  PROVE  Hmac(key, text) = Rfc2104(key, text)
<1>1. PICK K : K = Padded(key)
  OBVIOUS
<1>2. PICK h : h = HmacInit(key)
  OBVIOUS
<1>3. /\ Holds(h.sha, Xor(K, {"ipad"})) /\ h.k_opad = Xor(K, {"opad"})
      /\ h = [sha |-> h.sha, k_opad |-> h.k_opad]
  BY <1>1, <1>2, HmacInitIs
<1>4. PICK ki : ki = Xor(K, {"ipad"})
  OBVIOUS
<1>5. PICK u : u = HmacUpdate(h, text)
  OBVIOUS
<1>6. u.k_opad = h.k_opad /\ Holds(u.sha, ki \o text)
  BY <1>3, <1>4, <1>5, UpdateIs
<1>7. HmacDone(u) = Rfc2104(key, text)
  BY <1>1, <1>3, <1>4, <1>6, HmacDoneIs
<1> QED BY <1>2, <1>5, <1>7 DEF Hmac

Count(c) == <<<<"count", c>>>>
LEMMA CountIs == \A c : IsSeq(Count(c)) /\ Len(Count(c)) = 1 /\ Count(c)[1] = <<"count", c>>
<1> TAKE c
<1>1. PICK x : x = <<"count", c>>
  OBVIOUS
<1>2. <<x>> = [i \in 1..1 |-> <<x>>[i]] /\ Len(<<x>>) = 1 /\ <<x>>[1] = x
  OBVIOUS
<1> QED BY <1>1, <1>2 DEF Count, IsSeq

\* A step makes T(c) of RFC 5869 from T(c - 1), without an info.
LEMMA ExpandIs ==
  ASSUME NEW prk, Plain(prk), NEW t, IsSeq(t), NEW n
  PROVE  ExpandStep(prk, t, <<>>, n) = Rfc2104(prk, t \o Count(n))
<1>1. PICK K : K = Padded(prk)
  OBVIOUS
<1>2. PICK h : h = HmacInit(prk)
  OBVIOUS
<1>3. /\ Holds(h.sha, Xor(K, {"ipad"})) /\ h.k_opad = Xor(K, {"opad"})
      /\ h = [sha |-> h.sha, k_opad |-> h.k_opad]
  BY <1>1, <1>2, HmacInitIs
<1>4. PICK ki : ki = Xor(K, {"ipad"})
  OBVIOUS
<1>5. PICK e : e = <<>>
  OBVIOUS
<1>6. PICK u : u = HmacUpdate(h, t)
  OBVIOUS
<1>7. u = [sha |-> u.sha, k_opad |-> h.k_opad] /\ u.k_opad = h.k_opad /\ Holds(u.sha, ki \o t)
  BY <1>3, <1>4, <1>6, UpdateIs
<1>8. PICK v : v = HmacUpdate(u, e)
  OBVIOUS
<1>9. IsSeq(e) /\ IsSeq(ki \o t) /\ (ki \o t) \o e = ki \o t
  <2>1. PICK kt : kt = ki \o t
    OBVIOUS
  <2>2. IsSeq(kt)
    BY <1>7, <2>1, HoldsSeq
  <2> QED BY <1>5, <2>1, <2>2, EmptyJoin
<1>10. u = [sha |-> u.sha, k_opad |-> u.k_opad]
  BY <1>7
<1>11. v = [sha |-> v.sha, k_opad |-> u.k_opad] /\ v.k_opad = u.k_opad /\ Holds(v.sha, ki \o t)
  <2>1. PICK kt : kt = ki \o t
    OBVIOUS
  <2>2. v = [sha |-> v.sha, k_opad |-> u.k_opad] /\ v.k_opad = u.k_opad /\ Holds(v.sha, kt \o e)
    <3>1. Holds(u.sha, kt) /\ IsSeq(e)
      BY <1>7, <1>9, <2>1
    <3> QED BY <1>8, <1>10, <3>1, UpdateIs
  <2> QED BY <1>9, <2>1, <2>2
<1>12. v = [sha |-> v.sha, k_opad |-> v.k_opad]
  BY <1>11
<1>13. PICK n1 : n1 = Count(n)
  OBVIOUS
<1>14. IsSeq(n1)
  BY <1>13, CountIs
<1>15. PICK x : x = HmacUpdate(v, n1)
  OBVIOUS
<1>16. x.k_opad = v.k_opad /\ Holds(x.sha, (ki \o t) \o n1)
  <2>1. PICK kt : kt = ki \o t
    OBVIOUS
  <2>2. x.k_opad = v.k_opad /\ Holds(x.sha, kt \o n1)
    BY <1>11, <1>12, <1>14, <1>15, <2>1, UpdateIs
  <2> QED BY <2>1, <2>2
<1>17. IsSeq(ki)
  BY <1>3, <1>4, HoldsSeq
<1>18. (ki \o t) \o n1 = ki \o (t \o n1)
  BY <1>14, <1>17, Assoc
<1>19. PICK text : text = t \o n1
  OBVIOUS
<1>20. IsSeq(text)
  BY <1>14, <1>19, JoinIsSeq
<1>21. HmacDone(x) = Rfc2104(prk, text)
  <2>1. Holds(x.sha, Xor(K, {"ipad"}) \o text) /\ x.k_opad = Xor(K, {"opad"})
    BY <1>3, <1>4, <1>7, <1>11, <1>16, <1>18, <1>19
  <2> QED BY <1>1, <1>20, <2>1, HmacDoneIs
<1>22. ExpandStep(prk, t, <<>>, n) = HmacDone(x)
  BY <1>2, <1>5, <1>6, <1>8, <1>13, <1>15, Zenon DEF ExpandStep, Count
<1> QED BY <1>13, <1>19, <1>21, <1>22

-----------------------------------------------------------------------------
(* T(0), T(1), and so on *)

\* T is those up to the m-th.
Chain(T, prk, m) ==
  T = [c \in 0..m |-> IF c = 0 THEN <<>> ELSE Rfc2104(prk, T[c - 1] \o Count(c))]

\* Each is made from the one before, and is a digest.
LEMMA ChainIs ==
  ASSUME NEW prk, NEW m \in Nat, NEW T, Chain(T, prk, m)
  PROVE  /\ T[0] = <<>>
         /\ \A c \in 1..m : T[c] = Rfc2104(prk, T[c - 1] \o Count(c))
         /\ \A c \in 0..m : IsSeq(T[c])
         /\ \A c \in 1..m : IsSeq(T[c]) /\ Len(T[c]) = HashLen
<1>1. T[0] = <<>>
  <2>1. 0 \in 0..m
    OBVIOUS
  <2>2. T[0] = IF 0 = 0 THEN <<>> ELSE Rfc2104(prk, T[0 - 1] \o Count(0))
    BY <2>1 DEF Chain
  <2> QED BY <2>2
<1>2. ASSUME NEW c \in 1..m PROVE T[c] = Rfc2104(prk, T[c - 1] \o Count(c))
  <2>1. c \in 0..m /\ c # 0
    OBVIOUS
  <2>2. T[c] = IF c = 0 THEN <<>> ELSE Rfc2104(prk, T[c - 1] \o Count(c))
    BY <2>1 DEF Chain
  <2> QED BY <2>1, <2>2
<1>3. \A c \in 1..m : IsSeq(T[c]) /\ Len(T[c]) = HashLen
  BY <1>2, Rfc2104Is
<1>4. IsSeq(T[0])
  BY <1>1 DEF IsSeq
<1> QED BY <1>1, <1>2, <1>3, <1>4

LEMMA ChainExists ==
  ASSUME NEW prk, NEW m \in Nat
  PROVE  \E T : Chain(T, prk, m)
<1> DEFINE S == {n \in 0..m : \E T : Chain(T, prk, n)}
<1>1. 0 \in S
  <2>1. PICK T : T = [c \in 0..0 |-> <<>>]
    OBVIOUS
  <2>2. T = [c \in 0..0 |-> IF c = 0 THEN <<>> ELSE Rfc2104(prk, T[c - 1] \o Count(c))]
    BY <2>1
  <2>3. Chain(T, prk, 0)
    BY <2>2 DEF Chain
  <2> QED BY <2>3
<1>2. ASSUME NEW n \in 0..(m - 1), n \in S PROVE n + 1 \in S
  <2>1. PICK T : Chain(T, prk, n)
    BY <1>2
  <2>2. PICK U : U = [c \in 0..(n + 1) |-> IF c = n + 1 THEN Rfc2104(prk, T[n] \o Count(n + 1))
                                           ELSE T[c]]
    OBVIOUS
  <2>3. n \in Nat /\ n + 1 - 1 = n /\ n + 1 \in 0..m
    OBVIOUS
  <2>4. \A c \in 0..n : U[c] = T[c]
    BY <2>2, <2>3
  <2>5. T[0] = <<>> /\ \A c \in 1..n : T[c] = Rfc2104(prk, T[c - 1] \o Count(c))
    BY <2>1, <2>3, ChainIs
  <2>6. ASSUME NEW c \in 0..(n + 1)
        PROVE  U[c] = IF c = 0 THEN <<>> ELSE Rfc2104(prk, U[c - 1] \o Count(c))
    <3>1. CASE c = 0
      <4>1. U[0] = T[0]
        BY <2>3, <2>4
      <4> QED BY <2>5, <3>1, <4>1
    <3>2. CASE c \in 1..n
      <4>1. c # 0 /\ c \in 0..n /\ c - 1 \in 0..n
        BY <3>2, <2>3
      <4>2. U[c] = T[c] /\ U[c - 1] = T[c - 1]
        BY <2>4, <4>1
      <4>3. T[c] = Rfc2104(prk, T[c - 1] \o Count(c))
        BY <2>5, <3>2
      <4> QED BY <4>1, <4>2, <4>3
    <3>3. CASE c = n + 1
      <4>1. c # 0 /\ c - 1 = n /\ n \in 0..n
        BY <2>3, <3>3
      <4>2. U[c] = Rfc2104(prk, T[n] \o Count(n + 1)) /\ U[n] = T[n]
        BY <2>2, <2>4, <3>3, <4>1
      <4> QED BY <3>3, <4>1, <4>2
    <3> QED BY <2>3, <3>1, <3>2, <3>3
  <2>7. U = [c \in 0..(n + 1) |-> U[c]]
    BY <2>2
  <2>8. Chain(U, prk, n + 1)
    BY <2>6, <2>7 DEF Chain
  <2> QED BY <2>3, <2>8
<1> HIDE DEF S
<1>3. \A n \in 0..m : n \in S
  BY <1>1, <1>2, Induct
<1>4. m \in S
  BY <1>3
<1> QED BY <1>4 DEF S

\* Two of them agree as far as both go.
LEMMA ChainSame ==
  ASSUME NEW prk, NEW m \in Nat, NEW n \in Nat, m <= n, NEW T, NEW U,
         Chain(T, prk, m), Chain(U, prk, n)
  PROVE  \A c \in 0..m : T[c] = U[c]
<1> DEFINE S == {c \in 0..m : T[c] = U[c]}
<1>1. T[0] = <<>> /\ \A c \in 1..m : T[c] = Rfc2104(prk, T[c - 1] \o Count(c))
  BY ChainIs
<1>2. U[0] = <<>> /\ \A c \in 1..n : U[c] = Rfc2104(prk, U[c - 1] \o Count(c))
  BY ChainIs
<1>3. 0 \in S
  BY <1>1, <1>2
<1>4. ASSUME NEW c \in 0..(m - 1), c \in S PROVE c + 1 \in S
  <2>1. c + 1 \in 1..m /\ c + 1 \in 1..n /\ c + 1 - 1 = c
    OBVIOUS
  <2>2. PICK d : d = c + 1
    OBVIOUS
  <2>3. d \in 1..m /\ d \in 1..n /\ d - 1 = c /\ T[c] = U[c] /\ d \in 0..m
    BY <1>4, <2>1, <2>2
  <2>4. T[d] = U[d]
    BY <1>1, <1>2, <2>3
  <2> QED BY <2>2, <2>3, <2>4
<1> HIDE DEF S
<1>5. \A c \in 0..m : c \in S
  BY <1>3, <1>4, Induct
<1> QED BY <1>5 DEF S

\* hkdf_sha256 computes them.
LEMMA HkdfChain ==
  ASSUME NEW prk, Plain(prk), NEW m \in Nat, NEW e, e = <<>>,
         NEW T, T = [c \in 0..m |-> IF c = 0 THEN <<>> ELSE ExpandStep(prk, T[c - 1], e, c)]
  PROVE  Chain(T, prk, m)
<1>1. PICK U : Chain(U, prk, m)
  BY ChainExists
<1>2. /\ U[0] = <<>> /\ \A c \in 1..m : U[c] = Rfc2104(prk, U[c - 1] \o Count(c))
      /\ \A c \in 0..m : IsSeq(U[c])
  BY <1>1, ChainIs
<1> DEFINE S == {c \in 0..m : T[c] = U[c]}
<1>3. 0 \in S
  <2>1. 0 \in 0..m
    OBVIOUS
  <2>2. T[0] = IF 0 = 0 THEN <<>> ELSE ExpandStep(prk, T[0 - 1], e, 0)
    BY <2>1
  <2> QED BY <1>2, <2>1, <2>2
<1>4. ASSUME NEW c \in 0..(m - 1), c \in S PROVE c + 1 \in S
  <2>1. PICK d : d = c + 1
    OBVIOUS
  <2>2. d \in 1..m /\ d - 1 = c /\ T[c] = U[c] /\ d \in 0..m /\ d # 0 /\ c \in 0..m
    BY <1>4, <2>1
  <2>3. T[d] = IF d = 0 THEN <<>> ELSE ExpandStep(prk, T[d - 1], e, d)
    BY <2>2
  <2>4. T[d] = ExpandStep(prk, U[c], e, d)
    BY <2>2, <2>3
  <2>5. PICK t : t = U[c]
    OBVIOUS
  <2>6. IsSeq(t)
    BY <1>2, <2>2, <2>5
  <2>7. ExpandStep(prk, t, <<>>, d) = Rfc2104(prk, t \o Count(d))
    BY <2>6, ExpandIs
  <2>8. U[d] = Rfc2104(prk, t \o Count(d))
    BY <1>2, <2>2, <2>5
  <2> QED BY <2>1, <2>2, <2>4, <2>5, <2>7, <2>8
<1> HIDE DEF S
<1>5. \A c \in 0..m : c \in S
  BY <1>3, <1>4, Induct
<1>6. \A c \in 0..m : T[c] = U[c]
  BY <1>5 DEF S
<1>7. DOMAIN T = 0..m /\ T = [c \in 0..m |-> T[c]]
  OBVIOUS
<1>8. U = [c \in 0..m |-> U[c]]
  BY <1>1 DEF Chain
<1>9. T = U
  BY <1>6, <1>7, <1>8
<1> QED BY <1>1, <1>9

-----------------------------------------------------------------------------
(* What is made of them *)

\* F is the first L bytes of T(1), T(2), ...
Expansion(F, T, L) ==
  /\ IsSeq(F) /\ Len(F) = L
  /\ \A c \in Nat : \A i \in 1..HashLen : c * HashLen + i <= L => F[c * HashLen + i] = T[c + 1][i]

LEMMA HashLenIs == HashLen \in Nat \ {0}
BY HashAssumption

\* There is one of each length only.
LEMMA OneExpansion ==
  ASSUME NEW L \in Nat, NEW T, NEW F, NEW G, Expansion(F, T, L), Expansion(G, T, L)
  PROVE  F = G
<1>0. HashLen \in Nat \ {0}
  BY HashLenIs
<1>1. IsSeq(F) /\ IsSeq(G) /\ Len(F) = L /\ Len(G) = L
  BY DEF Expansion
<1>2. ASSUME NEW p \in 1..L PROVE F[p] = G[p]
  <2>1. PICK k \in Nat : k = p - 1
    OBVIOUS
  <2>2. PICK c \in Nat, j \in 0..(HashLen - 1) :
          c = k \div HashLen /\ j = k % HashLen /\ k = c * HashLen + j
    BY <1>0, <2>1, Divided
  <2>3. PICK i : i = j + 1
    OBVIOUS
  <2>4. PICK C \in Nat : C = c * HashLen
    BY <1>0
  <2>5. i \in 1..HashLen /\ C + i = p /\ C + i <= L
    BY <1>0, <2>1, <2>2, <2>3, <2>4
  <2>6. F[C + i] = T[c + 1][i] /\ G[C + i] = T[c + 1][i]
    BY <2>4, <2>5 DEF Expansion
  <2> QED BY <2>5, <2>6
<1> QED BY <1>1, <1>2, SameSeq

\* A part of the next of them carries an expansion on.
LEMMA ExpansionGrows ==
  ASSUME NEW n \in Nat, NEW T, NEW N \in Nat, N = n * HashLen, NEW a, Expansion(a, T, N),
         NEW r \in 0..HashLen, NEW b, IsPiece(b, T[n + 1], 0, r)
  PROVE  Expansion(a \o b, T, N + r)
<1>0. HashLen \in Nat \ {0}
  BY HashLenIs
<1>1. PICK f : f = a \o b
  OBVIOUS
<1>2. IsSeq(b) /\ Len(b) = r /\ \A i \in 1..r : b[i] = T[n + 1][i]
  <2>1. \A i \in 1..r : 0 + i = i
    BY <1>0
  <2> QED BY <2>1 DEF IsPiece
<1>3. IsSeq(a) /\ Len(a) = N
  BY DEF Expansion
<1>4. Joined(a, b, f)
  BY <1>1, <1>2, <1>3, Joins
<1>5. /\ IsSeq(f) /\ Len(f) = N + r
      /\ \A i \in 1..N : f[i] = a[i]
      /\ \A i \in 1..r : f[N + i] = b[i]
  BY <1>2, <1>3, <1>4 DEF Joined
<1>6. (n + 1) * HashLen = N + HashLen
  <2>1. (n + 1) * HashLen = n * HashLen + HashLen
    BY <1>0
  <2> QED BY <2>1
<1>7. ASSUME NEW c \in Nat, NEW i \in 1..HashLen, c * HashLen + i <= N + r
      PROVE  f[c * HashLen + i] = T[c + 1][i]
  <2>1. PICK C \in Nat : C = c * HashLen
    BY <1>0
  <2>2. CASE c > n
    <3>1. (n + 1) * HashLen <= c * HashLen
      BY <1>0, <2>2, Times
    <3> QED BY <1>0, <1>6, <1>7, <2>1, <3>1
  <2>3. CASE c = n
    <3>1. C = N
      BY <2>1, <2>3
    <3>2. i \in 1..r
      BY <1>0, <1>7, <2>1, <3>1
    <3> QED BY <1>2, <1>5, <2>1, <2>3, <3>1, <3>2
  <2>4. CASE c < n
    <3>1. (c + 1) * HashLen <= n * HashLen
      BY <1>0, <2>4, Times
    <3>2. (c + 1) * HashLen = C + HashLen
      BY <1>0, <2>1
    <3>3. C + i <= N /\ C + i \in 1..N
      BY <1>0, <2>1, <3>1, <3>2
    <3>4. a[C + i] = T[c + 1][i]
      BY <2>1, <3>3 DEF Expansion
    <3> QED BY <1>5, <2>1, <3>3, <3>4
  <2> QED BY <2>2, <2>3, <2>4
<1>8. Expansion(f, T, N + r)
  BY <1>5, <1>7 DEF Expansion
<1> QED BY <1>1, <1>8

\* FlattenSeq puts digests together.
LEMMA FlatIs ==
  ASSUME NEW m \in Nat, NEW T, \A c \in 1..m : IsSeq(T[c]) /\ Len(T[c]) = HashLen,
         NEW s, s = [c \in 1..m |-> T[c]]
  PROVE  Expansion(FlattenSeq(s), T, m * HashLen)
<1>0. HashLen \in Nat \ {0}
  BY HashLenIs
<1>1. Len(s) = m /\ IsSeq(s)
  <2>1. DOMAIN s = 1..m
    OBVIOUS
  <2>2. Len(s) = m
    BY <2>1
  <2> QED BY <2>2 DEF IsSeq
<1>2. CASE m = 0
  <2>1. FlattenSeq(s) = s
    BY <1>1, <1>2, Zenon DEF FlattenSeq
  <2>2. m * HashLen = 0
    BY <1>0, <1>2
  <2>3. \A c \in Nat : \A i \in 1..HashLen : ~(c * HashLen + i <= 0)
    <3> TAKE c \in Nat
    <3>1. PICK C \in Nat : C = c * HashLen
      BY <1>0
    <3> QED BY <1>0, <3>1
  <2> QED BY <1>1, <1>2, <2>1, <2>2, <2>3 DEF Expansion
<1>3. CASE m # 0
  <2>1. PICK F : F = CHOOSE f : Flat(f, s, m)
    OBVIOUS
  <2>2. Flat(F, s, m)
    BY <2>1, FlatExists
  <2>3. \A i \in 1..m : F[i] = IF i = 1 THEN s[i] ELSE F[i - 1] \o s[i]
    BY <2>2 DEF Flat
  <2>4. FlattenSeq(s) = F[m]
    <3>1. Len(s) # 0
      BY <1>1, <1>3
    <3>2. FlattenSeq(s) = (CHOOSE f : f = [i \in 1..Len(s) |->
                             IF i = 1 THEN s[i] ELSE f[i - 1] \o s[i]])[Len(s)]
      BY <3>1, Zenon DEF FlattenSeq
    <3> QED BY <1>1, <2>1, <3>2 DEF Flat
  <2> DEFINE S == {n \in 0..m : n > 0 => Expansion(F[n], T, n * HashLen)}
  <2>5. 0 \in S
    OBVIOUS
  <2>6. ASSUME NEW n \in 0..(m - 1), n \in S PROVE n + 1 \in S
    <3>1. PICK d : d = n + 1
      OBVIOUS
    <3>2. d \in 1..m /\ d \in 0..m /\ n \in Nat /\ d - 1 = n
      BY <3>1
    <3>3. s[d] = T[d] /\ IsSeq(T[d]) /\ Len(T[d]) = HashLen
      BY <3>2
    <3>4. CASE n = 0
      <4>1. F[d] = T[1] /\ d = 1
        BY <2>3, <3>1, <3>2, <3>3, <3>4
      <4>2. 1 * HashLen = HashLen
        BY <1>0
      <4>3. ASSUME NEW c \in Nat, NEW i \in 1..HashLen, c * HashLen + i <= HashLen
            PROVE  T[1][c * HashLen + i] = T[c + 1][i]
        <5>1. c = 0
          <6>1. CASE c >= 1
            <7>1. 1 * HashLen <= c * HashLen /\ c * HashLen \in Nat
              BY <1>0, <6>1, Times
            <7> QED BY <1>0, <4>2, <4>3, <7>1
          <6> QED BY <6>1
        <5>2. c * HashLen + i = i /\ c + 1 = 1
          <6>1. c * HashLen = 0
            BY <1>0, <5>1
          <6> QED BY <1>0, <5>1, <6>1
        <5> QED BY <5>2
      <4>4. Expansion(T[1], T, HashLen)
        BY <3>3, <4>1, <4>3 DEF Expansion
      <4>5. d * HashLen = HashLen
        BY <1>0, <4>1
      <4> QED BY <3>1, <3>2, <4>1, <4>4, <4>5
    <3>5. CASE n # 0
      <4>1. F[d] = F[n] \o T[d]
        <5>1. d # 1
          BY <3>1, <3>2, <3>5
        <5>2. F[d] = F[d - 1] \o s[d]
          BY <2>3, <3>2, <5>1
        <5> QED BY <3>2, <3>3, <5>2
      <4>2. PICK N \in Nat : N = n * HashLen
        BY <1>0
      <4>3. PICK a, b : a = F[n] /\ b = T[d]
        OBVIOUS
      <4>4. Expansion(a, T, N)
        BY <2>6, <3>2, <3>5, <4>2, <4>3
      <4>5. IsPiece(b, T[n + 1], 0, HashLen)
        <5>1. \A i \in 1..HashLen : 0 + i = i
          BY <1>0
        <5> QED BY <3>1, <3>3, <4>3, <5>1 DEF IsPiece
      <4>6. HashLen \in 0..HashLen
        BY <1>0
      <4>7. Expansion(a \o b, T, N + HashLen)
        BY <3>2, <4>2, <4>4, <4>5, <4>6, ExpansionGrows
      <4>8. d * HashLen = N + HashLen
        BY <1>0, <3>1, <3>2, <4>2
      <4> QED BY <3>1, <3>2, <4>1, <4>3, <4>7, <4>8
    <3> QED BY <3>4, <3>5
  <2> HIDE DEF S
  <2>7. \A n \in 0..m : n \in S
    BY <2>5, <2>6, Induct
  <2>8. m \in S
    BY <2>7
  <2> QED BY <1>3, <2>4, <2>8 DEF S
<1> QED BY <1>2, <1>3

\* How many whole digests come before the last part of L bytes.
LEMMA RoundsAre ==
  ASSUME NEW L \in Nat \ {0}
  PROVE  \E a \in Nat, r \in 1..HashLen :
           /\ a = (L - 1) \div HashLen /\ a + 1 = (L + HashLen - 1) \div HashLen
           /\ L = a * HashLen + r /\ a + 1 <= L
<1>0. HashLen \in Nat \ {0}
  BY HashLenIs
<1>1. PICK k \in Nat : k = L - 1
  OBVIOUS
<1>2. PICK a \in Nat, j \in 0..(HashLen - 1) :
        a = k \div HashLen /\ j = k % HashLen /\ k = a * HashLen + j
  BY <1>0, Divided
<1>3. PICK A \in Nat : A = a * HashLen
  BY <1>0
<1>4. PICK r \in 1..HashLen : r = j + 1
  BY <1>0
<1>5. L = A + r
  BY <1>0, <1>1, <1>2, <1>3, <1>4
<1>6. a + 1 = (L + HashLen - 1) \div HashLen
  <2>1. PICK n \in Nat, b \in Nat : n = L + HashLen - 1 /\ b = a + 1
    BY <1>0
  <2>2. b * HashLen = A + HashLen
    BY <1>0, <1>3, <2>1
  <2>3. n = b * HashLen + j
    BY <1>0, <1>4, <1>5, <2>1, <2>2
  <2>4. n \div HashLen = b
    BY <1>0, <2>3, Divides
  <2> QED BY <2>1, <2>4
<1>7. a <= A
  <2>1. PICK i \in Nat : HashLen = i + 1
    <3>1. HashLen - 1 \in Nat /\ HashLen = (HashLen - 1) + 1
      BY <1>0
    <3> QED BY <3>1
  <2>2. a * (i + 1) = a * i + a /\ a * i \in Nat
    OBVIOUS
  <2> QED BY <1>3, <2>1, <2>2
<1>8. a + 1 <= L
  BY <1>0, <1>5, <1>7
<1> QED BY <1>1, <1>2, <1>3, <1>5, <1>6, <1>8

\* The T of hkdf_sha256, and the one of RFC 5869.
HkdfT(prk, m, e) ==
  CHOOSE T : T = [c \in 0..m |-> IF c = 0 THEN <<>> ELSE ExpandStep(prk, T[c - 1], e, c)]
RfcT(prk, m) ==
  CHOOSE T : T = [n \in 0..m |-> IF n = 0 THEN <<>>
                                 ELSE Rfc2104(prk, T[n - 1] \o <<<<"count", n>>>>)]

\* hkdf_sha256 and RFC 5869 in terms of them.
HkdfOf(L, more, T) ==
  FlattenSeq([c \in 1..more |-> T[c]]) \o SubSeq(T[more + 1], 1, L - more * HashLen)

LEMMA HkdfUnfolds ==
  ASSUME NEW L, NEW salt, NEW ikm, NEW e, NEW prk, prk = Hmac(salt, ikm),
         NEW more, more = (L - 1) \div HashLen, NEW T, T = HkdfT(prk, L, e)
  PROVE  Hkdf(L, salt, ikm, e) = HkdfOf(L, more, T)
<1>1. Hkdf(L, salt, ikm, e) =
        FlattenSeq([c \in 1..((L - 1) \div HashLen) |-> HkdfT(Hmac(salt, ikm), L, e)[c]])
          \o SubSeq(HkdfT(Hmac(salt, ikm), L, e)[(L - 1) \div HashLen + 1],
                    1, L - ((L - 1) \div HashLen) * HashLen)
  BY Zenon DEF Hkdf, HkdfT
<1> QED BY <1>1, Zenon DEF HkdfOf

LEMMA RfcUnfolds ==
  ASSUME NEW L, NEW salt, NEW ikm, NEW prk, prk = Rfc2104(salt, ikm),
         NEW N, N = (L + HashLen - 1) \div HashLen, NEW T, T = RfcT(prk, N)
  PROVE  Rfc5869(salt, ikm, L) = SubSeq(FlattenSeq([n \in 1..N |-> T[n]]), 1, L)
<1>1. Rfc5869(salt, ikm, L) =
        SubSeq(FlattenSeq([n \in 1..((L + HashLen - 1) \div HashLen) |->
          RfcT(Rfc2104(salt, ikm), (L + HashLen - 1) \div HashLen)[n]]), 1, L)
  BY Zenon DEF Rfc5869, RfcT
<1> QED BY <1>1, Zenon

LEMMA HkdfTs ==
  ASSUME NEW prk, Plain(prk), NEW m \in Nat, NEW e, e = <<>>
  PROVE  Chain(HkdfT(prk, m, e), prk, m)
<1>1. PICK U : Chain(U, prk, m)
  BY ChainExists
<1>2. \A c \in 0..m : IsSeq(U[c])
  BY <1>1, ChainIs
<1>3. ASSUME NEW c \in 0..m, c # 0
      PROVE  ExpandStep(prk, U[c - 1], e, c) = Rfc2104(prk, U[c - 1] \o Count(c))
  <2>1. PICK t : t = U[c - 1]
    OBVIOUS
  <2>2. IsSeq(t)
    BY <1>2, <1>3, <2>1
  <2>3. ExpandStep(prk, t, <<>>, c) = Rfc2104(prk, t \o Count(c))
    BY <2>2, ExpandIs
  <2> QED BY <2>1, <2>3
<1> DEFINE Is(T) == T = [c \in 0..m |-> IF c = 0 THEN <<>> ELSE ExpandStep(prk, T[c - 1], e, c)]
<1>4. Is(U)
  <2>1. \A c \in 0..m : U[c] = IF c = 0 THEN <<>> ELSE Rfc2104(prk, U[c - 1] \o Count(c))
    BY <1>1 DEF Chain
  <2>2. \A c \in 0..m : U[c] = IF c = 0 THEN <<>> ELSE ExpandStep(prk, U[c - 1], e, c)
    BY <1>3, <2>1
  <2>3. U = [c \in 0..m |-> U[c]]
    BY <1>1 DEF Chain
  <2> QED BY <2>2, <2>3
<1>5. PICK T : T = HkdfT(prk, m, e)
  OBVIOUS
<1>6. T = CHOOSE f : Is(f)
  BY <1>5 DEF HkdfT
<1> HIDE DEF Is
<1>7. Is(T)
  BY <1>4, <1>6, Zenon
<1>8. T = [c \in 0..m |-> IF c = 0 THEN <<>> ELSE ExpandStep(prk, T[c - 1], e, c)]
  BY <1>7 DEF Is
<1>9. Chain(T, prk, m)
  BY <1>8, HkdfChain
<1> QED BY <1>5, <1>9

LEMMA RfcTs ==
  ASSUME NEW prk, NEW m \in Nat
  PROVE  Chain(RfcT(prk, m), prk, m)
<1>1. PICK U : Chain(U, prk, m)
  BY ChainExists
<1> DEFINE Is(T) == T = [n \in 0..m |-> IF n = 0 THEN <<>>
                                       ELSE Rfc2104(prk, T[n - 1] \o <<<<"count", n>>>>)]
<1>2. Is(U)
  BY <1>1 DEF Chain, Count
<1>3. PICK T : T = RfcT(prk, m)
  OBVIOUS
<1>4. T = CHOOSE f : Is(f)
  BY <1>3 DEF RfcT
<1> HIDE DEF Is
<1>5. Is(T)
  BY <1>2, <1>4, Zenon
<1>6. Chain(T, prk, m)
  BY <1>5 DEF Is, Chain, Count
<1> QED BY <1>3, <1>6

LEMMA ChainLens ==
  ASSUME NEW prk, NEW m \in Nat, NEW T, Chain(T, prk, m)
  PROVE  \A c \in 1..m : IsSeq(T[c]) /\ Len(T[c]) = HashLen
BY ChainIs

\* hkdf_sha256 makes the first L bytes of T(1), T(2), ...
LEMMA HkdfExpands ==
  ASSUME NEW salt, Plain(salt), NEW ikm, IsSeq(ikm), NEW L \in Nat \ {0},
         NEW prk, prk = Rfc2104(salt, ikm)
  PROVE  \E T : Chain(T, prk, L) /\ Expansion(Hkdf(L, salt, ikm, <<>>), T, L)
<1>0. HashLen \in Nat \ {0}
  BY HashLenIs
<1>1. Plain(prk) /\ prk = Hmac(salt, ikm)
  BY Rfc2104Is, HmacIs
<1>2. PICK a \in Nat, r \in 1..HashLen :
        /\ a = (L - 1) \div HashLen /\ a + 1 = (L + HashLen - 1) \div HashLen
        /\ L = a * HashLen + r /\ a + 1 <= L
  BY RoundsAre
<1>3. PICK e : e = <<>>
  OBVIOUS
<1>4. PICK T : T = HkdfT(prk, L, e)
  OBVIOUS
<1>5. Chain(T, prk, L)
  <2>1. PICK m \in Nat : m = L
    OBVIOUS
  <2>2. Plain(prk)
    BY <1>1
  <2>3. Chain(HkdfT(prk, m, e), prk, m)
    BY <1>3, <2>2, HkdfTs
  <2> QED BY <1>4, <2>1, <2>3
<1>6. \A c \in 1..L : IsSeq(T[c]) /\ Len(T[c]) = HashLen
  <2>1. PICK m \in Nat : m = L
    OBVIOUS
  <2>2. Chain(T, prk, m)
    BY <1>5, <2>1
  <2>3. \A c \in 1..m : IsSeq(T[c]) /\ Len(T[c]) = HashLen
    BY <2>2, ChainLens
  <2> QED BY <2>1, <2>3
<1>7. PICK s : s = [c \in 1..a |-> T[c]]
  OBVIOUS
<1>8. PICK A \in Nat : A = a * HashLen
  BY <1>0
<1>9. PICK F : F = FlattenSeq(s)
  OBVIOUS
<1>10. Expansion(F, T, A)
  <2>1. \A c \in 1..a : IsSeq(T[c]) /\ Len(T[c]) = HashLen
    BY <1>2, <1>6
  <2> QED BY <1>7, <1>8, <1>9, <2>1, FlatIs
<1>11. PICK t : t = T[a + 1]
  OBVIOUS
<1>12. IsSeq(t) /\ Len(t) = HashLen
  <2>1. a + 1 \in 1..L
    BY <1>2
  <2> QED BY <1>6, <1>11, <2>1
<1>13. PICK p : p = SubSeq(t, 1, r)
  OBVIOUS
<1>14. IsPiece(p, t, 0, r)
  <2>1. PICK z, lo : z = 0 /\ lo = 1
    OBVIOUS
  <2>2. z \in Nat /\ r \in Nat /\ z + r <= Len(t) /\ lo = z + 1 /\ r = z + r
    BY <1>0, <1>12, <2>1
  <2>3. IsPiece(SubSeq(t, lo, r), t, z, r)
    BY <1>12, <2>2, Piece
  <2> QED BY <1>13, <2>1, <2>3
<1>15. Expansion(F \o p, T, A + r)
  <2>1. r \in 0..HashLen
    BY <1>0
  <2> QED BY <1>8, <1>10, <1>11, <1>14, <2>1, ExpansionGrows
<1>16. A + r = L /\ L - a * HashLen = r
  BY <1>0, <1>2, <1>8
<1>17. Hkdf(L, salt, ikm, e) = F \o p
  <2>1. PICK more : more = (L - 1) \div HashLen
    OBVIOUS
  <2>2. prk = Hmac(salt, ikm)
    BY <1>1
  <2>3. Hkdf(L, salt, ikm, e) = HkdfOf(L, more, T)
    BY <1>4, <2>1, <2>2, HkdfUnfolds
  <2>4. more = a
    BY <1>2, <2>1
  <2>5. L - more * HashLen = r
    BY <1>16, <2>4
  <2> QED BY <1>7, <1>9, <1>11, <1>13, <2>3, <2>4, <2>5 DEF HkdfOf
<1> QED BY <1>3, <1>5, <1>15, <1>16, <1>17

\* So does RFC 5869.
LEMMA RfcExpands ==
  ASSUME NEW salt, NEW ikm, NEW L \in Nat \ {0}, NEW prk, prk = Rfc2104(salt, ikm),
         NEW U, Chain(U, prk, L)
  PROVE  Expansion(Rfc5869(salt, ikm, L), U, L)
<1>0. HashLen \in Nat \ {0}
  BY HashLenIs
<1>1. PICK a \in Nat, r \in 1..HashLen :
        /\ a = (L - 1) \div HashLen /\ a + 1 = (L + HashLen - 1) \div HashLen
        /\ L = a * HashLen + r /\ a + 1 <= L
  BY RoundsAre
<1>2. PICK N \in Nat : N = a + 1
  OBVIOUS
<1>3. PICK T : T = RfcT(prk, N)
  OBVIOUS
<1>4. Chain(T, prk, N)
  BY <1>3, RfcTs
<1>5. \A c \in 0..N : T[c] = U[c]
  <2>1. L \in Nat /\ N <= L
    BY <1>1, <1>2
  <2>2. Chain(T, prk, N) /\ Chain(U, prk, L)
    BY <1>4
  <2>3. PICK m \in Nat : m = L
    OBVIOUS
  <2>4. N <= m /\ Chain(U, prk, m)
    BY <2>1, <2>2, <2>3
  <2> QED BY <2>2, <2>4, ChainSame
<1>6. \A c \in 1..N : IsSeq(T[c]) /\ Len(T[c]) = HashLen
  BY <1>2, <1>4, ChainLens
<1>7. PICK s, F : s = [n \in 1..N |-> T[n]] /\ F = FlattenSeq(s)
  OBVIOUS
<1>8. PICK A \in Nat : A = a * HashLen
  BY <1>0
<1>9. N * HashLen = A + HashLen
  <2>1. (a + 1) * HashLen = a * HashLen + HashLen
    BY <1>0
  <2> QED BY <1>2, <1>8, <2>1
<1>10. Expansion(F, T, A + HashLen)
  <2>1. Expansion(F, T, N * HashLen)
    BY <1>6, <1>7, FlatIs
  <2> QED BY <1>9, <2>1
<1>11. L = A + r /\ L <= A + HashLen
  BY <1>0, <1>1, <1>8
<1>12. PICK G : G = SubSeq(F, 1, L)
  OBVIOUS
<1>13. IsPiece(G, F, 0, L)
  <2>1. PICK z, lo : z = 0 /\ lo = 1
    OBVIOUS
  <2>2. IsSeq(F) /\ Len(F) = A + HashLen
    BY <1>10 DEF Expansion
  <2>3. z \in Nat /\ L \in Nat /\ z + L <= Len(F) /\ lo = z + 1 /\ L = z + L
    BY <1>0, <1>11, <2>1, <2>2
  <2>4. IsPiece(SubSeq(F, lo, L), F, z, L)
    BY <2>2, <2>3, Piece
  <2> QED BY <1>12, <2>1, <2>4
<1>14. IsSeq(G) /\ Len(G) = L /\ \A i \in 1..L : G[i] = F[i]
  <2>1. \A i \in 1..L : 0 + i = i
    OBVIOUS
  <2> QED BY <1>13, <2>1 DEF IsPiece
<1>15. ASSUME NEW c \in Nat, NEW i \in 1..HashLen, c * HashLen + i <= L
       PROVE  G[c * HashLen + i] = U[c + 1][i]
  <2>1. PICK C \in Nat : C = c * HashLen
    BY <1>0
  <2>2. C + i \in 1..L /\ C + i <= A + HashLen
    BY <1>0, <1>11, <1>15, <2>1
  <2>3. F[C + i] = T[c + 1][i]
    BY <1>10, <2>1, <2>2 DEF Expansion
  <2>4. c + 1 \in 0..N
    <3>1. CASE c > a
      <4>1. (a + 1) * HashLen <= c * HashLen
        BY <1>0, <3>1, Times
      <4> QED BY <1>0, <1>2, <1>9, <1>11, <2>1, <2>2, <4>1
    <3> QED BY <1>2, <3>1
  <2>5. T[c + 1] = U[c + 1]
    BY <1>5, <2>4
  <2> QED BY <1>14, <2>1, <2>2, <2>3, <2>5
<1>16. Expansion(G, U, L)
  BY <1>14, <1>15 DEF Expansion
<1>17. Rfc5869(salt, ikm, L) = G
  <2>1. N = (L + HashLen - 1) \div HashLen
    BY <1>1, <1>2
  <2>2. Rfc5869(salt, ikm, L) = SubSeq(FlattenSeq([n \in 1..N |-> T[n]]), 1, L)
    BY <1>3, <2>1, RfcUnfolds
  <2> QED BY <1>7, <1>12, <2>2
<1> QED BY <1>16, <1>17

\* Both are the first bytes of the same digests, so they are the same.
LEMMA HkdfIs ==
  ASSUME NEW salt, Plain(salt), NEW ikm, IsSeq(ikm), NEW L \in Nat \ {0}
  PROVE  Hkdf(L, salt, ikm, <<>>) = Rfc5869(salt, ikm, L)
<1>1. PICK prk : prk = Rfc2104(salt, ikm)
  OBVIOUS
<1>2. PICK T : Chain(T, prk, L) /\ Expansion(Hkdf(L, salt, ikm, <<>>), T, L)
  BY <1>1, HkdfExpands
<1>3. Expansion(Rfc5869(salt, ikm, L), T, L)
  BY <1>1, <1>2, RfcExpands
<1>4. PICK a, b : a = Hkdf(L, salt, ikm, <<>>) /\ b = Rfc5869(salt, ikm, L)
  OBVIOUS
<1>5. L \in Nat /\ Expansion(a, T, L) /\ Expansion(b, T, L)
  BY <1>2, <1>3, <1>4
<1>6. a = b
  BY <1>5, OneExpansion
<1> QED BY <1>4, <1>6

-----------------------------------------------------------------------------
(* Digests of different data *)

\* What FIPS 180-4 hashes is the data and something more, in whole blocks.
LEMMA FipsIs ==
  ASSUME NEW data, IsSeq(data)
  PROVE  \E e : /\ Fips(data) = Digest(Blocks(e)) /\ IsSeq(e) /\ Len(e) % Block = 0
                /\ Len(e) > Len(data) /\ \A i \in 1..Len(data) : e[i] = data[i]
<1>1. PICK n \in Nat : n = Len(data)
  BY DEF IsSeq
<1>2. PICK z \in 0..(Block - 1) :
        /\ z = (2 * Block - SizeField - (n % Block) - 1) % Block
        /\ (n + 1 + z + SizeField) % Block = 0
        /\ z = CHOOSE y \in 0..(Block - 1) : (n + 1 + y + SizeField) % Block = 0
  BY ZerosAre
<1>3. PICK mark, zb, sb : mark = <<One>> /\ zb = ZeroBytes(z) /\ sb = SizeBytes(n)
  OBVIOUS
<1>4. Block \in Nat /\ SizeField \in Nat /\ z \in Nat
  BY HashAssumption, BlockIs
<1>5. /\ IsSeq(mark) /\ Len(mark) = 1 /\ IsSeq(zb) /\ Len(zb) = z /\ IsSeq(sb) /\ Len(sb) = SizeField
  BY <1>3, <1>4, BytesAre
<1>6. PICK d : d = data \o mark
  OBVIOUS
<1>7. IsSeq(d) /\ Len(d) = n + 1 /\ \A i \in 1..n : d[i] = data[i]
  <2>1. Joined(data, mark, d)
    BY <1>5, <1>6, Joins
  <2> QED BY <1>1, <1>5, <2>1 DEF Joined
<1>8. PICK f : f = d \o zb
  OBVIOUS
<1>9. IsSeq(f) /\ Len(f) = n + 1 + z /\ \A i \in 1..(n + 1) : f[i] = d[i]
  <2>1. Joined(d, zb, f)
    BY <1>5, <1>7, <1>8, Joins
  <2> QED BY <1>5, <1>7, <2>1 DEF Joined
<1>10. PICK e : e = f \o sb
  OBVIOUS
<1>11. IsSeq(e) /\ Len(e) = n + 1 + z + SizeField /\ \A i \in 1..(n + 1 + z) : e[i] = f[i]
  <2>1. Joined(f, sb, e)
    BY <1>5, <1>9, <1>10, Joins
  <2> QED BY <1>5, <1>9, <2>1 DEF Joined
<1>12. \A i \in 1..n : e[i] = data[i]
  BY <1>4, <1>7, <1>9, <1>11
<1>13. Fips(data) = Digest(Blocks(e))
  <2>1. e = data \o mark \o zb \o sb
    BY <1>6, <1>8, <1>10
  <2> QED BY <1>1, <1>2, <1>3, <2>1, Zenon DEF Fips
<1>14. Len(e) > n
  BY <1>4, <1>11
<1> QED BY <1>1, <1>2, <1>11, <1>12, <1>13, <1>14

\* After a block, the second block starts with the data.
LEMMA FipsBlock ==
  ASSUME NEW K, IsSeq(K), Len(K) = Block, NEW x, IsSeq(x), Len(x) >= 1
  PROVE  \E s : Fips(K \o x) = Digest(s) /\ s[2][1] = x[1]
<1>0. Block \in Nat \ {0}
  BY BlockIs
<1>1. PICK d : d = K \o x
  OBVIOUS
<1>2. IsSeq(d) /\ Len(d) = Block + Len(x) /\ d[Block + 1] = x[1] /\ Len(x) \in Nat
  <2>1. Joined(K, x, d) /\ Len(x) \in Nat
    BY <1>1, Joins DEF IsSeq
  <2>2. 1 \in 1..Len(x)
    BY <2>1
  <2> QED BY <2>1, <2>2 DEF Joined
<1>3. PICK e : /\ Fips(d) = Digest(Blocks(e)) /\ IsSeq(e) /\ Len(e) % Block = 0
               /\ Len(e) > Len(d) /\ \A i \in 1..Len(d) : e[i] = d[i]
  BY <1>2, FipsIs
<1>4. PICK n \in Nat : n = Len(e)
  BY <1>3 DEF IsSeq
<1>5. PICK q \in Nat, r \in 0..(Block - 1) : q = n \div Block /\ r = n % Block /\ n = q * Block + r
  BY <1>0, Divided
<1>6. PICK Q \in Nat : Q = q * Block
  BY <1>0
<1>7. Q = n /\ Q > Block
  <2>1. r = 0
    BY <1>3, <1>4, <1>5
  <2>2. n > Block
    BY <1>0, <1>2, <1>3, <1>4
  <2>3. n = Q + r
    BY <1>5, <1>6
  <2>4. Q = n
    BY <2>1, <2>3
  <2> QED BY <2>2, <2>4
<1>8. q >= 2
  <2>1. CASE q <= 1
    <3>1. q * Block <= 1 * Block
      BY <1>0, <2>1, Times
    <3>2. 1 * Block = Block
      BY <1>0
    <3> QED BY <1>0, <1>6, <1>7, <3>1, <3>2
  <2> QED BY <2>1
<1>9. PICK two, lo, hi : two = 2 /\ lo = Block + 1 /\ hi = Block + Block
  OBVIOUS
<1>10. PICK s : s = Blocks(e)
  OBVIOUS
<1>11. s[two] = SubSeq(e, lo, hi)
  <2>1. two \in 1..(Len(e) \div Block)
    BY <1>4, <1>5, <1>8, <1>9
  <2>2. s[two] = SubSeq(e, (two - 1) * Block + 1, two * Block)
    BY <1>10, <2>1 DEF Blocks
  <2>3. (two - 1) * Block + 1 = lo /\ two * Block = hi
    BY <1>0, <1>9
  <2> QED BY <2>2, <2>3
<1>12. Block + Block <= n
  <2>1. 2 * Block <= q * Block /\ 2 * Block = Block + Block
    BY <1>0, <1>8, Times
  <2> QED BY <1>0, <1>6, <1>7, <2>1
<1>13. IsPiece(s[two], e, Block, Block)
  <2>1. PICK k \in Nat : k = Block
    BY <1>0
  <2>2. k + k <= Len(e) /\ lo = k + 1 /\ hi = k + k
    BY <1>4, <1>9, <1>12, <2>1
  <2>3. IsPiece(SubSeq(e, lo, hi), e, k, k)
    BY <1>3, <2>1, <2>2, Piece
  <2> QED BY <1>11, <2>1, <2>3
<1>14. s[two][1] = e[Block + 1]
  <2>1. 1 \in 1..Block
    BY <1>0
  <2> QED BY <1>13, <2>1 DEF IsPiece
<1>15. e[Block + 1] = x[1]
  <2>1. Block + 1 \in 1..Len(d)
    BY <1>0, <1>2
  <2> QED BY <1>2, <1>3, <2>1
<1> QED BY <1>1, <1>3, <1>9, <1>10, <1>14, <1>15

LEMMA PadLen ==
  ASSUME NEW K, IsSeq(K), NEW pads
  PROVE  IsSeq(Xor(K, pads)) /\ Len(Xor(K, pads)) = Len(K)
<1>1. PICK n \in Nat : n = Len(K) /\ K = [i \in 1..n |-> K[i]]
  BY DEF IsSeq
<1>2. DOMAIN K = 1..n
  BY <1>1
<1>3. PICK x : x = Xor(K, pads)
  OBVIOUS
<1>4. x = [i \in 1..n |-> x[i]]
  BY <1>2, <1>3 DEF Xor
<1>5. Len(x) = n
  BY <1>4
<1> QED BY <1>1, <1>3, <1>4, <1>5 DEF IsSeq

\* The first byte of a text can be told from its HMAC.
Tells(d, byte) == \E s, t : d = Digest(s) /\ s[2][1] = <<"digest", t, 1>> /\ t[2][1] = byte

LEMMA Rfc2104First ==
  ASSUME NEW key, Plain(key), NEW text, IsSeq(text), Len(text) >= 1
  PROVE  Tells(Rfc2104(key, text), text[1])
<1>1. PICK K : K = Padded(key)
  OBVIOUS
<1>2. IsSeq(K) /\ Len(K) = Block
  BY <1>1, PaddedIs DEF Plain
<1>3. PICK ip, op : ip = Xor(K, {"ipad"}) /\ op = Xor(K, {"opad"})
  OBVIOUS
<1>4. IsSeq(ip) /\ Len(ip) = Block /\ IsSeq(op) /\ Len(op) = Block
  BY <1>2, <1>3, PadLen
<1>5. PICK t : Fips(ip \o text) = Digest(t) /\ t[2][1] = text[1]
  BY <1>4, FipsBlock
<1>6. PICK x : x = Digest(t)
  OBVIOUS
<1>7. IsSeq(x) /\ Len(x) >= 1 /\ x[1] = <<"digest", t, 1>>
  <2>1. IsSeq(x) /\ Len(x) = HashLen
    BY <1>6, BytesAre
  <2>2. 1 \in 1..HashLen /\ HashLen >= 1
    BY HashLenIs
  <2> QED BY <1>6, <2>1, <2>2 DEF Digest
<1>8. PICK s : Fips(op \o x) = Digest(s) /\ s[2][1] = x[1]
  BY <1>4, <1>7, FipsBlock
<1>9. Rfc2104(key, text) = Fips(op \o Fips(ip \o text))
  BY <1>1, <1>3, Zenon DEF Rfc2104, Padded
<1> QED BY <1>5, <1>6, <1>7, <1>8, <1>9 DEF Tells

\* HMACs of texts with other first bytes have no byte in common.
LEMMA Rfc2104Apart ==
  ASSUME NEW key, Plain(key), NEW a, IsSeq(a), Len(a) >= 1, NEW b, IsSeq(b), Len(b) >= 1,
         a[1] # b[1], NEW i \in 1..HashLen, NEW j \in 1..HashLen
  PROVE  Rfc2104(key, a)[i] # Rfc2104(key, b)[j]
<1>1. Tells(Rfc2104(key, a), a[1]) /\ Tells(Rfc2104(key, b), b[1])
  BY Rfc2104First
<1>2. PICK s, t : Rfc2104(key, a) = Digest(s) /\ s[2][1] = <<"digest", t, 1>> /\ t[2][1] = a[1]
  BY <1>1 DEF Tells
<1>3. PICK u, v : Rfc2104(key, b) = Digest(u) /\ u[2][1] = <<"digest", v, 1>> /\ v[2][1] = b[1]
  BY <1>1 DEF Tells
<1>4. Digest(s)[i] = <<"digest", s, i>> /\ Digest(u)[j] = <<"digest", u, j>>
  BY DEF Digest
<1>5. s # u
  BY <1>2, <1>3
<1> QED BY <1>2, <1>3, <1>4, <1>5

-----------------------------------------------------------------------------
(* The two keys of hkdf_two_keys *)

AreKeys(keys, okm) ==
  keys[1] \o keys[2] = okm /\ \A i, j \in 1..HashLen : keys[1][i] # keys[2][j]

\* The halves are T(1) and T(2), HMACs of texts which begin with the count and
\* with T(1).
LEMMA TwoKeys ==
  ASSUME NEW salt, Plain(salt), NEW ikm, IsSeq(ikm), NEW two \in Nat \ {0}, two = 2 * HashLen,
         NEW keys, keys = HkdfTwoKeys(salt, ikm)
  PROVE  AreKeys(keys, Rfc5869(salt, ikm, two))
<1>0. HashLen \in Nat \ {0} /\ two = HashLen + HashLen
  BY HashLenIs
<1>1. PICK e : e = <<>>
  OBVIOUS
<1>2. PICK okm : okm = Hkdf(two, salt, ikm, e)
  OBVIOUS
<1>3. PICK prk : prk = Rfc2104(salt, ikm)
  OBVIOUS
<1>4. Plain(prk)
  BY <1>3, Rfc2104Is
<1>5. PICK T : Chain(T, prk, two) /\ Expansion(okm, T, two)
  BY <1>1, <1>2, <1>3, HkdfExpands
<1>6. IsSeq(okm) /\ Len(okm) = two
  BY <1>5 DEF Expansion
<1>7. okm = Rfc5869(salt, ikm, two)
  BY <1>1, <1>2, HkdfIs
<1>8. PICK z, one, nxt : z = 0 /\ one = 1 /\ nxt = HashLen + 1
  OBVIOUS
<1>9. PICK a, b : a = SubSeq(okm, one, HashLen) /\ b = SubSeq(okm, nxt, two)
  OBVIOUS
<1>10. keys[1] = a /\ keys[2] = b
  <2>1. keys = <<SubSeq(okm, 1, HashLen), SubSeq(okm, HashLen + 1, 2 * HashLen)>>
    BY <1>1, <1>2, Zenon DEF HkdfTwoKeys
  <2>2. keys = <<a, b>>
    BY <1>8, <1>9, <2>1
  <2> QED BY <2>2
<1>11. IsPiece(a, okm, 0, HashLen)
  <2>1. z \in Nat /\ HashLen \in Nat /\ z + HashLen <= Len(okm) /\ one = z + 1 /\ HashLen = z + HashLen
    BY <1>0, <1>6, <1>8
  <2>2. IsPiece(SubSeq(okm, one, HashLen), okm, z, HashLen)
    BY <1>6, <2>1, Piece
  <2> QED BY <1>8, <1>9, <2>2
<1>12. IsPiece(b, okm, HashLen, HashLen)
  <2>1. HashLen \in Nat /\ HashLen + HashLen <= Len(okm) /\ nxt = HashLen + 1 /\ two = HashLen + HashLen
    BY <1>0, <1>6, <1>8
  <2>2. IsPiece(SubSeq(okm, nxt, two), okm, HashLen, HashLen)
    BY <1>6, <2>1, Piece
  <2> QED BY <1>9, <2>2
<1>13. /\ IsSeq(a) /\ Len(a) = HashLen /\ \A i \in 1..HashLen : a[i] = okm[i]
       /\ IsSeq(b) /\ Len(b) = HashLen /\ \A i \in 1..HashLen : b[i] = okm[HashLen + i]
  <2>1. \A i \in 1..HashLen : 0 + i = i
    BY <1>0
  <2> QED BY <1>11, <1>12, <2>1 DEF IsPiece
<1>14. a \o b = okm
  <2>1. PICK c : c = a \o b
    OBVIOUS
  <2>2. Joined(a, b, c)
    BY <1>13, <2>1, Joins
  <2>3. IsSeq(c) /\ Len(c) = two
    BY <1>0, <1>13, <2>2 DEF Joined
  <2>4. ASSUME NEW i \in 1..two PROVE c[i] = okm[i]
    <3>1. CASE i <= HashLen
      <4>1. i \in 1..HashLen
        BY <1>0, <3>1
      <4> QED BY <1>13, <2>2, <4>1 DEF Joined
    <3>2. CASE i > HashLen
      <4>1. PICK j \in 1..HashLen : i = HashLen + j
        <5>1. i - HashLen \in 1..HashLen /\ i = HashLen + (i - HashLen)
          BY <1>0, <3>2
        <5> QED BY <5>1
      <4>2. c[HashLen + j] = b[j]
        BY <1>13, <2>2 DEF Joined
      <4> QED BY <1>13, <4>1, <4>2
    <3> QED BY <1>0, <3>1, <3>2
  <2>5. c = okm
    BY <1>6, <2>3, <2>4, SameSeq
  <2> QED BY <2>1, <2>5
<1>15. \A i \in 1..HashLen : a[i] = T[1][i] /\ b[i] = T[2][i]
  <2>1. ASSUME NEW c \in Nat, c <= 1, NEW i \in 1..HashLen, NEW C \in Nat, C = c * HashLen
        PROVE  okm[C + i] = T[c + 1][i]
    <3>1. C + i <= two
      <4>1. CASE c = 0
        <5>1. C = 0
          BY <1>0, <2>1, <4>1
        <5> QED BY <1>0, <5>1
      <4>2. CASE c = 1
        <5>1. C = HashLen
          BY <1>0, <2>1, <4>2
        <5> QED BY <1>0, <5>1
      <4> QED BY <2>1, <4>1, <4>2
    <3> QED BY <1>5, <2>1, <3>1 DEF Expansion
  <2>2. ASSUME NEW i \in 1..HashLen PROVE okm[i] = T[1][i]
    <3>1. 0 = 0 * HashLen /\ 0 + i = i /\ 0 + 1 = 1
      BY <1>0
    <3>2. okm[0 + i] = T[0 + 1][i]
      BY <2>1, <3>1
    <3> QED BY <3>1, <3>2
  <2>3. ASSUME NEW i \in 1..HashLen PROVE okm[HashLen + i] = T[2][i]
    <3>1. HashLen = 1 * HashLen /\ 1 + 1 = 2
      BY <1>0
    <3>2. okm[HashLen + i] = T[1 + 1][i]
      BY <1>0, <2>1, <3>1
    <3> QED BY <3>1, <3>2
  <2> QED BY <1>13, <2>2, <2>3
<1>16. PICK x, y : x = Count(1) /\ y = T[1] \o Count(2)
  OBVIOUS
<1>17. /\ T[1] = Rfc2104(prk, x) /\ T[2] = Rfc2104(prk, y)
       /\ IsSeq(T[1]) /\ Len(T[1]) = HashLen
  <2>1. PICK m \in Nat : m = two
    OBVIOUS
  <2>2. Chain(T, prk, m)
    BY <1>5, <2>1
  <2>3. /\ T[0] = <<>> /\ \A c \in 1..m : T[c] = Rfc2104(prk, T[c - 1] \o Count(c))
        /\ \A c \in 1..m : IsSeq(T[c]) /\ Len(T[c]) = HashLen
    <3>1. T[0] = <<>>
      BY <2>2, ChainIs
    <3>2. \A c \in 1..m : T[c] = Rfc2104(prk, T[c - 1] \o Count(c))
      BY <2>2, ChainIs
    <3> QED BY <2>2, <3>1, <3>2, ChainLens
  <2>4. 1 \in 1..m /\ 2 \in 1..m /\ 1 - 1 = 0 /\ 2 - 1 = 1
    BY <1>0, <2>1
  <2>5. T[0] \o Count(1) = x
    BY <1>16, <2>3, CountIs, EmptyJoin
  <2>6. T[1] = Rfc2104(prk, T[0] \o Count(1))
    BY <2>3, <2>4
  <2>7. T[2] = Rfc2104(prk, T[1] \o Count(2))
    BY <2>3, <2>4
  <2> QED BY <1>16, <2>3, <2>4, <2>5, <2>6, <2>7
<1>18. IsSeq(x) /\ Len(x) >= 1 /\ x[1] = <<"count", 1>>
  BY <1>16, CountIs
<1>19. IsSeq(y) /\ Len(y) >= 1 /\ y[1] = T[1][1]
  <2>1. PICK t, n : t = T[1] /\ n = Count(2)
    OBVIOUS
  <2>2. Joined(t, n, y)
    BY <1>16, <1>17, <2>1, CountIs, Joins
  <2>3. Len(n) = 1 /\ Len(t) = HashLen
    BY <1>17, <2>1, CountIs
  <2>4. 1 \in 1..Len(t)
    BY <1>0, <2>3
  <2> QED BY <1>0, <2>1, <2>2, <2>3, <2>4 DEF Joined
<1>20. x[1] # y[1]
  <2>1. PICK s : T[1] = Digest(s)
    BY <1>17, Rfc2104Is
  <2>2. T[1][1] = <<"digest", s, 1>>
    <3>1. 1 \in 1..HashLen
      BY <1>0
    <3> QED BY <2>1, <3>1 DEF Digest
  <2>3. T[1][1][1] = "digest" /\ x[1][1] = "count"
    BY <1>18, <2>2
  <2> QED BY <1>19, <2>3
<1>21. ASSUME NEW i \in 1..HashLen, NEW j \in 1..HashLen PROVE a[i] # b[j]
  <2>1. Rfc2104(prk, x)[i] # Rfc2104(prk, y)[j]
    BY <1>4, <1>18, <1>19, <1>20, Rfc2104Apart
  <2> QED BY <1>15, <1>17, <2>1
<1> QED BY <1>7, <1>10, <1>14, <1>21 DEF AreKeys

-----------------------------------------------------------------------------
(* A key derivation *)

Derived ==
  /\ job \in Jobs
  /\ job.kind = "hkdf" =>
       /\ ctx.k_opad = <<>>
       /\ result # <<>> => result = Hkdf(job.size, Key, Text, <<>>)

LEMMA DerivedInit == HashInit => Derived
BY DEF HashInit, Derived

LEMMA DerivedStep == Derived /\ [HashNext]_hashVars => Derived'
<1> SUFFICES ASSUME Derived, [HashNext]_hashVars PROVE Derived'
  OBVIOUS
<1>1. CASE Start
  BY <1>1 DEF Start, Derived, Key, Text
<1>2. CASE Update
  BY <1>2 DEF Update, Started, Derived, Key, Text
<1>3. CASE Done
  BY <1>3 DEF Done, Started, Derived, Key, Text
<1>4. CASE Derive
  BY <1>4 DEF Derive, Derived, Key, Text
<1>5. CASE UNCHANGED hashVars
  BY <1>5 DEF hashVars, Derived, Key, Text
<1> QED BY <1>1, <1>2, <1>3, <1>4, <1>5 DEF HashNext

LEMMA DerivedIs == Derived => HkdfIsRfc5869
<1> SUFFICES ASSUME Derived, result # <<>>, job.kind = "hkdf" PROVE HkdfIsRfc5869
  BY DEF HkdfIsRfc5869
<1>1. job.key \in Nat /\ job.data \in Nat /\ job.size \in Nat \ {0}
  BY HashAssumption DEF Derived
<1>2. PICK salt, ikm : salt = Key /\ ikm = Text
  OBVIOUS
<1>3. Plain(salt) /\ IsSeq(ikm)
  BY <1>1, <1>2, KeyIs, BytesAre DEF Key, Text
<1>4. PICK L \in Nat \ {0} : L = job.size
  BY <1>1
<1>5. result = Rfc5869(salt, ikm, L)
  <2>1. result = Hkdf(L, salt, ikm, <<>>)
    BY <1>2, <1>4 DEF Derived
  <2> QED BY <1>3, <2>1, HkdfIs
<1>6. PICK two \in Nat \ {0} : two = 2 * HashLen
  BY HashLenIs
<1>7. PICK keys : keys = HkdfTwoKeys(salt, ikm)
  OBVIOUS
<1>8. AreKeys(keys, Rfc5869(salt, ikm, two))
  BY <1>3, <1>6, <1>7, TwoKeys
<1> QED BY <1>2, <1>4, <1>5, <1>6, <1>7, <1>8 DEF HkdfIsRfc5869, AreKeys, Key, Text

\* For keys, data and sizes of any lengths, hkdf_sha256 is RFC 5869, in its loop and
\* its last part; the two keys that hkdf_two_keys cuts from it have no byte in common.
THEOREM KeysAreRfc5869 == HashSpec => []HkdfIsRfc5869
<1> QED BY DerivedInit, DerivedStep, DerivedIs, PTL DEF HashSpec
=============================================================================
