---------------------------- MODULE BufferProofs -----------------------------
(***************************************************************************)
(* Theorems about cursors and what is kept and sent through them.  The     *)
(* backtrace of ErrorArena shows the errors that were noted, for any size  *)
(* of the arena and any texts; the encodings of Codec are read as they     *)
(* were written, for any items, buffers and cuts.                          *)
(***************************************************************************)
EXTENDS ErrorArena, Codec, DataProofs, FiniteSetTheorems

-----------------------------------------------------------------------------
(* Cursors *)

\* A cursor over n bytes.
CursorOK(c, n) ==
  /\ c = [mem |-> c.mem, p |-> c.p] /\ IsSeq(c.mem) /\ Len(c.mem) = n
  /\ n \in Nat /\ c.p \in 0..n

\* d is c after data was written where c was.
Wrote(c, data, d) ==
  /\ d.p = c.p + Len(data)
  /\ \A i \in 1..Len(c.mem) : i <= c.p \/ i > c.p + Len(data) => d.mem[i] = c.mem[i]
  /\ \A i \in 1..Len(data) : d.mem[c.p + i] = data[i]

LEMMA WriteIs ==
  ASSUME NEW n, NEW c, CursorOK(c, n), NEW data, IsSeq(data), c.p + Len(data) <= n
  PROVE  CursorOK(Write(c, data), n) /\ Wrote(c, data, Write(c, data))
<1>1. PICK m \in Nat : m = Len(data)
  BY DEF IsSeq
<1>2. n \in Nat /\ c.p \in 0..n /\ c.mem = [i \in 1..n |-> c.mem[i]] /\ c.p + m <= n
  BY <1>1 DEF CursorOK, IsSeq
<1>3. PICK p \in 0..n : p = c.p
  BY <1>2
<1>4. PICK mem : mem = c.mem
  OBVIOUS
<1>5. DOMAIN mem = 1..n /\ Len(mem) = n
  BY <1>2, <1>4 DEF CursorOK
<1>6. PICK d : d = Write(c, data)
  OBVIOUS
<1>7. d = [mem |-> [i \in 1..n |-> IF i \in p + 1 .. p + m THEN data[i - p] ELSE mem[i]],
           p |-> p + m]
  BY <1>1, <1>3, <1>4, <1>5, <1>6 DEF Write
<1>8. PICK new : new = [i \in 1..n |-> IF i \in p + 1 .. p + m THEN data[i - p] ELSE mem[i]]
  OBVIOUS
<1>9. d = [mem |-> new, p |-> p + m] /\ d.mem = new /\ d.p = p + m
  BY <1>7, <1>8
<1>10. IsSeq(new) /\ Len(new) = n
  BY <1>2, <1>8 DEF IsSeq
<1>11. p + m \in 0..n
  BY <1>2, <1>3
<1>12. CursorOK(d, n)
  BY <1>2, <1>9, <1>10, <1>11 DEF CursorOK
<1>13. \A i \in 1..n : i <= p \/ i > p + m => new[i] = mem[i]
  BY <1>2, <1>8
<1>14. ASSUME NEW i \in 1..m PROVE new[p + i] = data[i]
  <2>1. PICK j : j = p + i
    OBVIOUS
  <2>2. j \in 1..n /\ j \in p + 1 .. p + m /\ j - p = i
    BY <1>2, <1>3, <2>1
  <2>3. new[j] = data[j - p]
    BY <1>8, <2>2
  <2> QED BY <2>1, <2>2, <2>3
<1>15. Wrote(c, data, d)
  BY <1>1, <1>3, <1>4, <1>5, <1>9, <1>13, <1>14 DEF Wrote
<1> QED BY <1>6, <1>12, <1>15

\* A text with no zero in it, and the zero that ends it, written at c give d.
NotedAt(c, t, d) ==
  /\ d.p = c.p + Len(t) + 1
  /\ \A i \in 1..c.p : d.mem[i] = c.mem[i]
  /\ \A i \in 1..Len(t) : d.mem[c.p + i] = t[i]
  /\ d.mem[c.p + Len(t) + 1] = 0

LEMMA PushCStrIs ==
  ASSUME NEW n, NEW c, CursorOK(c, n), NEW t, IsSeq(t), NEW d, d = CursorPushCStr(c, t)
  PROVE  IF c.p + Len(t) < n
         THEN d.ok /\ CursorOK(d.c, n) /\ NotedAt(c, t, d.c)
         ELSE ~d.ok /\ d.c = c
<1>1. PICK m \in Nat : m = Len(t)
  BY DEF IsSeq
<1>2. n \in Nat /\ c.p \in 0..n /\ End(c) = n
  BY DEF CursorOK, End
<1>3. CASE ~(c.p + m < n)
  <2>1. CursorPush(c, t) = No(c)
    BY <1>1, <1>2, <1>3 DEF CursorPush
  <2>2. d = No(c)
    BY <2>1 DEF CursorPushCStr, No
  <2> QED BY <1>1, <1>3, <2>2 DEF No
<1>4. CASE c.p + m < n
  <2>1. PICK e : e = Write(c, t)
    OBVIOUS
  <2>2. CursorPush(c, t) = Yes(e)
    BY <1>1, <1>2, <1>4, <2>1 DEF CursorPush
  <2>3. d = CursorPushByte(e, 0)
    BY <2>2 DEF CursorPushCStr, Yes
  <2>4. CursorOK(e, n) /\ Wrote(c, t, e)
    BY <1>1, <1>2, <1>4, <2>1, WriteIs
  <2>5. e.p = c.p + m /\ End(e) = n /\ Len(c.mem) = n
    BY <1>1, <2>4 DEF Wrote, CursorOK, End
  <2>6. PICK z : z = <<0>>
    OBVIOUS
  <2>7. IsSeq(z) /\ Len(z) = 1 /\ z[1] = 0
    BY <2>6 DEF IsSeq
  <2>8. PICK f : f = Write(e, z)
    OBVIOUS
  <2>9. CursorOK(f, n) /\ Wrote(e, z, f)
    <3>1. e.p + Len(z) <= n
      BY <1>1, <1>2, <1>4, <2>5, <2>7
    <3> QED BY <2>4, <2>7, <2>8, <3>1, WriteIs
  <2>10. d = Yes(f)
    BY <1>2, <1>4, <2>3, <2>5, <2>6, <2>8 DEF CursorPushByte
  <2>11. d.ok /\ d.c = f
    BY <2>10 DEF Yes
  <2>12. f.p = c.p + m + 1
    BY <2>5, <2>7, <2>9 DEF Wrote
  <2>13. \A i \in 1..n : i <= c.p + m => f.mem[i] = e.mem[i]
    BY <2>4, <2>5, <2>9 DEF Wrote, CursorOK
  <2>14. f.mem[c.p + m + 1] = 0
    <3>1. f.mem[e.p + 1] = z[1]
      BY <2>7, <2>9 DEF Wrote
    <3> QED BY <2>5, <2>7, <3>1
  <2>15. \A i \in 1..c.p : f.mem[i] = c.mem[i]
    <3>1. \A i \in 1..c.p : i \in 1..n /\ i <= c.p + m
      BY <1>2
    <3>2. \A i \in 1..c.p : e.mem[i] = c.mem[i]
      BY <2>4, <2>5, <3>1 DEF Wrote
    <3> QED BY <2>13, <3>1, <3>2
  <2>16. \A i \in 1..m : f.mem[c.p + i] = t[i]
    <3>1. \A i \in 1..m : c.p + i \in 1..n /\ c.p + i <= c.p + m
      BY <1>2, <1>4
    <3>2. \A i \in 1..m : e.mem[c.p + i] = t[i]
      BY <1>1, <2>4 DEF Wrote
    <3> QED BY <2>13, <3>1, <3>2
  <2>17. NotedAt(c, t, f)
    BY <1>1, <2>12, <2>14, <2>15, <2>16 DEF NotedAt
  <2> QED BY <1>1, <1>4, <2>9, <2>11, <2>17
<1> QED BY <1>3, <1>4

\* The string that a pull finds: at c the bytes of t, none of them zero, and
\* then a zero.
Lies(c, t) ==
  /\ \A i \in 1..Len(t) : c.mem[c.p + i] = t[i] /\ t[i] # 0
  /\ c.mem[c.p + Len(t) + 1] = 0

LEMMA PullCStrIs ==
  ASSUME NEW n, NEW c, CursorOK(c, n), NEW t, IsSeq(t), c.p + Len(t) + 1 <= n, Lies(c, t)
  PROVE  CursorPullCStr(c) = Gives([mem |-> c.mem, p |-> c.p + Len(t) + 1], t)
<1>1. PICK m \in Nat : m = Len(t)
  BY DEF IsSeq
<1>2. n \in Nat /\ End(c) = n /\ IsSeq(c.mem) /\ Len(c.mem) = n
  BY DEF CursorOK, End
<1>3. PICK p \in 0..n : p = c.p
  BY DEF CursorOK
<1>4. PICK z : z = {i \in p + 1 .. n : c.mem[i] = 0}
  OBVIOUS
<1>5. PICK l : l = p + m + 1
  OBVIOUS
<1>6. l \in p + 1 .. n /\ l \in z
  <2>1. l \in p + 1 .. n
    BY <1>1, <1>2, <1>3, <1>5
  <2>2. c.mem[l] = 0
    BY <1>1, <1>3, <1>5 DEF Lies
  <2> QED BY <1>4, <2>1, <2>2
<1>7. ASSUME NEW j \in z PROVE l <= j
  <2>1. j \in p + 1 .. n /\ c.mem[j] = 0
    BY <1>4
  <2>2. CASE j < l
    <3>1. PICK i : i = j - p
      OBVIOUS
    <3>2. i \in 1..m /\ p + i = j
      <4>1. m \in Nat /\ p \in Nat /\ j \in Nat /\ p + 1 <= j
        BY <2>1
      <4>2. j < p + m + 1
        BY <1>5, <2>2
      <4> QED BY <3>1, <4>1, <4>2
    <3>3. c.mem[p + i] = t[i] /\ t[i] # 0
      BY <1>1, <1>3, <3>2 DEF Lies
    <3> QED BY <2>1, <3>2, <3>3
  <2> QED BY <1>2, <1>6, <2>1, <2>2
<1>8. l = CHOOSE i \in z : \A j \in z : i <= j
  <2>1. PICK k : k = CHOOSE i \in z : \A j \in z : i <= j
    OBVIOUS
  <2>2. k \in z /\ \A j \in z : k <= j
    BY <1>6, <1>7, <2>1
  <2>3. k <= l /\ l <= k /\ k \in p + 1 .. n
    BY <1>4, <1>6, <1>7, <2>2
  <2> QED BY <1>2, <1>6, <2>1, <2>3
<1>9. z # {}
  BY <1>6
<1>10. CursorPullCStr(c) = Gives(Moved(c, l - p), SubSeq(c.mem, p + 1, l - 1))
  BY <1>2, <1>3, <1>4, <1>8, <1>9 DEF CursorPullCStr
<1>11. Moved(c, l - p) = [mem |-> c.mem, p |-> p + m + 1]
  <2>1. c = [mem |-> c.mem, p |-> p]
    BY <1>3 DEF CursorOK
  <2>2. PICK mem : mem = c.mem
    OBVIOUS
  <2>3. [[mem |-> mem, p |-> p] EXCEPT !.p = @ + (l - p)] = [mem |-> mem, p |-> p + (l - p)]
    OBVIOUS
  <2>4. p + (l - p) = p + m + 1
    BY <1>1, <1>5
  <2> QED BY <2>1, <2>2, <2>3, <2>4 DEF Moved
<1>12. SubSeq(c.mem, p + 1, l - 1) = t
  <2>1. PICK hi : hi = l - 1
    OBVIOUS
  <2>2. hi = p + m /\ p + m <= Len(c.mem) /\ p \in Nat
    BY <1>1, <1>2, <1>5, <1>6, <2>1
  <2>3. PICK s : s = SubSeq(c.mem, p + 1, hi)
    OBVIOUS
  <2>4. IsPiece(s, c.mem, p, m)
    BY <1>1, <1>2, <2>2, <2>3, Piece
  <2>5. \A i \in 1..m : s[i] = t[i]
    BY <1>1, <1>3, <2>4 DEF IsPiece, Lies
  <2>6. s = t
    BY <1>1, <2>4, <2>5, SameSeq DEF IsPiece
  <2> QED BY <2>1, <2>3, <2>6
<1> QED BY <1>1, <1>3, <1>10, <1>11, <1>12

-----------------------------------------------------------------------------
(* Pull after pull *)

\* What a pull may give of the bytes of a cursor.
PullSet(mem) ==
  LET curs == [mem : {mem}, p : 0..Len(mem)]
  IN  {Yes(c) : c \in curs} \cup {Refuses(c) : c \in curs}
      \cup {Gives(c, SubSeq(mem, lo, hi)) : c \in curs, lo \in Nat, hi \in Nat}

LEMMA PullStays ==
  ASSUME NEW mem, IsSeq(mem), NEW x \in PullSet(mem)
  PROVE  CursorPullCStr(x.c) \in PullSet(mem)
<1>1. PICK n \in Nat : n = Len(mem)
  BY DEF IsSeq
<1>2. PICK curs : curs = [mem : {mem}, p : 0..n]
  OBVIOUS
<1>3. PullSet(mem) = {Yes(c) : c \in curs} \cup {Refuses(c) : c \in curs}
                     \cup {Gives(c, SubSeq(mem, lo, hi)) : c \in curs, lo \in Nat, hi \in Nat}
  BY <1>1, <1>2 DEF PullSet
<1>4. x.c \in curs
  <2>1. CASE x \in {Yes(c) : c \in curs}
    BY <2>1 DEF Yes
  <2>2. CASE x \in {Refuses(c) : c \in curs}
    BY <2>2 DEF Refuses
  <2>3. CASE x \in {Gives(c, SubSeq(mem, lo, hi)) : c \in curs, lo \in Nat, hi \in Nat}
    BY <2>3 DEF Gives
  <2> QED BY <1>3, <2>1, <2>2, <2>3
<1>5. PICK c : c = x.c
  OBVIOUS
<1>6. PICK p \in 0..n : c = [mem |-> mem, p |-> p]
  BY <1>2, <1>4, <1>5
<1>7. c.mem = mem /\ c.p = p /\ End(c) = n
  BY <1>1, <1>6 DEF End
<1>8. ASSUME NEW k \in 0..(n - p) PROVE Moved(c, k) \in curs
  <2>1. Moved(c, k) = [mem |-> mem, p |-> p + k]
    BY <1>6 DEF Moved
  <2>2. p + k \in 0..n
    OBVIOUS
  <2> QED BY <1>2, <2>1, <2>2
<1>9. PICK z : z = {i \in p + 1 .. n : mem[i] = 0}
  OBVIOUS
<1>10. CASE z = {}
  <2>1. CursorPullCStr(c) = Refuses(Moved(c, n - p))
    BY <1>7, <1>9, <1>10 DEF CursorPullCStr
  <2>2. n - p \in 0..(n - p)
    OBVIOUS
  <2> QED BY <1>3, <1>5, <1>8, <2>1, <2>2
<1>11. CASE z # {}
  <2>1. PICK f : f = CHOOSE i \in z : \A j \in z : i <= j
    OBVIOUS
  <2>2. z \in SUBSET Nat
    BY <1>9
  <2>3. f \in z
    <3>1. \E i \in z : \A j \in z : i <= j
      BY <1>11, <2>2, LeastExists
    <3> QED BY <2>1, <3>1
  <2>4. CursorPullCStr(c) = Gives(Moved(c, f - p), SubSeq(mem, p + 1, f - 1))
    BY <1>7, <1>9, <1>11, <2>1 DEF CursorPullCStr
  <2>5. f - p \in 0..(n - p) /\ p + 1 \in Nat /\ f - 1 \in Nat
    BY <1>9, <2>3
  <2> QED BY <1>3, <1>5, <1>8, <2>4, <2>5
<1> QED BY <1>10, <1>11

LEMMA PullsAre ==
  ASSUME NEW n, NEW cur, CursorOK(cur, n)
  PROVE  /\ Pulls(cur)[0] = Yes(ResetCursor(cur))
         /\ \A k \in 1..n : Pulls(cur)[k] = CursorPullCStr(Pulls(cur)[k - 1].c)
<1> DEFINE V == PullSet(cur.mem)
           step == [u \in (1..n) \X V |-> CursorPullCStr(u[2].c)]
           Is(f) == f = [k \in 0..n |-> IF k = 0 THEN Yes(ResetCursor(cur))
                                        ELSE CursorPullCStr(f[k - 1].c)]
<1>1. n \in Nat /\ End(cur) = n /\ IsSeq(cur.mem) /\ Len(cur.mem) = n
  BY DEF CursorOK, End
<1>2. PICK base : base = Yes(ResetCursor(cur))
  OBVIOUS
<1>3. base \in V
  <2>1. ResetCursor(cur) = [mem |-> cur.mem, p |-> 0]
    BY DEF CursorOK, ResetCursor
  <2>2. [mem |-> cur.mem, p |-> 0] \in [mem : {cur.mem}, p : 0..Len(cur.mem)]
    BY <1>1
  <2> QED BY <1>2, <2>1, <2>2 DEF PullSet
<1>4. \A i \in 1..n : \A v \in V : step[<<i, v>>] = CursorPullCStr(v.c) /\ step[<<i, v>>] \in V
  <2> TAKE i \in 1..n
  <2> TAKE v \in V
  <2>1. step[<<i, v>>] = CursorPullCStr(v.c)
    OBVIOUS
  <2>2. CursorPullCStr(v.c) \in V
    BY <1>1, PullStays
  <2> QED BY <2>1, <2>2
<1> HIDE DEF step, V
<1>5. Closed(step, n, V)
  BY <1>4 DEF Closed
<1>6. PICK f : Follows(f, step, n, V, base)
  BY <1>1, <1>3, <1>5, Recursion
<1>7. f \in [0..n -> V] /\ f[0] = base /\ \A i \in 1..n : f[i] = step[<<i, f[i - 1]>>]
  BY <1>6 DEF Follows
<1>8. \A i \in 1..n : f[i] = CursorPullCStr(f[i - 1].c)
  <2> TAKE i \in 1..n
  <2>1. i - 1 \in 0..n
    BY <1>1
  <2>2. f[i - 1] \in V
    BY <1>7, <2>1
  <2> QED BY <1>4, <1>7, <2>2
<1>9. \A i \in 0..n : f[i] = IF i = 0 THEN Yes(ResetCursor(cur)) ELSE CursorPullCStr(f[i - 1].c)
  <2>1. \A i \in 0..n : i = 0 \/ i \in 1..n
    BY <1>1
  <2> QED BY <1>2, <1>7, <1>8, <2>1
<1>10. Is(f)
  BY <1>7, <1>9
<1>11. Pulls(cur) = CHOOSE g : Is(g)
  BY <1>1 DEF Pulls
<1>12. Is(Pulls(cur))
  <2> HIDE DEF Is
  <2> QED BY <1>10, <1>11
<1>13. PICK g : g = Pulls(cur)
  OBVIOUS
<1>14. \A k \in 0..n : g[k] = IF k = 0 THEN Yes(ResetCursor(cur)) ELSE CursorPullCStr(g[k - 1].c)
  BY <1>12, <1>13, Zenon
<1>15. 0 \in 0..n /\ \A k \in 1..n : k \in 0..n /\ k # 0
  BY <1>1
<1> QED BY <1>13, <1>14, <1>15, Zenon

-----------------------------------------------------------------------------
(* Which texts fit *)

TellSet == [lines : Seq(ErrorText), bytes : Nat]
TellFirst == [lines |-> <<>>, bytes |-> 0]
Tell(v, t) ==
  IF v.bytes + Len(t) < ErrorMem
  THEN [lines |-> Append(v.lines, t), bytes |-> v.bytes + Len(t) + 1]
  ELSE v

\* f is Told's way through the texts.
Tells(f, texts) ==
  /\ f \in [0..Len(texts) -> TellSet] /\ f[0] = TellFirst
  /\ \A i \in 1..Len(texts) : f[i] = Tell(f[i - 1], texts[i])

LEMMA TextIs ==
  ASSUME NEW t \in ErrorText
  PROVE  IsSeq(t) /\ Len(t) \in Nat /\ Len(t) < ErrorMem /\ \A i \in 1..Len(t) : t[i] # 0
<1>1. t \in Seq(1..255) /\ Len(t) < ErrorMem
  BY ErrorAssumption
<1>a. PICK S : t \in Seq(S)
  BY <1>1
<1>2. IsSeq(t) /\ Len(t) \in Nat
  BY <1>a, IsSeqOf, LenProperties
<1>3. \A i \in 1..Len(t) : t[i] \in 1..255
  BY <1>1, ElementOfSeq
<1>b. \A x \in 1..255 : x # 0
  OBVIOUS
<1>4. \A i \in 1..Len(t) : t[i] # 0
  BY <1>3, <1>b, Zenon
<1>5. Len(t) < ErrorMem
  BY <1>1
<1> QED BY <1>2, <1>4, <1>5

LEMMA TellStays ==
  ASSUME NEW v \in TellSet, NEW t \in ErrorText
  PROVE  Tell(v, t) \in TellSet
<1>1. Len(t) \in Nat /\ v.bytes \in Nat /\ v.lines \in Seq(ErrorText)
  BY TextIs DEF TellSet
<1>2. PICK lines : lines = Append(v.lines, t)
  OBVIOUS
<1>3. lines \in Seq(ErrorText)
  BY <1>1, <1>2, AppendProperties
<1>4. v.bytes + Len(t) + 1 \in Nat
  BY <1>1
<1>5. Tell(v, t) = IF v.bytes + Len(t) < ErrorMem
                   THEN [lines |-> lines, bytes |-> v.bytes + Len(t) + 1] ELSE v
  BY <1>2 DEF Tell
<1> QED BY <1>3, <1>4, <1>5 DEF TellSet

LEMMA ToldIs ==
  ASSUME NEW texts \in Seq(ErrorText)
  PROVE  \E f : Tells(f, texts) /\ Told(texts) = f[Len(texts)]
<1> DEFINE step == [u \in (1..Len(texts)) \X TellSet |-> Tell(u[2], texts[u[1]])]
           Is(f) == f = [k \in 0..Len(texts) |->
                           IF k = 0 THEN [lines |-> <<>>, bytes |-> 0]
                           ELSE IF f[k - 1].bytes + Len(texts[k]) < ErrorMem
                           THEN [lines |-> Append(f[k - 1].lines, texts[k]),
                                 bytes |-> f[k - 1].bytes + Len(texts[k]) + 1]
                           ELSE f[k - 1]]
<1>1. PICK n \in Nat : n = Len(texts)
  BY LenProperties
<1>2. TellFirst \in TellSet
  <2>1. PICK e : e = <<>>
    OBVIOUS
  <2>2. e \in Seq(ErrorText)
    BY <2>1
  <2> QED BY <2>1, <2>2 DEF TellFirst, TellSet
<1>3. \A i \in 1..n : texts[i] \in ErrorText
  BY <1>1, ElementOfSeq
<1>4. \A i \in 1..n : \A v \in TellSet :
        step[<<i, v>>] = Tell(v, texts[i]) /\ step[<<i, v>>] \in TellSet
  <2> TAKE i \in 1..n
  <2> TAKE v \in TellSet
  <2>1. step[<<i, v>>] = Tell(v, texts[i])
    BY <1>1
  <2> QED BY <1>3, <2>1, TellStays
<1> HIDE DEF step
<1>5. Closed(step, n, TellSet)
  BY <1>4 DEF Closed
<1>6. PICK base : base = TellFirst
  OBVIOUS
<1>7. PICK f : Follows(f, step, n, TellSet, base)
  BY <1>1, <1>2, <1>5, <1>6, Recursion
<1>8. f \in [0..n -> TellSet] /\ f[0] = base /\ \A i \in 1..n : f[i] = step[<<i, f[i - 1]>>]
  BY <1>7 DEF Follows
<1>9. \A i \in 1..n : f[i] = Tell(f[i - 1], texts[i])
  <2> TAKE i \in 1..n
  <2>1. i - 1 \in 0..n
    BY <1>1
  <2> QED BY <1>4, <1>8, <2>1
<1>10. \A i \in 0..n : f[i] = IF i = 0 THEN TellFirst ELSE Tell(f[i - 1], texts[i])
  <2>1. \A i \in 0..n : i = 0 \/ i \in 1..n
    BY <1>1
  <2> QED BY <1>6, <1>8, <1>9, <2>1
<1>11. f = [i \in 0..n |-> IF i = 0 THEN TellFirst ELSE Tell(f[i - 1], texts[i])]
  BY <1>8, <1>10
<1>12. Is(f)
  BY <1>1, <1>11, Zenon DEF TellFirst, Tell
<1>13. Told(texts) = (CHOOSE g : Is(g))[Len(texts)]
  BY Zenon DEF Told
<1>14. PICK g : g = CHOOSE h : Is(h)
  OBVIOUS
<1>15. Is(g)
  <2> HIDE DEF Is
  <2> QED BY <1>12, <1>14
<1>16. g = [i \in 0..n |-> IF i = 0 THEN TellFirst ELSE Tell(g[i - 1], texts[i])]
  BY <1>1, <1>15, Zenon DEF TellFirst, Tell
<1>17. \A i \in 0..n : g[i] = IF i = 0 THEN TellFirst ELSE Tell(g[i - 1], texts[i])
  BY <1>16, Zenon
<1>18. g[0] = TellFirst /\ \A i \in 1..n : g[i] = Tell(g[i - 1], texts[i])
  <2>1. 0 \in 0..n /\ \A i \in 1..n : i \in 0..n /\ i # 0
    BY <1>1
  <2> QED BY <1>17, <2>1, Zenon
<1>19. \A i \in 0..n : g[i] \in TellSet
  <2> DEFINE I == {i \in 0..n : g[i] \in TellSet}
  <2>1. 0 \in I
    BY <1>1, <1>2, <1>18
  <2>2. ASSUME NEW i \in 0..(n - 1), i \in I PROVE i + 1 \in I
    <3>1. i + 1 \in 1..n /\ i + 1 \in 0..n /\ (i + 1) - 1 = i
      BY <1>1
    <3>2. g[i + 1] = Tell(g[i], texts[i + 1]) /\ texts[i + 1] \in ErrorText
      BY <1>3, <1>18, <3>1
    <3> QED BY <2>2, <3>1, <3>2, TellStays
  <2> HIDE DEF I
  <2>3. \A i \in 0..n : i \in I
    BY <1>1, <2>1, <2>2, Induct
  <2> QED BY <2>3 DEF I
<1>20. g \in [0..n -> TellSet]
  <2>1. g = [i \in 0..n |-> g[i]]
    BY <1>16
  <2> QED BY <1>19, <2>1
<1>21. Tells(g, texts)
  BY <1>1, <1>18, <1>20 DEF Tells
<1> QED BY <1>13, <1>14, <1>21

\* Told, step by step.
LEMMA ToldEmpty == ASSUME NEW e, e = <<>> PROVE Told(e) = TellFirst
<1>1. e \in Seq(ErrorText) /\ Len(e) = 0
  OBVIOUS
<1>2. PICK f : Tells(f, e) /\ Told(e) = f[Len(e)]
  BY <1>1, ToldIs
<1> QED BY <1>1, <1>2 DEF Tells

LEMMA ToldAppend ==
  ASSUME NEW texts \in Seq(ErrorText), NEW t \in ErrorText
  PROVE  Told(texts) \in TellSet /\ Told(Append(texts, t)) = Tell(Told(texts), t)
<1>1. PICK more : more = Append(texts, t)
  OBVIOUS
<1>2. PICK n \in Nat : n = Len(texts)
  BY LenProperties
<1>3. more \in Seq(ErrorText) /\ Len(more) = n + 1 /\ more[n + 1] = t
      /\ \A i \in 1..n : more[i] = texts[i]
  BY <1>1, <1>2, AppendProperties
<1>4. PICK f : Tells(f, texts) /\ Told(texts) = f[n]
  BY <1>2, ToldIs
<1>5. PICK g : Tells(g, more) /\ Told(more) = g[n + 1]
  BY <1>3, ToldIs
<1>6. f \in [0..n -> TellSet] /\ f[0] = TellFirst /\ \A i \in 1..n : f[i] = Tell(f[i - 1], texts[i])
  BY <1>2, <1>4 DEF Tells
<1>7. g[0] = TellFirst /\ \A i \in 1..(n + 1) : g[i] = Tell(g[i - 1], more[i])
  BY <1>3, <1>5 DEF Tells
<1> DEFINE I == {i \in 0..n : f[i] = g[i]}
<1>8. 0 \in I
  BY <1>6, <1>7
<1>9. ASSUME NEW i \in 0..(n - 1), i \in I PROVE i + 1 \in I
  <2>1. i + 1 \in 1..n /\ i + 1 \in 1..(n + 1) /\ i + 1 \in 0..n /\ (i + 1) - 1 = i
    OBVIOUS
  <2>2. f[i + 1] = Tell(f[i], texts[i + 1]) /\ g[i + 1] = Tell(g[i], more[i + 1])
    BY <1>6, <1>7, <2>1
  <2>3. more[i + 1] = texts[i + 1] /\ f[i] = g[i]
    BY <1>3, <1>9, <2>1
  <2> QED BY <2>1, <2>2, <2>3
<1> HIDE DEF I
<1>10. \A i \in 0..n : i \in I
  BY <1>8, <1>9, Induct
<1>11. f[n] = g[n] /\ f[n] \in TellSet
  <2>1. n \in 0..n
    OBVIOUS
  <2> QED BY <1>6, <1>10, <2>1 DEF I
<1>12. g[n + 1] = Tell(g[n], t)
  <2>1. n + 1 \in 1..(n + 1) /\ (n + 1) - 1 = n
    OBVIOUS
  <2> QED BY <1>3, <1>7, <2>1
<1> QED BY <1>1, <1>4, <1>5, <1>11, <1>12

-----------------------------------------------------------------------------
(* The arena *)

\* The arena holds the lines, each with its zero behind it, up to where the
\* cursor is; e[k] is where the k-th ends.
LaidAt(c, lines, e) ==
  /\ e \in [0..Len(lines) -> 0..c.p] /\ e[0] = 0 /\ e[Len(lines)] = c.p
  /\ \A k \in 1..Len(lines) :
       /\ e[k] = e[k - 1] + Len(lines[k]) + 1
       /\ Lies([mem |-> c.mem, p |-> e[k - 1]], lines[k])
Laid(c, lines) == \E e : LaidAt(c, lines, e)

\* What holds of the arena all the time.
Keeps(c, texts) ==
  /\ texts \in Seq(ErrorText) /\ CursorOK(c, ErrorMem)
  /\ Told(texts) \in TellSet /\ Told(texts).bytes = c.p
  /\ Laid(c, Told(texts).lines)
ErrorInv == Keeps(errs, noted)

LEMMA LaidNothing ==
  ASSUME NEW c, c.p = 0, NEW e, e = <<>>
  PROVE  Laid(c, e)
<1>1. PICK f : f = [k \in 0..0 |-> 0]
  OBVIOUS
<1>2. Len(e) = 0
  OBVIOUS
<1>3. f \in [0..0 -> 0..0] /\ f[0] = 0
  BY <1>1
<1>4. LaidAt(c, e, f)
  BY <1>2, <1>3 DEF LaidAt
<1> QED BY <1>4 DEF Laid

\* One text more.
LEMMA LaidMore ==
  ASSUME NEW n, NEW c, CursorOK(c, n), NEW d, CursorOK(d, n), NEW lines \in Seq(ErrorText),
         Laid(c, lines), NEW t \in ErrorText, NotedAt(c, t, d)
  PROVE  Laid(d, Append(lines, t))
<1>1. PICK N \in Nat : N = Len(lines)
  BY LenProperties
<1>2. PICK e : LaidAt(c, lines, e)
  BY DEF Laid
<1>3. PICK more : more = Append(lines, t)
  OBVIOUS
<1>4. Len(more) = N + 1 /\ more[N + 1] = t /\ \A i \in 1..N : more[i] = lines[i]
  BY <1>1, <1>3, AppendProperties
<1>5. c.p \in Nat /\ d.p \in Nat
  BY DEF CursorOK
<1>6. IsSeq(t) /\ Len(t) \in Nat /\ \A i \in 1..Len(t) : t[i] # 0
  BY TextIs
<1>7. /\ e \in [0..N -> 0..c.p] /\ e[0] = 0 /\ e[N] = c.p
      /\ \A k \in 1..N : /\ e[k] = e[k - 1] + Len(lines[k]) + 1
                         /\ Lies([mem |-> c.mem, p |-> e[k - 1]], lines[k])
  BY <1>1, <1>2 DEF LaidAt
<1>8. PICK f : f = [k \in 0..(N + 1) |-> IF k = N + 1 THEN d.p ELSE e[k]]
  OBVIOUS
<1>9. f[N + 1] = d.p /\ \A k \in 0..N : f[k] = e[k]
  BY <1>8
<1>10. d.p = c.p + Len(t) + 1 /\ \A i \in 1..c.p : d.mem[i] = c.mem[i]
  BY DEF NotedAt
<1>11. f \in [0..(N + 1) -> 0..d.p]
  <2>1. \A k \in 0..(N + 1) : f[k] \in 0..d.p
    <3> TAKE k \in 0..(N + 1)
    <3>1. CASE k = N + 1
      BY <1>5, <1>9, <3>1
    <3>2. CASE k # N + 1
      <4>1. k \in 0..N
        BY <3>2
      <4>2. f[k] \in 0..c.p
        BY <1>7, <1>9, <4>1
      <4> QED BY <1>5, <1>6, <1>10, <4>2
    <3> QED BY <3>1, <3>2
  <2>2. f = [k \in 0..(N + 1) |-> f[k]]
    BY <1>8
  <2> QED BY <2>1, <2>2
<1>12. ASSUME NEW k \in 1..(N + 1)
       PROVE  /\ f[k] = f[k - 1] + Len(more[k]) + 1
              /\ Lies([mem |-> d.mem, p |-> f[k - 1]], more[k])
  <2>1. CASE k = N + 1
    <3>1. more[k] = t /\ f[k] = d.p /\ k - 1 = N /\ f[k - 1] = c.p
      BY <1>4, <1>7, <1>9, <2>1
    <3>2. PICK h : h = [mem |-> d.mem, p |-> c.p]
      OBVIOUS
    <3>3. h.mem = d.mem /\ h.p = c.p
      BY <3>2
    <3>4. Lies(h, t)
      BY <1>6, <3>3 DEF NotedAt, Lies
    <3> QED BY <1>10, <3>1, <3>2, <3>4
  <2>2. CASE k # N + 1
    <3>1. k \in 1..N /\ k \in 0..N /\ k - 1 \in 0..N
      BY <2>2
    <3>2. f[k] = e[k] /\ f[k - 1] = e[k - 1] /\ more[k] = lines[k]
      BY <1>4, <1>9, <3>1
    <3>3. PICK g : g = [mem |-> c.mem, p |-> e[k - 1]]
      OBVIOUS
    <3>4. PICK h : h = [mem |-> d.mem, p |-> e[k - 1]]
      OBVIOUS
    <3>5. PICK s : s = lines[k]
      OBVIOUS
    <3>6. PICK q \in Nat : q = e[k - 1]
      BY <1>7, <3>1
    <3>7. q + Len(s) + 1 \in 0..c.p /\ Lies(g, s) /\ Len(s) \in Nat
      <4>1. e[k] = q + Len(s) + 1 /\ e[k] \in 0..c.p
        BY <1>7, <3>1, <3>5, <3>6
      <4>2. s \in ErrorText
        BY <1>1, <3>1, <3>5, ElementOfSeq
      <4> QED BY <1>7, <3>1, <3>3, <3>5, <4>1, <4>2, TextIs
    <3>8. g.mem = c.mem /\ g.p = q /\ h.mem = d.mem /\ h.p = q
      BY <3>3, <3>4, <3>6
    <3>9. \A i \in 1..(Len(s) + 1) : h.mem[q + i] = g.mem[q + i]
      <4> TAKE i \in 1..(Len(s) + 1)
      <4>1. q + i \in 1..c.p
        BY <1>5, <3>7
      <4> QED BY <1>10, <3>8, <4>1
    <3>10. \A i \in 1..Len(s) : g.mem[q + i] = s[i] /\ s[i] # 0
      BY <3>7, <3>8 DEF Lies
    <3>11. g.mem[q + (Len(s) + 1)] = 0
      <4>1. g.mem[q + Len(s) + 1] = 0 /\ q + (Len(s) + 1) = q + Len(s) + 1
        BY <3>7, <3>8 DEF Lies
      <4> QED BY <4>1
    <3>12. \A i \in 1..Len(s) : h.mem[q + i] = s[i] /\ s[i] # 0
      <4>1. \A i \in 1..Len(s) : i \in 1..(Len(s) + 1)
        BY <3>7
      <4> QED BY <3>9, <3>10, <4>1
    <3>13. h.mem[q + Len(s) + 1] = 0
      <4>1. Len(s) + 1 \in 1..(Len(s) + 1) /\ q + (Len(s) + 1) = q + Len(s) + 1
        BY <3>7
      <4>2. h.mem[q + (Len(s) + 1)] = g.mem[q + (Len(s) + 1)]
        BY <3>9, <4>1
      <4> QED BY <3>11, <4>1, <4>2
    <3>14. Lies(h, s)
      BY <3>8, <3>12, <3>13 DEF Lies
    <3> QED BY <1>7, <3>1, <3>2, <3>4, <3>5, <3>14
  <2> QED BY <2>1, <2>2
<1>13. f[0] = 0
  BY <1>7, <1>9
<1>14. LaidAt(d, more, f)
  BY <1>4, <1>9, <1>11, <1>12, <1>13 DEF LaidAt
<1> QED BY <1>3, <1>14 DEF Laid

-----------------------------------------------------------------------------
(* The backtrace of an arena *)

\* The k-th pull of an arena gives its k-th line.
LEMMA PullsLines ==
  ASSUME NEW n, NEW c, CursorOK(c, n), NEW lines \in Seq(ErrorText),
         NEW e, LaidAt(c, lines, e)
  PROVE  \A k \in 0..Len(lines) :
           /\ k <= e[k] /\ Pulls(c)[k].ok
           /\ Pulls(c)[k].c = [mem |-> c.mem, p |-> e[k]]
           /\ k > 0 => Pulls(c)[k].v = lines[k]
<1>1. PICK N \in Nat : N = Len(lines)
  BY LenProperties
<1>2. PICK pull : pull = Pulls(c)
  OBVIOUS
<1>3. /\ pull[0] = Yes(ResetCursor(c))
      /\ \A k \in 1..n : pull[k] = CursorPullCStr(pull[k - 1].c)
  BY <1>2, PullsAre
<1>4. n \in Nat /\ c.p \in 0..n /\ IsSeq(c.mem) /\ Len(c.mem) = n
  BY DEF CursorOK
<1>5. /\ e \in [0..N -> 0..c.p] /\ e[0] = 0 /\ e[N] = c.p
      /\ \A k \in 1..N : /\ e[k] = e[k - 1] + Len(lines[k]) + 1
                         /\ Lies([mem |-> c.mem, p |-> e[k - 1]], lines[k])
  BY <1>1 DEF LaidAt
<1> DEFINE Good(k) == /\ k <= e[k] /\ pull[k].ok
                      /\ pull[k].c = [mem |-> c.mem, p |-> e[k]]
                      /\ k > 0 => pull[k].v = lines[k]
           I == {k \in 0..N : Good(k)}
<1>6. 0 \in I
  <2>1. ResetCursor(c) = [mem |-> c.mem, p |-> 0]
    BY DEF CursorOK, ResetCursor
  <2>2. pull[0].ok /\ pull[0].c = [mem |-> c.mem, p |-> 0]
    BY <1>3, <2>1 DEF Yes
  <2> QED BY <1>5, <2>2
<1>7. ASSUME NEW i \in 0..(N - 1), i \in I PROVE i + 1 \in I
  <2>1. PICK k : k = i + 1
    OBVIOUS
  <2>2. k \in 1..N /\ k \in 0..N /\ i \in 0..N /\ k - 1 = i
    BY <2>1
  <2>3. i <= e[i] /\ pull[i].c = [mem |-> c.mem, p |-> e[i]]
    BY <1>7
  <2>4. PICK q \in 0..n : q = e[i]
    <3>1. e[i] \in 0..c.p
      BY <1>5, <2>2
    <3> QED BY <1>4, <3>1
  <2>5. PICK s : s = lines[k]
    OBVIOUS
  <2>6. PICK m \in Nat : m = Len(s)
    <3>1. s \in ErrorText
      BY <1>1, <2>2, <2>5, ElementOfSeq
    <3> QED BY <3>1, TextIs
  <2>7. IsSeq(s)
    <3>1. s \in ErrorText
      BY <1>1, <2>2, <2>5, ElementOfSeq
    <3> QED BY <3>1, TextIs
  <2>8. PICK g : g = [mem |-> c.mem, p |-> q]
    OBVIOUS
  <2>9. e[k] = q + m + 1 /\ Lies(g, s) /\ e[k] \in 0..c.p
    BY <1>5, <2>2, <2>4, <2>5, <2>6, <2>8
  <2>10. g.mem = c.mem /\ g.p = q /\ CursorOK(g, n)
    BY <1>4, <2>8 DEF CursorOK
  <2>11. q + m + 1 <= n
    BY <1>4, <2>9
  <2>12. CursorPullCStr(g) = Gives([mem |-> c.mem, p |-> q + m + 1], s)
    BY <2>6, <2>7, <2>9, <2>10, <2>11, PullCStrIs
  <2>13. k <= e[k]
    BY <2>1, <2>3, <2>4, <2>9
  <2>14. k \in 1..n
    BY <1>4, <2>2, <2>9, <2>13
  <2>15. pull[k] = CursorPullCStr(g)
    BY <1>3, <2>2, <2>3, <2>4, <2>8, <2>14
  <2>16. pull[k].ok /\ pull[k].c = [mem |-> c.mem, p |-> e[k]] /\ pull[k].v = lines[k]
    BY <2>5, <2>9, <2>12, <2>15 DEF Gives
  <2> QED BY <2>1, <2>2, <2>13, <2>16
<1> HIDE DEF I
<1>8. \A k \in 0..N : k \in I
  BY <1>6, <1>7, Induct
<1> QED BY <1>1, <1>2, <1>8 DEF I

\* An arena with the lines laid out in it has a backtrace of those lines.
LEMMA TellsAll ==
  ASSUME NEW n, CursorOK(errs, n), NEW lines \in Seq(ErrorText), Laid(errs, lines)
  PROVE  Backtrace.ok /\ Backtrace.lines = lines
<1>1. PICK N \in Nat : N = Len(lines)
  BY LenProperties
<1>2. PICK e : LaidAt(errs, lines, e)
  BY DEF Laid
<1>3. PICK pull : pull = Pulls(errs)
  OBVIOUS
<1>4. PICK p \in 0..n : p = errs.p
  BY DEF CursorOK
<1>5. n \in Nat /\ End(errs) = n
  BY DEF CursorOK, End
<1>6. ASSUME NEW k \in 0..N
      PROVE  k <= e[k] /\ pull[k].ok /\ pull[k].c.p = e[k] /\ (k > 0 => pull[k].v = lines[k])
  <2>1. PICK c : c = errs
    OBVIOUS
  <2>2. CursorOK(c, n) /\ LaidAt(c, lines, e) /\ pull = Pulls(c) /\ k \in 0..Len(lines)
    BY <1>1, <1>2, <1>3, <2>1
  <2>3. /\ k <= e[k] /\ Pulls(c)[k].ok /\ Pulls(c)[k].c = [mem |-> c.mem, p |-> e[k]]
        /\ k > 0 => Pulls(c)[k].v = lines[k]
    BY <2>2, PullsLines
  <2> QED BY <2>2, <2>3
<1>7. ASSUME NEW k \in 0..N PROVE e[k] \in 0..p /\ (e[k] < p <=> k < N)
  <2>1. e \in [0..N -> 0..p] /\ e[N] = p
    BY <1>1, <1>2, <1>4 DEF LaidAt
  <2>2. e[k] \in 0..p
    BY <2>1
  <2>3. CASE k < N
    <3>1. PICK j : j = k + 1
      OBVIOUS
    <3>2. j \in 1..N /\ j \in 0..N /\ j - 1 = k
      BY <2>3, <3>1
    <3>3. e[j] = e[k] + Len(lines[j]) + 1
      BY <1>1, <1>2, <3>2 DEF LaidAt
    <3>4. Len(lines[j]) \in Nat
      <4>1. lines[j] \in ErrorText
        BY <1>1, <3>2, ElementOfSeq
      <4> QED BY <4>1, TextIs
    <3>5. e[j] \in 0..p
      BY <2>1, <3>2
    <3> QED BY <2>2, <2>3, <3>3, <3>4, <3>5
  <2>4. CASE ~(k < N)
    <3>1. k = N
      BY <2>4
    <3> QED BY <2>1, <2>2, <3>1
  <2> QED BY <2>3, <2>4
<1>8. N <= n
  <2>1. N \in 0..N
    OBVIOUS
  <2>2. N <= e[N] /\ e[N] \in 0..p
    BY <1>6, <1>7, <2>1
  <2> QED BY <1>4, <1>5, <2>2
<1>9. PICK rounds : rounds = {k \in 1..n : \A i \in 0..(k - 1) : pull[i].ok /\ pull[i].c.p < p}
  OBVIOUS
<1>10. rounds = 1..N
  <2>1. ASSUME NEW k \in 1..N PROVE k \in rounds
    <3>1. k \in 1..n
      BY <1>5, <1>8
    <3>2. ASSUME NEW i \in 0..(k - 1) PROVE pull[i].ok /\ pull[i].c.p < p
      <4>1. i \in 0..N /\ i < N
        OBVIOUS
      <4>2. pull[i].ok /\ pull[i].c.p = e[i]
        BY <1>6, <4>1
      <4>3. e[i] < p
        BY <1>7, <4>1
      <4> QED BY <4>2, <4>3
    <3> QED BY <1>9, <3>1, <3>2
  <2>2. ASSUME NEW k \in rounds PROVE k \in 1..N
    <3>1. k \in 1..n /\ \A i \in 0..(k - 1) : pull[i].c.p < p
      BY <1>9
    <3>2. CASE k > N
      <4>1. N \in 0..(k - 1) /\ N \in 0..N
        BY <3>1, <3>2
      <4>2. pull[N].c.p < p /\ pull[N].c.p = e[N]
        BY <1>6, <3>1, <4>1
      <4>3. ~(e[N] < p)
        BY <1>7, <4>1
      <4> QED BY <4>2, <4>3
    <3> QED BY <3>1, <3>2
  <2> QED BY <2>1, <2>2
<1>11. PICK shown : shown = {k \in rounds : pull[k].ok}
  OBVIOUS
<1>12. shown = rounds
  <2>1. \A k \in 1..N : pull[k].ok
    <3> TAKE k \in 1..N
    <3>1. k \in 0..N
      OBVIOUS
    <3> QED BY <1>6, <3>1
  <2> QED BY <1>10, <1>11, <2>1
<1>13. Cardinality(shown) = N
  <2>1. Cardinality(1..N) = IF 1 > N THEN 0 ELSE N - 1 + 1
    BY FS_Interval
  <2>2. (IF 1 > N THEN 0 ELSE N - 1 + 1) = N
    OBVIOUS
  <2> QED BY <1>10, <1>12, <2>1, <2>2
<1>14. PICK b : b = Backtrace
  OBVIOUS
<1>15. b = [lines |-> [k \in 1..Cardinality(shown) |-> pull[k].v], ok |-> shown = rounds]
  BY <1>3, <1>4, <1>5, <1>9, <1>11, <1>14, Zenon DEF Backtrace
<1>16. b.lines = [k \in 1..N |-> pull[k].v] /\ (b.ok <=> shown = rounds)
  BY <1>13, <1>15
<1>17. b.lines = lines
  <2>1. \A k \in 1..N : pull[k].v = lines[k]
    <3> TAKE k \in 1..N
    <3>1. k \in 0..N /\ k > 0
      OBVIOUS
    <3> QED BY <1>6, <3>1
  <2>2. b.lines = [k \in 1..N |-> lines[k]]
    BY <1>16, <2>1
  <2>3. IsSeq(lines)
    BY IsSeqOf
  <2> QED BY <1>1, <2>2, <2>3 DEF IsSeq
<1> QED BY <1>12, <1>14, <1>16, <1>17

-----------------------------------------------------------------------------
(* What every call keeps *)

LEMMA ErrorInvTells == ErrorInv => BacktraceTells
<1> SUFFICES ASSUME ErrorInv PROVE BacktraceTells
  OBVIOUS
<1>1. PICK lines : lines = Told(noted).lines
  OBVIOUS
<1>2. lines \in Seq(ErrorText) /\ CursorOK(errs, ErrorMem) /\ Laid(errs, lines)
  BY <1>1 DEF ErrorInv, Keeps, TellSet
<1>3. Backtrace.ok /\ Backtrace.lines = lines
  BY <1>2, TellsAll
<1> QED BY <1>1, <1>3 DEF BacktraceTells

\* A cursor at the start of its buffer, and nothing told.
LEMMA EmptyArena ==
  ASSUME NEW c, CursorOK(c, ErrorMem), c.p = 0, NEW texts, texts = <<>>
  PROVE  Keeps(c, texts)
<1>1. Told(texts) = TellFirst
  BY ToldEmpty
<1>2. PICK e : e = <<>>
  OBVIOUS
<1>3. e \in Seq(ErrorText)
  BY <1>2
<1>4. TellFirst \in TellSet /\ TellFirst.lines = e /\ TellFirst.bytes = 0
  BY <1>2, <1>3 DEF TellFirst, TellSet
<1>5. Laid(c, e)
  BY <1>2, LaidNothing
<1> QED BY <1>1, <1>2, <1>3, <1>4, <1>5 DEF Keeps

\* A text noted, whether or not there is room for it.
LEMMA OneMore ==
  ASSUME NEW c, NEW texts, Keeps(c, texts), NEW t \in ErrorText,
         NEW d, d = NoteError(c, t).c, NEW more, more = Append(texts, t)
  PROVE  Keeps(d, more)
<1>0. /\ texts \in Seq(ErrorText) /\ CursorOK(c, ErrorMem) /\ Told(texts) \in TellSet
      /\ Told(texts).bytes = c.p /\ Laid(c, Told(texts).lines)
  BY DEF Keeps
<1>1. PICK v : v = Told(texts)
  OBVIOUS
<1>2. v \in TellSet /\ v.bytes = c.p /\ Laid(c, v.lines)
  BY <1>0, <1>1
<1>3. Told(more) = Tell(v, t) /\ more \in Seq(ErrorText) /\ Tell(v, t) \in TellSet
  BY <1>0, <1>1, <1>2, ToldAppend, TellStays, AppendProperties
<1>4. IsSeq(t) /\ Len(t) \in Nat
  BY TextIs
<1>5. PICK x : x = CursorPushCStr(c, t)
  OBVIOUS
<1>6. d = x.c
  BY <1>5 DEF NoteError
<1>7. IF c.p + Len(t) < ErrorMem
      THEN x.ok /\ CursorOK(x.c, ErrorMem) /\ NotedAt(c, t, x.c)
      ELSE ~x.ok /\ x.c = c
  BY <1>0, <1>4, <1>5, PushCStrIs
<1>8. CASE c.p + Len(t) < ErrorMem
  <2>1. CursorOK(d, ErrorMem) /\ NotedAt(c, t, d)
    BY <1>6, <1>7, <1>8
  <2>2. PICK lines : lines = v.lines
    OBVIOUS
  <2>3. Tell(v, t) = [lines |-> Append(lines, t), bytes |-> v.bytes + Len(t) + 1]
    BY <1>2, <1>8, <2>2 DEF Tell
  <2>4. lines \in Seq(ErrorText)
    BY <1>2, <2>2 DEF TellSet
  <2>5. Laid(d, Append(lines, t))
    BY <1>0, <1>2, <2>1, <2>2, <2>4, LaidMore
  <2>6. d.p = v.bytes + Len(t) + 1
    BY <1>2, <2>1 DEF NotedAt
  <2>7. Tell(v, t).lines = Append(lines, t) /\ Tell(v, t).bytes = d.p
    BY <2>3, <2>6
  <2> QED BY <1>3, <2>1, <2>5, <2>7 DEF Keeps
<1>9. CASE ~(c.p + Len(t) < ErrorMem)
  <2>1. Tell(v, t) = v /\ d = c
    BY <1>2, <1>6, <1>7, <1>9 DEF Tell
  <2> QED BY <1>0, <1>2, <1>3, <2>1 DEF Keeps
<1> QED BY <1>8, <1>9

LEMMA ResetIs ==
  ASSUME NEW n, NEW c, CursorOK(c, n), NEW d, d = ResetCursor(c)
  PROVE  CursorOK(d, n) /\ d.p = 0
<1>1. d = [mem |-> c.mem, p |-> 0]
  BY DEF CursorOK, ResetCursor
<1>2. d.mem = c.mem /\ d.p = 0
  BY <1>1
<1> QED BY <1>1, <1>2 DEF CursorOK

LEMMA ErrorInvInit == ErrorInit => ErrorInv
<1> SUFFICES ASSUME ErrorInit PROVE ErrorInv
  OBVIOUS
<1>1. errs = MakeCursor(Zeros(ErrorMem))
  <2>1. PICK msgbuf : \E errors : /\ errors = CursorSlice(msgbuf, ErrorMem)
                                 /\ errors.ok /\ errs = errors.v
    BY DEF ErrorInit, Created
  <2>2. PICK errors : /\ errors = CursorSlice(msgbuf, ErrorMem)
                      /\ errors.ok /\ errs = errors.v
    BY <2>1
  <2>3. errors = (IF CursorAlloc(msgbuf, ErrorMem).ok
                  THEN Gives(CursorAlloc(msgbuf, ErrorMem).c, MakeCursor(Zeros(ErrorMem)))
                  ELSE Refuses(msgbuf))
    BY <2>2 DEF CursorSlice
  <2>4. ~Refuses(msgbuf).ok
    BY DEF Refuses
  <2>5. errors = Gives(CursorAlloc(msgbuf, ErrorMem).c, MakeCursor(Zeros(ErrorMem)))
    BY <2>2, <2>3, <2>4
  <2> QED BY <2>2, <2>5 DEF Gives
<1>2. PICK z : z = Zeros(ErrorMem)
  OBVIOUS
<1>3. IsSeq(z) /\ Len(z) = ErrorMem /\ ErrorMem \in Nat
  <2>1. PICK n \in Nat : n = ErrorMem
    BY ErrorAssumption
  <2>2. z = [i \in 1..n |-> 0]
    BY <1>2, <2>1 DEF Zeros
  <2>3. Len(z) = n
    BY <2>2
  <2> QED BY <2>1, <2>2, <2>3 DEF IsSeq
<1>4. errs = [mem |-> z, p |-> 0] /\ errs.mem = z /\ errs.p = 0
  BY <1>1, <1>2 DEF MakeCursor
<1>5. CursorOK(errs, ErrorMem)
  BY <1>3, <1>4 DEF CursorOK
<1>6. noted = <<>>
  BY DEF ErrorInit
<1> QED BY <1>4, <1>5, <1>6, EmptyArena DEF ErrorInv

LEMMA ErrorStep == ErrorInv /\ [ErrorNext]_errorVars => ErrorInv'
<1> SUFFICES ASSUME ErrorInv, [ErrorNext]_errorVars PROVE ErrorInv'
  OBVIOUS
<1>0. Keeps(errs, noted)
  BY DEF ErrorInv
<1>1. PICK clear, none : clear = ResetCursor(errs) /\ none = <<>>
  OBVIOUS
<1>2. Keeps(clear, none)
  <2>1. CursorOK(errs, ErrorMem)
    BY <1>0 DEF Keeps
  <2>2. CursorOK(clear, ErrorMem) /\ clear.p = 0
    BY <1>1, <2>1, ResetIs
  <2> QED BY <1>1, <2>2, EmptyArena
<1>3. PICK c, s, d, more : c = errs /\ s = noted /\ d = errs' /\ more = noted'
  OBVIOUS
<1>4. CASE CallFails
  <2>1. PICK text \in ErrorText : errs' = NoteError(errs, text).c /\ noted' = Append(noted, text)
    BY <1>4 DEF CallFails
  <2>2. d = NoteError(c, text).c /\ more = Append(s, text) /\ Keeps(c, s)
    BY <1>0, <1>3, <2>1
  <2>3. Keeps(d, more)
    BY <2>1, <2>2, OneMore
  <2> QED BY <1>3, <2>3 DEF ErrorInv
<1>5. CASE errs' = ResetCursor(errs) /\ noted' = <<>>
  BY <1>1, <1>2, <1>5 DEF ErrorInv
<1>6. ASSUME NEW text \in ErrorText,
             errs' = NoteError(ResetCursor(errs), text).c, noted' = <<text>>
      PROVE  ErrorInv'
  <2>1. d = NoteError(clear, text).c /\ more = Append(none, text)
    BY <1>1, <1>3, <1>6
  <2>2. Keeps(d, more)
    BY <1>2, <1>6, <2>1, OneMore
  <2> QED BY <1>3, <2>2 DEF ErrorInv
<1>7. CASE UNCHANGED errorVars
  BY <1>0, <1>7 DEF ErrorInv, errorVars
<1> QED BY <1>4, <1>5, <1>6, <1>7 DEF ErrorNext, Read

\* What lnsocket_print_errors prints, however the arena was used and whatever
\* its size: the texts noted since the last lnsocket_read began, each whole
\* and in order, save those for which error.c found no room.
THEOREM BacktraceIsTold == ErrorSpec => []BacktraceTells
BY ErrorInvInit, ErrorStep, ErrorInvTells, PTL DEF ErrorSpec

\* A text is shorter than the arena, so the error of a lnsocket_read that
\* fails always is the one line that print_error_backtrace shows after it.
THEOREM ReadsTellTheirError == ErrorSpec => ReadErrorIsTold
<1>1. BacktraceTells' => (Read /\ noted' # <<>> => Backtrace'.lines = noted')
  <2> SUFFICES ASSUME BacktraceTells', Read, noted' # <<>> PROVE Backtrace'.lines = noted'
    OBVIOUS
  <2>1. PICK text \in ErrorText : noted' = <<text>>
    BY DEF Read
  <2>2. PICK e : e = <<>>
    OBVIOUS
  <2>3. PICK s : s = noted'
    OBVIOUS
  <2>4. e \in Seq(ErrorText) /\ s = Append(e, text)
    BY <2>1, <2>2, <2>3
  <2>5. Told(s) = Tell(Told(e), text) /\ Told(e) = TellFirst
    BY <2>2, <2>4, ToldAppend, ToldEmpty
  <2>6. Len(text) \in Nat /\ Len(text) < ErrorMem
    BY TextIs
  <2>7. TellFirst.bytes + Len(text) < ErrorMem
    BY <2>6 DEF TellFirst
  <2>8. Tell(TellFirst, text).lines = Append(e, text)
    BY <2>2, <2>7 DEF Tell, TellFirst
  <2>9. Backtrace'.lines = Told(noted').lines
    BY DEF BacktraceTells
  <2> QED BY <2>3, <2>4, <2>5, <2>8, <2>9
<1> QED BY <1>1, BacktraceIsTold, PTL DEF ReadErrorIsTold, ErrorSpec

-----------------------------------------------------------------------------
(* Numbers and bytes *)

Octet == 0..255
Number == {v \in Seq(Octet) : Len(v) = 8}

-----------------------------------------------------------------------------
LEMMA SmallNumber ==
  ASSUME NEW n \in Octet
  PROVE  U64(n) = <<0, 0, 0, 0, 0, 0, 0, n>>
<1>1. n \div 1 = n /\ n \div 256 = 0 /\ n \div 65536 = 0 /\ n \div 16777216 = 0
  BY DEF Octet
<1>2. Byte(n, 3) = 0 /\ Byte(n, 2) = 0 /\ Byte(n, 1) = 0 /\ Byte(n, 0) = n
  BY <1>1 DEF Byte, Octet
<1> QED BY <1>2 DEF U64

LEMMA SmallIs ==
  ASSUME NEW n \in Octet
  PROVE  U64(n) \in Number /\ U64(n)[8] = n /\ \A i \in 1..7 : U64(n)[i] = 0
<1>1. U64(n) = <<0, 0, 0, 0, 0, 0, 0, n>>
  BY SmallNumber
<1>2. PICK S : S = Octet
  OBVIOUS
<1>3. n \in S /\ 0 \in S
  BY <1>2 DEF Octet
<1>4. <<0, 0, 0, 0, 0, 0, 0, n>> \in Seq(S) /\ Len(<<0, 0, 0, 0, 0, 0, 0, n>>) = 8
  BY <1>3
<1>5. U64(n) \in Number
  BY <1>1, <1>2, <1>4 DEF Number
<1> QED BY <1>1, <1>5

LEMMA NumberIs ==
  ASSUME NEW v \in Number
  PROVE  v \in Seq(Octet) /\ Len(v) = 8 /\ \A i \in 1..8 : v[i] \in Octet
<1>1. PICK S : S = Octet
  OBVIOUS
<1>2. v \in Seq(S) /\ Len(v) = 8
  BY <1>1 DEF Number
<1>3. \A i \in 1..8 : v[i] \in S
  BY <1>2, ElementOfSeq
<1> QED BY <1>1, <1>2, <1>3

\* One sequence behind another.
LEMMA BytesJoin ==
  ASSUME NEW a \in Seq(Octet), NEW c \in Seq(Octet)
  PROVE  /\ a \o c \in Seq(Octet) /\ Len(a \o c) = Len(a) + Len(c)
         /\ Len(a) \in Nat /\ Len(c) \in Nat
         /\ \A i \in 1..Len(a) : (a \o c)[i] = a[i]
         /\ \A i \in 1..Len(c) : (a \o c)[Len(a) + i] = c[i]
<1>1. PICK S : S = Octet
  OBVIOUS
<1>2. a \in Seq(S) /\ c \in Seq(S)
  BY <1>1
<1>3. /\ a \o c \in Seq(S) /\ Len(a \o c) = Len(a) + Len(c)
      /\ \A i \in 1..(Len(a) + Len(c)) : (a \o c)[i] = IF i <= Len(a) THEN a[i] ELSE c[i - Len(a)]
  BY <1>2, ConcatProperties
<1>4. Len(a) \in Nat /\ Len(c) \in Nat
  BY <1>2, LenProperties
<1>5. ASSUME NEW i \in 1..Len(a) PROVE (a \o c)[i] = a[i]
  <2>1. i \in 1..(Len(a) + Len(c)) /\ i <= Len(a)
    BY <1>4
  <2> QED BY <1>3, <2>1
<1>6. ASSUME NEW i \in 1..Len(c) PROVE (a \o c)[Len(a) + i] = c[i]
  <2>1. PICK j : j = Len(a) + i
    OBVIOUS
  <2>2. j \in 1..(Len(a) + Len(c)) /\ ~(j <= Len(a)) /\ j - Len(a) = i
    BY <1>4, <2>1
  <2>3. (a \o c)[j] = c[j - Len(a)]
    BY <1>3, <2>2
  <2> QED BY <2>1, <2>2, <2>3
<1> QED BY <1>1, <1>3, <1>4, <1>5, <1>6

LEMMA SameNumber ==
  ASSUME NEW v \in Number, NEW u \in Number, \A i \in 1..8 : v[i] = u[i]
  PROVE  v = u
<1>1. v \in Seq(Octet) /\ u \in Seq(Octet) /\ Len(v) = 8 /\ Len(u) = 8
  BY NumberIs
<1> QED BY <1>1, SeqEqual

LEMMA FitsIs ==
  ASSUME NEW v \in Number
  PROVE  /\ Fits(v, 4) <=> v[1] = 0 /\ v[2] = 0 /\ v[3] = 0 /\ v[4] = 0
         /\ Fits(v, 2) <=> Fits(v, 4) /\ v[5] = 0 /\ v[6] = 0
         /\ Fits(v, 1) <=> Fits(v, 2) /\ v[7] = 0
BY DEF Fits

LEMMA LowIs ==
  ASSUME NEW v \in Number, NEW k \in {1, 2, 4, 8}
  PROVE  /\ Low(v, k) \in Seq(Octet) /\ Len(Low(v, k)) = k
         /\ \A i \in 1..k : Low(v, k)[i] = v[8 - k + i]
<1> DEFINE m == 9 - k
<1>1. m \in Int /\ m <= 8 /\ 8 - m + 1 = k /\ \A i \in m..8 : i \in 1..8
  OBVIOUS
<1>2. \A i \in m..8 : v[i] \in Octet
  BY <1>1, NumberIs
<1>3. Low(v, k) = SubSeq(v, m, 8)
  BY DEF Low
<1> HIDE DEF m
<1>4. /\ SubSeq(v, m, 8) \in Seq(Octet)
      /\ Len(SubSeq(v, m, 8)) = 8 - m + 1
      /\ \A i \in 1..(8 - m + 1) : SubSeq(v, m, 8)[i] = v[m + i - 1]
  BY <1>1, <1>2, SubSeqProperties
<1>5. \A i \in 1..k : m + i - 1 = 8 - k + i
  BY DEF m
<1> QED BY <1>1, <1>3, <1>4, <1>5

\* Bytes behind a mark and before others.
LEMMA Marked ==
  ASSUME NEW mark \in Octet, NEW low \in Seq(Octet), NEW rest \in Seq(Octet), NEW b,
         b = (<<mark>> \o low) \o rest
  PROVE  /\ b \in Seq(Octet) /\ Len(b) = 1 + Len(low) + Len(rest) /\ b[1] = mark
         /\ \A i \in 1..Len(low) : b[i + 1] = low[i]
<1> DEFINE one == <<mark>>  head == one \o low
<1>1. one \in Seq(Octet) /\ Len(one) = 1 /\ one[1] = mark
  OBVIOUS
<1>2. b = head \o rest /\ head = one \o low
  OBVIOUS
<1> HIDE DEF one, head
<1>3. /\ head \in Seq(Octet) /\ Len(head) = 1 + Len(low) /\ Len(low) \in Nat
      /\ head[1] = mark /\ \A i \in 1..Len(low) : head[1 + i] = low[i]
  BY <1>1, <1>2, BytesJoin
<1>4. /\ b \in Seq(Octet) /\ Len(b) = 1 + Len(low) + Len(rest) /\ Len(rest) \in Nat
      /\ \A i \in 1..(1 + Len(low)) : b[i] = head[i]
  BY <1>2, <1>3, BytesJoin
<1>5. b[1] = mark
  BY <1>3, <1>4
<1>6. ASSUME NEW i \in 1..Len(low) PROVE b[i + 1] = low[i]
  <2>1. i + 1 \in 1..(1 + Len(low)) /\ i + 1 = 1 + i
    BY <1>3
  <2> QED BY <1>3, <1>4, <2>1
<1> QED BY <1>4, <1>5, <1>6

\* The bytes behind the mark.
LEMMA Behind ==
  ASSUME NEW b \in Seq(Octet), NEW k \in {2, 4, 8}, k + 1 <= Len(b)
  PROVE  /\ SubSeq(b, 2, k + 1) \in Seq(Octet) /\ Len(SubSeq(b, 2, k + 1)) = k
         /\ \A i \in 1..k : SubSeq(b, 2, k + 1)[i] = b[i + 1]
<1>1. Len(b) \in Nat /\ \A i \in 1..Len(b) : b[i] \in Octet
  BY LenProperties, ElementOfSeq
<1>2. \A i \in 2..(k + 1) : b[i] \in Octet
  BY <1>1
<1>3. /\ SubSeq(b, 2, k + 1) \in Seq(Octet)
      /\ Len(SubSeq(b, 2, k + 1)) = IF 2 <= k + 1 THEN k + 1 - 2 + 1 ELSE 0
      /\ \A i \in 1..(k + 1 - 2 + 1) : SubSeq(b, 2, k + 1)[i] = b[2 + i - 1]
  <2> DEFINE m == k + 1
  <2>1. m \in Int /\ \A i \in 2..m : b[i] \in Octet
    BY <1>2
  <2> HIDE DEF m
  <2>2. /\ SubSeq(b, 2, m) \in Seq(Octet)
        /\ Len(SubSeq(b, 2, m)) = IF 2 <= m THEN m - 2 + 1 ELSE 0
        /\ \A i \in 1..(m - 2 + 1) : SubSeq(b, 2, m)[i] = b[2 + i - 1]
    BY <2>1, SubSeqProperties
  <2> QED BY <2>2 DEF m
<1>4. k + 1 - 2 + 1 = k /\ \A i \in 1..k : 2 + i - 1 = i + 1
  OBVIOUS
<1> QED BY <1>3, <1>4

\* A mark alone in front.
LEMMA MarkedAlone ==
  ASSUME NEW mark \in Octet, NEW low \in Seq(Octet)
  PROVE  /\ <<mark>> \o low \in Seq(Octet) /\ Len(<<mark>> \o low) = Len(low) + 1
         /\ (<<mark>> \o low)[1] = mark
         /\ \A i \in 1..Len(low) : (<<mark>> \o low)[1 + i] = low[i]
<1>1. PICK one : one = <<mark>>
  OBVIOUS
<1>2. one \in Seq(Octet) /\ Len(one) = 1 /\ one[1] = mark
  BY <1>1
<1>3. /\ one \o low \in Seq(Octet) /\ Len(one \o low) = Len(one) + Len(low) /\ Len(low) \in Nat
      /\ \A i \in 1..Len(one) : (one \o low)[i] = one[i]
      /\ \A i \in 1..Len(low) : (one \o low)[Len(one) + i] = low[i]
  BY <1>2, BytesJoin
<1>4. Len(one \o low) = Len(low) + 1 /\ (one \o low)[1] = mark
  BY <1>2, <1>3
<1>5. \A i \in 1..Len(low) : (one \o low)[1 + i] = low[i]
  BY <1>2, <1>3
<1> QED BY <1>1, <1>3, <1>4, <1>5

\* The bytes at the front.
LEMMA FirstBytes ==
  ASSUME NEW b \in Seq(Octet), NEW n \in Nat, n <= Len(b)
  PROVE  /\ SubSeq(b, 1, n) \in Seq(Octet) /\ Len(SubSeq(b, 1, n)) = n
         /\ \A i \in 1..n : SubSeq(b, 1, n)[i] = b[i]
<1>1. PICK S : S = Octet
  OBVIOUS
<1>2. Len(b) \in Nat /\ \A i \in 1..n : b[i] \in S
  BY <1>1, LenProperties, ElementOfSeq
<1>3. /\ SubSeq(b, 1, n) \in Seq(S)
      /\ Len(SubSeq(b, 1, n)) = IF 1 <= n THEN n - 1 + 1 ELSE 0
      /\ \A i \in 1..(n - 1 + 1) : SubSeq(b, 1, n)[i] = b[1 + i - 1]
  BY <1>2, SubSeqProperties
<1>4. n - 1 + 1 = n /\ \A i \in 1..n : 1 + i - 1 = i
  OBVIOUS
<1> QED BY <1>1, <1>3, <1>4

LEMMA SameBytes ==
  ASSUME NEW a \in Seq(Octet), NEW c \in Seq(Octet), Len(a) = Len(c),
         \A i \in 1..Len(a) : a[i] = c[i]
  PROVE  a = c
<1>1. PICK S : S = Octet
  OBVIOUS
<1> QED BY <1>1, SeqEqual

\* Bytes as the lowest of a number.
LEMMA Padded ==
  ASSUME NEW k \in {2, 4, 8}, NEW s \in Seq(Octet), Len(s) = k
  PROVE  /\ Zeros(8 - k) \o s \in Number
         /\ \A i \in 1..(8 - k) : (Zeros(8 - k) \o s)[i] = 0
         /\ \A i \in 1..k : (Zeros(8 - k) \o s)[8 - k + i] = s[i]
<1> DEFINE n == 8 - k  z == Zeros(n)
<1>1. n \in Nat /\ n + k = 8
  OBVIOUS
<1>2. z \in Seq(Octet) /\ Len(z) = n /\ \A i \in 1..n : z[i] = 0
  <2>1. PICK S : S = Octet
    OBVIOUS
  <2>2. 0 \in S
    BY <2>1 DEF Octet
  <2> HIDE DEF n
  <2>3. z = [i \in 1..n |-> 0]
    BY DEF Zeros
  <2> HIDE DEF z
  <2>4. z \in Seq(S) /\ Len(z) = n /\ \A i \in 1..n : z[i] = 0
    BY <1>1, <2>2, <2>3
  <2> QED BY <2>1, <2>4
<1> HIDE DEF n, z
<1>3. /\ z \o s \in Seq(Octet) /\ Len(z \o s) = n + k
      /\ \A i \in 1..n : (z \o s)[i] = z[i]
      /\ \A i \in 1..k : (z \o s)[n + i] = s[i]
  BY <1>2, BytesJoin
<1>4. z \o s \in Number
  BY <1>1, <1>3 DEF Number
<1>5. \A i \in 1..n : (z \o s)[i] = 0
  BY <1>2, <1>3
<1> QED BY <1>3, <1>4, <1>5 DEF n, z

-----------------------------------------------------------------------------
(* One byte, and a mark with the lowest bytes, in front of others *)

Mark(k) == IF k = 2 THEN 253 ELSE IF k = 4 THEN 254 ELSE 255

\* The lowest byte alone.
LEMMA ShortRead ==
  ASSUME NEW v \in Number, NEW rest \in Seq(Octet), NEW b, b = Low(v, 1) \o rest,
         OneByte(v)
  PROVE  TakenAt(b) = 1 /\ 1 <= Len(b) /\ U64(b[1]) = v
<1> DEFINE low == Low(v, 1)
<1>1. low \in Seq(Octet) /\ Len(low) = 1 /\ low[1] = v[8]
  BY LowIs
<1>2. Len(rest) \in Nat
  BY LenProperties
<1>3. b = low \o rest
  OBVIOUS
<1> HIDE DEF low
<1>4. Len(b) = 1 + Len(rest) /\ b[1] = v[8]
  <2>1. Len(low \o rest) = Len(low) + Len(rest) /\ \A i \in 1..Len(low) : (low \o rest)[i] = low[i]
    BY <1>1, BytesJoin
  <2> QED BY <1>1, <1>3, <2>1
<1>6. b # <<>> /\ 1 <= Len(b)
  BY <1>2, <1>4
<1>7. v[8] \in Octet /\ v[8] < 253 /\ \A i \in 1..7 : v[i] = 0
  BY NumberIs, FitsIs DEF OneByte
<1>8. TakenAt(b) = 1
  <2>1. b[1] # 253 /\ b[1] # 254 /\ b[1] # 255
    BY <1>4, <1>7 DEF Octet
  <2> QED BY <1>6, <2>1 DEF TakenAt
<1>9. U64(b[1]) = v
  <2>1. b[1] \in Octet /\ b[1] = v[8]
    BY <1>4, <1>7
  <2>2. /\ U64(b[1]) \in Number /\ U64(b[1])[8] = b[1]
        /\ \A i \in 1..7 : U64(b[1])[i] = 0
    BY <2>1, SmallIs
  <2>3. ASSUME NEW i \in 1..8 PROVE U64(b[1])[i] = v[i]
    <3>1. i \in 1..7 \/ i = 8
      OBVIOUS
    <3> QED BY <1>7, <2>1, <2>2, <3>1
  <2> QED BY <2>2, <2>3, SameNumber
<1> QED BY <1>6, <1>8, <1>9

-----------------------------------------------------------------------------
(* Bigsizes *)

LEMMA Whole ==
  ASSUME NEW v \in Number
  PROVE  Low(v, 8) = v
<1>1. Low(v, 8) \in Seq(Octet) /\ Len(Low(v, 8)) = 8 /\ \A i \in 1..8 : Low(v, 8)[i] = v[8 - 8 + i]
  BY LowIs
<1>2. Low(v, 8) \in Number
  BY <1>1 DEF Number
<1>3. \A i \in 1..8 : Low(v, 8)[i] = v[i]
  BY <1>1
<1> QED BY <1>2, <1>3, SameNumber

\* No shorter form than the one of k bytes would do.
NoShorter(v, k) == CASE k = 2 -> ~OneByte(v) [] k = 4 -> ~Fits(v, 2) [] OTHER -> ~Fits(v, 4)

\* Which of its forms bigsize_put picks.
LEMMA PutForms ==
  ASSUME NEW v \in Number
  PROVE  \/ OneByte(v) /\ BigsizePut(v) = Low(v, 1) /\ BigsizeLen(v) = 1
         \/ \E k \in {2, 4, 8} :
              /\ Fits(v, k) /\ NoShorter(v, k)
              /\ BigsizePut(v) = <<Mark(k)>> \o Low(v, k) /\ BigsizeLen(v) = k + 1
<1>1. Fits(v, 8) /\ Low(v, 8) = v
  BY Whole DEF Fits
<1>2. CASE OneByte(v)
  BY <1>2 DEF BigsizePut, BigsizeLen
<1>3. CASE ~OneByte(v) /\ Fits(v, 2)
  BY <1>3 DEF BigsizePut, BigsizeLen, Mark, NoShorter
<1>4. CASE ~OneByte(v) /\ ~Fits(v, 2) /\ Fits(v, 4)
  BY <1>4 DEF BigsizePut, BigsizeLen, Mark, NoShorter
<1>5. CASE ~OneByte(v) /\ ~Fits(v, 2) /\ ~Fits(v, 4)
  BY <1>1, <1>5 DEF BigsizePut, BigsizeLen, Mark, NoShorter
<1> QED BY <1>2, <1>3, <1>4, <1>5

\* It picks a form with a mark, when no shorter one would do.
LEMMA PutLong ==
  ASSUME NEW v \in Number, NEW k \in {2, 4, 8}, Fits(v, k), NoShorter(v, k)
  PROVE  BigsizePut(v) = <<Mark(k)>> \o Low(v, k)
<1>1. (OneByte(v) => Fits(v, 2)) /\ (Fits(v, 2) => Fits(v, 4))
  BY FitsIs DEF OneByte
<1>2. CASE k = 2
  <2>1. ~OneByte(v)
    BY <1>2 DEF NoShorter
  <2> QED BY <1>2, <2>1 DEF BigsizePut, Mark
<1>3. CASE k = 4
  <2>1. ~Fits(v, 2)
    BY <1>3 DEF NoShorter
  <2> QED BY <1>1, <1>3, <2>1 DEF BigsizePut, Mark
<1>4. CASE k = 8
  <2>1. ~Fits(v, 4)
    BY <1>4 DEF NoShorter
  <2> QED BY <1>1, <1>4, <2>1, Whole DEF BigsizePut, Mark
<1> QED BY <1>2, <1>3, <1>4

\* What bigsize_get makes of a byte, and of a mark and the bytes behind it.
LEMMA GetShort ==
  ASSUME NEW b, TakenAt(b) = 1, 1 <= Len(b)
  PROVE  BigsizeGet(b) = [n |-> 1, v |-> U64(b[1])]
BY DEF BigsizeGet

LEMMA Get3 ==
  ASSUME NEW b, TakenAt(b) = 3, NEW v, v = Zeros(6) \o SubSeq(b, 2, 3)
  PROVE  BigsizeGet(b) = IF 3 <= Len(b) /\ ~OneByte(v) THEN [n |-> 3, v |-> v] ELSE [n |-> 0, v |-> <<>>]
<1>1. v = Zeros(9 - 3) \o SubSeq(b, 2, 3)
  OBVIOUS
<1> QED BY <1>1 DEF BigsizeGet

LEMMA Get5 ==
  ASSUME NEW b, TakenAt(b) = 5, NEW v, v = Zeros(4) \o SubSeq(b, 2, 5)
  PROVE  BigsizeGet(b) = IF 5 <= Len(b) /\ ~Fits(v, 2) THEN [n |-> 5, v |-> v] ELSE [n |-> 0, v |-> <<>>]
<1>1. v = Zeros(9 - 5) \o SubSeq(b, 2, 5)
  OBVIOUS
<1> QED BY <1>1 DEF BigsizeGet

LEMMA Get9 ==
  ASSUME NEW b, TakenAt(b) = 9, NEW v, v = Zeros(0) \o SubSeq(b, 2, 9)
  PROVE  BigsizeGet(b) = IF 9 <= Len(b) /\ ~Fits(v, 4) THEN [n |-> 9, v |-> v] ELSE [n |-> 0, v |-> <<>>]
<1>1. v = Zeros(9 - 9) \o SubSeq(b, 2, 9)
  OBVIOUS
<1> QED BY <1>1 DEF BigsizeGet
LEMMA GetLong ==
  ASSUME NEW b, NEW k \in {2, 4, 8}, NEW n, n = k + 1, NEW m, m = 8 - k, TakenAt(b) = n,
         NEW v, v = Zeros(m) \o SubSeq(b, 2, n)
  PROVE  BigsizeGet(b) = IF n <= Len(b) /\ NoShorter(v, k) THEN [n |-> n, v |-> v] ELSE [n |-> 0, v |-> <<>>]
<1>1. CASE k = 2
  <2>1. n = 3 /\ m = 6
    BY <1>1
  <2>2. NoShorter(v, k) <=> ~OneByte(v)
    BY <1>1 DEF NoShorter
  <2> QED BY <2>1, <2>2, Get3
<1>2. CASE k = 4
  <2>1. n = 5 /\ m = 4
    BY <1>2
  <2>2. NoShorter(v, k) <=> ~Fits(v, 2)
    BY <1>2 DEF NoShorter
  <2> QED BY <2>1, <2>2, Get5
<1>3. CASE k = 8
  <2>1. n = 9 /\ m = 0
    BY <1>3
  <2>2. NoShorter(v, k) <=> ~Fits(v, 4)
    BY <1>3 DEF NoShorter
  <2> QED BY <2>1, <2>2, Get9
<1> QED BY <1>1, <1>2, <1>3

\* bigsize_get takes what bigsize_put wrote, whatever comes behind it: it
\* gives the same number and takes as many bytes as bigsize_len says.
THEOREM BigsizeRoundTrip ==
  ASSUME NEW v \in Number, NEW rest \in Seq(Octet)
  PROVE  BigsizeGet(BigsizePut(v) \o rest) = [n |-> BigsizeLen(v), v |-> v]
<1>1. PICK b : b = BigsizePut(v) \o rest
  OBVIOUS
<1>2. CASE OneByte(v) /\ BigsizePut(v) = Low(v, 1) /\ BigsizeLen(v) = 1
  <2>1. b = Low(v, 1) \o rest
    BY <1>1, <1>2
  <2>2. TakenAt(b) = 1 /\ 1 <= Len(b) /\ U64(b[1]) = v
    BY <1>2, <2>1, ShortRead
  <2> QED BY <1>1, <1>2, <2>2, GetShort
<1>3. ASSUME NEW k \in {2, 4, 8},
             Fits(v, k), NoShorter(v, k),
             BigsizePut(v) = <<Mark(k)>> \o Low(v, k), BigsizeLen(v) = k + 1
      PROVE  BigsizeGet(b) = [n |-> BigsizeLen(v), v |-> v]
  <2>1. b = (<<Mark(k)>> \o Low(v, k)) \o rest
    BY <1>1, <1>3
  <2>2. \A i \in 1..(8 - k) : v[i] = 0
    BY <1>3 DEF Fits
  <2> DEFINE s == SubSeq(b, 2, k + 1)
  <2>3. Low(v, k) \in Seq(Octet) /\ Len(Low(v, k)) = k /\ \A i \in 1..k : Low(v, k)[i] = v[8 - k + i]
    <3>1. k \in {1, 2, 4, 8}
      OBVIOUS
    <3> QED BY <3>1, LowIs
  <2>4. Mark(k) \in Octet
    BY DEF Mark, Octet
  <2>5. /\ b \in Seq(Octet) /\ Len(b) = 1 + k + Len(rest) /\ b[1] = Mark(k)
        /\ \A i \in 1..k : b[i + 1] = Low(v, k)[i]
    BY <2>1, <2>3, <2>4, Marked
  <2>6. Len(rest) \in Nat
    BY LenProperties
  <2>7. k + 1 <= Len(b) /\ b # <<>>
    BY <2>5, <2>6
  <2>8. TakenAt(b) = k + 1
    BY <2>5, <2>7 DEF TakenAt, Mark
  <2>9. s \in Seq(Octet) /\ Len(s) = k /\ \A i \in 1..k : s[i] = b[i + 1]
    BY <2>5, <2>7, Behind
  <2> HIDE DEF s
  <2>10. /\ Zeros(8 - k) \o s \in Number
         /\ \A i \in 1..(8 - k) : (Zeros(8 - k) \o s)[i] = 0
         /\ \A i \in 1..k : (Zeros(8 - k) \o s)[8 - k + i] = s[i]
    BY <2>9, Padded
  <2>11. Zeros(8 - k) \o s = v
    <3> DEFINE z == Zeros(8 - k) \o s
    <3>1. z \in Number /\ \A i \in 1..(8 - k) : z[i] = 0
      BY <2>10
    <3>2. ASSUME NEW i \in 1..k PROVE z[8 - k + i] = v[8 - k + i]
      <4>1. s[i] = b[i + 1] /\ b[i + 1] = Low(v, k)[i] /\ Low(v, k)[i] = v[8 - k + i]
        BY <2>3, <2>5, <2>9
      <4>2. z[8 - k + i] = s[i]
        BY <2>10
      <4> QED BY <4>1, <4>2
    <3>3. \A i \in 1..(8 - k) : v[i] = 0
      BY <2>2
    <3> HIDE DEF z
    <3>4. ASSUME NEW i \in 1..8 PROVE z[i] = v[i]
      <4>1. CASE i <= 8 - k
        BY <3>1, <3>3, <4>1
      <4>2. CASE i > 8 - k
        <5>1. i - (8 - k) \in 1..k /\ 8 - k + (i - (8 - k)) = i
          BY <4>2
        <5> QED BY <3>2, <5>1
      <4> QED BY <4>1, <4>2
    <3>5. z = v
      BY <3>1, <3>4, SameNumber
    <3> QED BY <3>5 DEF z
  <2>12. PICK n, m : n = k + 1 /\ m = 8 - k
    OBVIOUS
  <2>13. TakenAt(b) = n /\ n <= Len(b) /\ v = Zeros(m) \o SubSeq(b, 2, n)
    BY <2>7, <2>8, <2>11, <2>12 DEF s
  <2>14. BigsizeGet(b) = IF n <= Len(b) /\ NoShorter(v, k) THEN [n |-> n, v |-> v] ELSE [n |-> 0, v |-> <<>>]
    BY <2>12, <2>13, GetLong
  <2>15. BigsizeGet(b) = [n |-> n, v |-> v]
    BY <1>3, <2>13, <2>14
  <2> QED BY <1>3, <2>12, <2>15
<1> QED BY <1>1, <1>2, <1>3, PutForms

\* bigsize_get accepts no second encoding: the bytes it takes are those that
\* bigsize_put writes for the number it gives.
THEOREM BigsizeCanonical ==
  ASSUME NEW b \in Seq(Octet), BigsizeGet(b).n > 0
  PROVE  /\ BigsizeGet(b).v \in Number
         /\ BigsizePut(BigsizeGet(b).v) = SubSeq(b, 1, BigsizeGet(b).n)
<1>1. b # <<>>
  <2>1. BigsizeGet(<<>>).n = 0
    BY DEF BigsizeGet, TakenAt
  <2> QED BY <2>1
<1>2. Len(b) \in Nat /\ 1 <= Len(b) /\ \A i \in 1..Len(b) : b[i] \in Octet
  <2>1. PICK S : S = Octet
    OBVIOUS
  <2>2. b \in Seq(S)
    BY <2>1
  <2>3. Len(b) \in Nat /\ Len(b) # 0
    BY <1>1, <2>2, LenProperties, EmptySeq
  <2>4. \A i \in 1..Len(b) : b[i] \in S
    BY <2>2, ElementOfSeq
  <2> QED BY <2>1, <2>3, <2>4
<1>3. CASE b[1] < 253
  <2>1. TakenAt(b) = 1
    BY <1>1, <1>2, <1>3 DEF TakenAt, Octet
  <2>2. BigsizeGet(b) = [n |-> 1, v |-> U64(b[1])]
    BY <1>2, <2>1, GetShort
  <2>3. PICK v : v = U64(b[1])
    OBVIOUS
  <2>4. v \in Number /\ v[8] = b[1] /\ \A i \in 1..7 : v[i] = 0
    BY <1>2, <2>3, SmallIs
  <2>5. OneByte(v)
    BY <1>3, <2>4 DEF OneByte, Fits
  <2>6. BigsizePut(v) = Low(v, 1)
    BY <2>5 DEF BigsizePut
  <2>7. Low(v, 1) \in Seq(Octet) /\ Len(Low(v, 1)) = 1 /\ Low(v, 1)[1] = b[1]
    BY <2>4, LowIs
  <2>8. SubSeq(b, 1, 1) \in Seq(Octet) /\ Len(SubSeq(b, 1, 1)) = 1 /\ SubSeq(b, 1, 1)[1] = b[1]
    BY <1>2, FirstBytes
  <2>9. Low(v, 1) = SubSeq(b, 1, 1)
    BY <2>7, <2>8, SameBytes
  <2> QED BY <2>2, <2>3, <2>4, <2>6, <2>9
<1>4. ASSUME NEW k \in {2, 4, 8}, b[1] = Mark(k)
      PROVE  /\ BigsizeGet(b).v \in Number
             /\ BigsizePut(BigsizeGet(b).v) = SubSeq(b, 1, BigsizeGet(b).n)
  <2>1. TakenAt(b) = k + 1
    BY <1>1, <1>4 DEF TakenAt, Mark
  <2>2. PICK v : v = Zeros(8 - k) \o SubSeq(b, 2, k + 1)
    OBVIOUS
  <2>3. k + 1 <= Len(b) /\ BigsizeGet(b) = [n |-> k + 1, v |-> v] /\ NoShorter(v, k)
    <3>1. PICK n, m : n = k + 1 /\ m = 8 - k
      OBVIOUS
    <3>2. TakenAt(b) = n /\ v = Zeros(m) \o SubSeq(b, 2, n)
      BY <2>1, <2>2, <3>1
    <3>3. BigsizeGet(b) = IF n <= Len(b) /\ NoShorter(v, k) THEN [n |-> n, v |-> v] ELSE [n |-> 0, v |-> <<>>]
      BY <3>1, <3>2, GetLong
    <3>4. CASE ~(n <= Len(b) /\ NoShorter(v, k))
      <4>1. BigsizeGet(b) = [n |-> 0, v |-> <<>>]
        BY <3>3, <3>4
      <4>2. ~(BigsizeGet(b).n > 0)
        BY <4>1
      <4> QED BY <4>2
    <3>5. CASE n <= Len(b) /\ NoShorter(v, k)
      BY <3>1, <3>3, <3>5
    <3> QED BY <3>4, <3>5
  <2>4. PICK s : s = SubSeq(b, 2, k + 1)
    OBVIOUS
  <2>5. s \in Seq(Octet) /\ Len(s) = k /\ \A i \in 1..k : s[i] = b[i + 1]
    BY <2>3, <2>4, Behind
  <2>6. v \in Number /\ (\A i \in 1..(8 - k) : v[i] = 0) /\ \A i \in 1..k : v[8 - k + i] = s[i]
    BY <2>2, <2>4, <2>5, Padded
  <2>7. Fits(v, k)
    BY <2>6 DEF Fits
  <2>8. BigsizePut(v) = <<Mark(k)>> \o Low(v, k)
    BY <2>3, <2>6, <2>7, PutLong
  <2>9. <<Mark(k)>> \o Low(v, k) = SubSeq(b, 1, k + 1)
    <3>1. /\ Low(v, k) \in Seq(Octet) /\ Len(Low(v, k)) = k
          /\ \A i \in 1..k : Low(v, k)[i] = v[8 - k + i]
      <4>1. k \in {1, 2, 4, 8}
        OBVIOUS
      <4> QED BY <2>6, <4>1, LowIs
    <3>2. PICK low : low = Low(v, k)
      OBVIOUS
    <3>3. low \in Seq(Octet) /\ Len(low) = k /\ \A i \in 1..k : low[i] = b[i + 1]
      BY <2>5, <2>6, <3>1, <3>2
    <3>4. Mark(k) \in Octet
      BY DEF Mark, Octet
    <3>5. /\ <<Mark(k)>> \o low \in Seq(Octet) /\ Len(<<Mark(k)>> \o low) = k + 1
          /\ (<<Mark(k)>> \o low)[1] = Mark(k)
          /\ \A i \in 1..k : (<<Mark(k)>> \o low)[1 + i] = low[i]
      BY <3>3, <3>4, MarkedAlone
    <3>6. /\ SubSeq(b, 1, k + 1) \in Seq(Octet) /\ Len(SubSeq(b, 1, k + 1)) = k + 1
          /\ \A i \in 1..(k + 1) : SubSeq(b, 1, k + 1)[i] = b[i]
      <4>1. k + 1 \in Nat
        OBVIOUS
      <4> QED BY <2>3, <4>1, FirstBytes
    <3>7. ASSUME NEW i \in 1..(k + 1)
          PROVE  (<<Mark(k)>> \o low)[i] = SubSeq(b, 1, k + 1)[i]
      <4>1. CASE i = 1
        BY <1>4, <3>5, <3>6, <4>1
      <4>2. CASE i # 1
        <5>1. PICK j : j = i - 1
          OBVIOUS
        <5>2. j \in 1..k /\ i = 1 + j /\ i = j + 1
          BY <4>2, <5>1
        <5>3. (<<Mark(k)>> \o low)[1 + j] = low[j] /\ low[j] = b[j + 1]
          BY <3>3, <3>5, <5>2
        <5> QED BY <3>6, <5>2, <5>3
      <4> QED BY <4>1, <4>2
    <3> QED BY <3>2, <3>5, <3>6, <3>7, SameBytes
  <2> QED BY <2>3, <2>6, <2>8, <2>9
<1>5. b[1] < 253 \/ \E k \in {2, 4, 8} : b[1] = Mark(k)
  <2>1. b[1] \in Octet
    BY <1>2
  <2>2. PICK x : x = b[1]
    OBVIOUS
  <2>3. x < 253 \/ x = 253 \/ x = 254 \/ x = 255
    <3>1. x \in 0..255
      BY <2>1, <2>2 DEF Octet
    <3> QED BY <3>1
  <2>4. Mark(2) = 253 /\ Mark(4) = 254 /\ Mark(8) = 255
    BY DEF Mark
  <2> QED BY <2>2, <2>3, <2>4
<1> QED BY <1>3, <1>4, <1>5

-----------------------------------------------------------------------------
(* What the pushes write *)

\* A cursor over n bytes.
Cursors(n) == [mem : {m \in Seq(Octet) : Len(m) = n}, p : 0..n]
PushSet(n) == [ok : BOOLEAN, c : Cursors(n)]

\* d is c after the bytes were written where c was, whatever came of the
\* bytes behind them.
Put(c, bytes, d) ==
  /\ d.p = c.p + Len(bytes)
  /\ \A i \in 1..c.p : d.mem[i] = c.mem[i]
  /\ \A i \in 1..Len(bytes) : d.mem[c.p + i] = bytes[i]

\* x is what a push of the bytes at c gave: it wrote them all, or there was no
\* byte more than they take.
Gave(c, n, bytes, x) ==
  /\ x \in PushSet(n)
  /\ x.ok => Put(c, bytes, x.c)
  /\ ~x.ok => c.p + Len(bytes) >= n

LEMMA CursorIs ==
  ASSUME NEW n \in Nat, NEW c \in Cursors(n)
  PROVE  /\ CursorOK(c, n) /\ c.mem \in Seq(Octet) /\ Len(c.mem) = n /\ End(c) = n
         /\ c.p \in 0..n /\ c = [mem |-> c.mem, p |-> c.p]
<1>1. c.mem \in Seq(Octet) /\ Len(c.mem) = n /\ c.p \in 0..n /\ c = [mem |-> c.mem, p |-> c.p]
  BY DEF Cursors
<1>2. IsSeq(c.mem)
  BY <1>1, IsSeqOf
<1> QED BY <1>1, <1>2 DEF CursorOK, End

LEMMA IsCursor ==
  ASSUME NEW n, NEW c, CursorOK(c, n), \A i \in 1..n : c.mem[i] \in Octet
  PROVE  n \in Nat /\ c \in Cursors(n)
<1>1. /\ c = [mem |-> c.mem, p |-> c.p] /\ c.mem = [i \in 1..n |-> c.mem[i]] /\ Len(c.mem) = n
      /\ n \in Nat /\ c.p \in 0..n
  BY DEF CursorOK, IsSeq
<1>2. PICK S : S = Octet
  OBVIOUS
<1>3. PICK mem : mem = c.mem
  OBVIOUS
<1>4. mem \in [1..n -> S]
  BY <1>1, <1>2, <1>3
<1>5. mem \in Seq(S)
  BY <1>1, <1>4, SeqDef
<1> QED BY <1>1, <1>2, <1>3, <1>5 DEF Cursors

\* Bytes written where there is room for them.
LEMMA WriteGives ==
  ASSUME NEW n \in Nat, NEW c \in Cursors(n), NEW bytes \in Seq(Octet), c.p + Len(bytes) <= n
  PROVE  Gave(c, n, bytes, Yes(Write(c, bytes)))
<1>1. IsSeq(bytes) /\ Len(bytes) \in Nat
  BY IsSeqOf, LenProperties
<1>2. PICK d : d = Write(c, bytes)
  OBVIOUS
<1>3. CursorOK(c, n) /\ c.p \in 0..n /\ Len(c.mem) = n
  BY CursorIs
<1>4. CursorOK(d, n) /\ Wrote(c, bytes, d)
  BY <1>1, <1>2, <1>3, WriteIs
<1>5. PICK m \in Nat : m = Len(bytes)
  BY <1>1
<1>6. \A i \in 1..m : bytes[i] \in Octet
  BY <1>5, ElementOfSeq
<1>7. \A i \in 1..n : c.mem[i] \in Octet
  <2>1. c.mem \in Seq(Octet) /\ Len(c.mem) = n
    BY CursorIs
  <2> QED BY <2>1, ElementOfSeq
<1>8. PICK p \in 0..n : p = c.p
  BY <1>3
<1>9. /\ d.p = p + m
      /\ \A i \in 1..n : i <= p \/ i > p + m => d.mem[i] = c.mem[i]
      /\ \A i \in 1..m : d.mem[p + i] = bytes[i]
  BY <1>3, <1>4, <1>5, <1>8 DEF Wrote
<1>10. ASSUME NEW i \in 1..n PROVE d.mem[i] \in Octet
  <2>1. CASE i <= p \/ i > p + m
    BY <1>7, <1>9, <2>1
  <2>2. CASE ~(i <= p \/ i > p + m)
    <3>1. PICK j : j = i - p
      OBVIOUS
    <3>2. j \in 1..m /\ p + j = i
      BY <2>2, <3>1
    <3> QED BY <1>6, <1>9, <3>2
  <2> QED BY <2>1, <2>2
<1>11. d \in Cursors(n)
  BY <1>4, <1>10, IsCursor
<1>12. \A i \in 1..p : d.mem[i] = c.mem[i]
  <2>1. \A i \in 1..p : i \in 1..n /\ i <= p
    OBVIOUS
  <2> QED BY <1>9, <2>1
<1>13. Put(c, bytes, d)
  BY <1>5, <1>8, <1>9, <1>12 DEF Put
<1> QED BY <1>2, <1>11, <1>13 DEF Gave, Yes, PushSet

LEMMA NoGives ==
  ASSUME NEW n \in Nat, NEW c \in Cursors(n), NEW bytes, c.p + Len(bytes) >= n
  PROVE  Gave(c, n, bytes, No(c))
BY DEF Gave, No, PushSet

LEMMA PushGives ==
  ASSUME NEW n \in Nat, NEW c \in Cursors(n), NEW bytes \in Seq(Octet)
  PROVE  Gave(c, n, bytes, CursorPush(c, bytes))
<1>1. End(c) = n /\ c.p \in 0..n /\ Len(bytes) \in Nat
  BY CursorIs, LenProperties
<1>2. CASE c.p + Len(bytes) >= n
  <2>1. CursorPush(c, bytes) = No(c)
    BY <1>1, <1>2 DEF CursorPush
  <2> QED BY <1>2, <2>1, NoGives
<1>3. CASE ~(c.p + Len(bytes) >= n)
  <2>1. CursorPush(c, bytes) = Yes(Write(c, bytes)) /\ c.p + Len(bytes) <= n
    BY <1>1, <1>3 DEF CursorPush
  <2> QED BY <2>1, WriteGives
<1> QED BY <1>2, <1>3

LEMMA OneIs ==
  ASSUME NEW b \in Octet, NEW one, one = <<b>>
  PROVE  one \in Seq(Octet) /\ Len(one) = 1 /\ one[1] = b /\ IsSeq(one)
<1>1. one \in Seq(Octet) /\ Len(one) = 1 /\ one[1] = b
  BY SMTT(20)
<1> QED BY <1>1, IsSeqOf

LEMMA PushByteGives ==
  ASSUME NEW n \in Nat, NEW c \in Cursors(n), NEW b \in Octet
  PROVE  Gave(c, n, <<b>>, CursorPushByte(c, b))
<1>1. PICK one : one = <<b>>
  OBVIOUS
<1>2. one \in Seq(Octet) /\ Len(one) = 1
  BY <1>1, OneIs
<1>3. End(c) = n /\ c.p \in 0..n
  BY CursorIs
<1>4. CASE c.p + 1 > n
  <2>1. CursorPushByte(c, b) = No(c) /\ c.p + Len(one) >= n
    BY <1>2, <1>3, <1>4 DEF CursorPushByte
  <2> QED BY <1>1, <2>1, NoGives
<1>5. CASE ~(c.p + 1 > n)
  <2>1. CursorPushByte(c, b) = Yes(Write(c, one)) /\ c.p + Len(one) <= n
    BY <1>1, <1>2, <1>3, <1>5 DEF CursorPushByte
  <2> QED BY <1>1, <1>2, <2>1, WriteGives
<1> QED BY <1>4, <1>5

\* One push after another.
LEMMA GaveThen ==
  ASSUME NEW n \in Nat, NEW c \in Cursors(n), NEW a \in Seq(Octet), NEW b \in Seq(Octet),
         NEW x, Gave(c, n, a, x), x.ok, NEW y, Gave(x.c, n, b, y), NEW ab, ab = a \o b
  PROVE  Gave(c, n, ab, y)
<1>1. PICK k \in Nat, m \in Nat : k = Len(a) /\ m = Len(b)
  BY LenProperties
<1>2. /\ Len(ab) = k + m /\ \A i \in 1..k : ab[i] = a[i]
      /\ \A i \in 1..m : ab[k + i] = b[i]
  BY <1>1, BytesJoin
<1>3. PICK p \in 0..n : p = c.p
  BY CursorIs
<1>4. PICK d : d = x.c
  OBVIOUS
<1>5. d.p = p + k /\ (\A i \in 1..p : d.mem[i] = c.mem[i]) /\ \A i \in 1..k : d.mem[p + i] = a[i]
  BY <1>1, <1>3, <1>4 DEF Gave, Put
<1>6. y \in PushSet(n)
  BY DEF Gave
<1>7. CASE ~y.ok
  <2>1. d.p + m >= n
    BY <1>1, <1>4, <1>7 DEF Gave
  <2>2. p + (k + m) >= n
    BY <1>5, <2>1
  <2> QED BY <1>2, <1>3, <1>6, <1>7, <2>2 DEF Gave
<1>8. CASE y.ok
  <2>1. PICK e : e = y.c
    OBVIOUS
  <2>2. /\ e.p = p + k + m /\ \A i \in 1..(p + k) : e.mem[i] = d.mem[i]
        /\ \A i \in 1..m : e.mem[(p + k) + i] = b[i]
    BY <1>1, <1>4, <1>5, <1>8, <2>1 DEF Gave, Put
  <2>3. \A i \in 1..p : e.mem[i] = c.mem[i]
    <3>1. \A i \in 1..p : i \in 1..(p + k)
      OBVIOUS
    <3> QED BY <1>5, <2>2, <3>1
  <2>4. ASSUME NEW i \in 1..(k + m) PROVE e.mem[p + i] = ab[i]
    <3>1. CASE i <= k
      <4>1. i \in 1..k /\ p + i \in 1..(p + k)
        BY <3>1
      <4> QED BY <1>2, <1>5, <2>2, <4>1
    <3>2. CASE ~(i <= k)
      <4>1. PICK j : j = i - k
        OBVIOUS
      <4>2. j \in 1..m /\ (p + k) + j = p + i /\ k + j = i
        BY <3>2, <4>1
      <4>3. e.mem[(p + k) + j] = b[j] /\ ab[k + j] = b[j]
        BY <1>2, <2>2, <4>2
      <4> QED BY <4>2, <4>3
    <3> QED BY <3>1, <3>2
  <2>5. e.p = p + (k + m)
    BY <2>2
  <2>6. Put(c, ab, e)
    BY <1>2, <1>3, <2>3, <2>4, <2>5 DEF Put
  <2> QED BY <1>6, <1>8, <2>1, <2>6 DEF Gave
<1> QED BY <1>7, <1>8

LEMMA GaveNot ==
  ASSUME NEW n \in Nat, NEW c \in Cursors(n), NEW a \in Seq(Octet), NEW b \in Seq(Octet),
         NEW x, Gave(c, n, a, x), ~x.ok, NEW ab, ab = a \o b
  PROVE  Gave(c, n, ab, x)
<1>1. PICK k \in Nat, m \in Nat : k = Len(a) /\ m = Len(b)
  BY LenProperties
<1>2. Len(ab) = k + m
  BY <1>1, BytesJoin
<1>3. PICK p \in 0..n : p = c.p
  BY CursorIs
<1>4. p + k >= n /\ x \in PushSet(n)
  BY <1>1, <1>3 DEF Gave
<1>5. p + (k + m) >= n
  BY <1>4
<1> QED BY <1>2, <1>3, <1>4, <1>5 DEF Gave

LEMMA PushedIs ==
  ASSUME NEW n, NEW x \in PushSet(n)
  PROVE  x.c \in Cursors(n) /\ x.ok \in BOOLEAN
BY DEF PushSet

LEMMA PushCStrGives ==
  ASSUME NEW n \in Nat, NEW c \in Cursors(n), NEW t \in Seq(Octet)
  PROVE  Gave(c, n, t \o <<0>>, CursorPushCStr(c, t))
<1>1. PICK z : z = <<0>>
  OBVIOUS
<1>a. 0 \in Octet
  BY DEF Octet
<1>2. 0 \in Octet /\ z \in Seq(Octet)
  BY <1>1, <1>a, OneIs
<1>3. PICK x : x = CursorPush(c, t)
  OBVIOUS
<1>4. Gave(c, n, t, x)
  BY <1>3, PushGives
<1>5. x.c \in Cursors(n)
  BY <1>4, PushedIs DEF Gave
<1>6. CASE ~x.ok
  <2>1. CursorPushCStr(c, t) = x
    BY <1>3, <1>6 DEF CursorPushCStr
  <2> QED BY <1>1, <1>2, <1>4, <1>6, <2>1, GaveNot
<1>7. CASE x.ok
  <2>1. CursorPushCStr(c, t) = CursorPushByte(x.c, 0)
    BY <1>3, <1>7 DEF CursorPushCStr
  <2>2. Gave(x.c, n, z, CursorPushByte(x.c, 0))
    BY <1>1, <1>2, <1>5, PushByteGives
  <2> QED BY <1>1, <1>2, <1>4, <1>7, <2>1, <2>2, GaveThen
<1> QED BY <1>6, <1>7

\* Byte after byte.
EachStep(x, b) == IF x.ok THEN CursorPushByte(x.c, b) ELSE x

LEMMA EachIs ==
  ASSUME NEW n \in Nat, NEW c \in Cursors(n), NEW bytes \in Seq(Octet)
  PROVE  \E f : /\ f[0] = Yes(c) /\ PushEach(c, bytes) = f[Len(bytes)]
                /\ \A i \in 1..Len(bytes) : f[i] = EachStep(f[i - 1], bytes[i])
<1> DEFINE step == [u \in (1..Len(bytes)) \X PushSet(n) |-> EachStep(u[2], bytes[u[1]])]
           Is(f) == f = [k \in 0..Len(bytes) |->
                           IF k = 0 THEN Yes(c)
                           ELSE IF f[k - 1].ok THEN CursorPushByte(f[k - 1].c, bytes[k])
                           ELSE f[k - 1]]
<1>1. PICK m \in Nat : m = Len(bytes)
  BY LenProperties
<1>2. \A i \in 1..m : bytes[i] \in Octet
  BY <1>1, ElementOfSeq
<1>3. PICK base : base = Yes(c)
  OBVIOUS
<1>4. base \in PushSet(n)
  BY <1>3 DEF PushSet, Yes
<1>5. \A i \in 1..m : \A v \in PushSet(n) :
        step[<<i, v>>] = EachStep(v, bytes[i]) /\ step[<<i, v>>] \in PushSet(n)
  <2> TAKE i \in 1..m
  <2> TAKE v \in PushSet(n)
  <2>1. step[<<i, v>>] = EachStep(v, bytes[i])
    BY <1>1
  <2>2. PICK d : d = v.c
    OBVIOUS
  <2>3. d \in Cursors(n)
    BY <2>2, PushedIs
  <2>4. CursorPushByte(d, bytes[i]) \in PushSet(n)
    <3>1. Gave(d, n, <<bytes[i]>>, CursorPushByte(d, bytes[i]))
      BY <1>2, <2>3, PushByteGives
    <3> QED BY <3>1 DEF Gave
  <2> HIDE DEF step
  <2> QED BY <2>1, <2>2, <2>4 DEF EachStep
<1> HIDE DEF step
<1>6. Closed(step, m, PushSet(n))
  BY <1>5 DEF Closed
<1>7. PICK f : Follows(f, step, m, PushSet(n), base)
  BY <1>1, <1>4, <1>6, Recursion
<1>8. f \in [0..m -> PushSet(n)] /\ f[0] = base /\ \A i \in 1..m : f[i] = step[<<i, f[i - 1]>>]
  BY <1>7 DEF Follows
<1>9. \A i \in 0..m : f[i] = IF i = 0 THEN Yes(c) ELSE EachStep(f[i - 1], bytes[i])
  <2> TAKE i \in 0..m
  <2>1. CASE i = 0
    BY <1>3, <1>8, <2>1
  <2>2. CASE i # 0
    <3>1. i \in 1..m /\ i - 1 \in 0..m
      BY <2>2
    <3>2. f[i] = step[<<i, f[i - 1]>>] /\ f[i - 1] \in PushSet(n)
      BY <1>8, <3>1
    <3> QED BY <1>5, <2>2, <3>1, <3>2
  <2> QED BY <2>1, <2>2
<1>10. f = [i \in 0..m |-> IF i = 0 THEN Yes(c) ELSE EachStep(f[i - 1], bytes[i])]
  BY <1>8, <1>9
<1>11. Is(f)
  BY <1>1, <1>10, Zenon DEF EachStep
<1>12. PushEach(c, bytes) = (CHOOSE g : Is(g))[Len(bytes)]
  BY Zenon DEF PushEach
<1>13. PICK g : g = CHOOSE h : Is(h)
  OBVIOUS
<1>14. Is(g)
  <2> HIDE DEF Is
  <2> QED BY <1>11, <1>13
<1>15. g = [i \in 0..m |-> IF i = 0 THEN Yes(c) ELSE EachStep(g[i - 1], bytes[i])]
  BY <1>1, <1>14, Zenon DEF EachStep
<1>16. \A i \in 0..m : g[i] = IF i = 0 THEN Yes(c) ELSE EachStep(g[i - 1], bytes[i])
  BY <1>15, Zenon
<1>17. 0 \in 0..m /\ \A i \in 1..m : i \in 0..m /\ i # 0
  BY <1>1
<1>18. g[0] = Yes(c) /\ \A i \in 1..m : g[i] = EachStep(g[i - 1], bytes[i])
  BY <1>16, <1>17, Zenon
<1> QED BY <1>1, <1>12, <1>13, <1>18

LEMMA JoinOne ==
  ASSUME NEW a \in Seq(Octet), NEW one \in Seq(Octet), Len(one) = 1, NEW k, k = Len(a) + 1
  PROVE  /\ a \o one \in Seq(Octet) /\ Len(a \o one) = k
         /\ \A i \in 1..Len(a) : (a \o one)[i] = a[i]
         /\ (a \o one)[k] = one[1]
<1>1. a \o one \in Seq(Octet) /\ Len(a \o one) = Len(a) + Len(one)
  BY BytesJoin
<1>2. \A i \in 1..Len(a) : (a \o one)[i] = a[i]
  BY BytesJoin
<1>3. (a \o one)[k] = one[1]
  <2>1. \A i \in 1..Len(one) : (a \o one)[Len(a) + i] = one[i]
    BY BytesJoin
  <2>2. 1 \in 1..Len(one)
    OBVIOUS
  <2> QED BY <2>1, <2>2
<1> QED BY <1>1, <1>2, <1>3

\* The first bytes of a sequence, and one byte more.
LEMMA FirstMore ==
  ASSUME NEW s \in Seq(Octet), NEW k \in Nat, NEW j, j = k + 1, j <= Len(s),
         NEW one \in Seq(Octet), Len(one) = 1, one[1] = s[j]
  PROVE  SubSeq(s, 1, k) \in Seq(Octet) /\ SubSeq(s, 1, j) = SubSeq(s, 1, k) \o one
<1>1. Len(s) \in Nat /\ j \in 1..Len(s)
  BY LenProperties
<1>4. PICK a, b : a = SubSeq(s, 1, k) /\ b = SubSeq(s, 1, j)
  OBVIOUS
<1>5. a \in Seq(Octet) /\ Len(a) = k /\ \A i \in 1..k : a[i] = s[i]
  BY <1>1, <1>4, FirstBytes
<1>6. b \in Seq(Octet) /\ Len(b) = j /\ \A i \in 1..j : b[i] = s[i]
  BY <1>4, FirstBytes
<1>7. PICK d : d = a \o one
  OBVIOUS
<1>8. /\ d \in Seq(Octet) /\ Len(d) = j /\ \A i \in 1..k : d[i] = a[i]
      /\ d[j] = s[j]
  <2>1. a \in Seq(Octet) /\ j = Len(a) + 1
    BY <1>5
  <2>2. d \in Seq(Octet) /\ Len(d) = j /\ (\A i \in 1..Len(a) : d[i] = a[i]) /\ d[j] = one[1]
    BY <1>7, <2>1, JoinOne
  <2> QED BY <1>5, <2>2
<1>9. \A i \in 1..j : b[i] = d[i]
  <2> TAKE i \in 1..j
  <2>1. i \in 1..k \/ i = j
    OBVIOUS
  <2> QED BY <1>5, <1>6, <1>8, <2>1
<1>10. b = d
  BY <1>6, <1>8, <1>9, SameBytes
<1> QED BY <1>4, <1>5, <1>7, <1>10

LEMMA AllOf ==
  ASSUME NEW s \in Seq(Octet), NEW n, n = Len(s)
  PROVE  SubSeq(s, 1, n) = s
<1>1. n \in Nat
  BY LenProperties
<1>2. PICK a : a = SubSeq(s, 1, n)
  OBVIOUS
<1>3. a \in Seq(Octet) /\ Len(a) = n /\ \A i \in 1..n : a[i] = s[i]
  BY <1>1, <1>2, FirstBytes
<1> QED BY <1>2, <1>3, SameBytes

\* Nothing written yet.
LEMMA GaveNothing ==
  ASSUME NEW n \in Nat, NEW c \in Cursors(n), NEW e, e = <<>>
  PROVE  Gave(c, n, e, Yes(c))
<1>1. Len(e) = 0
  OBVIOUS
<1>2. c.p \in 0..n
  BY CursorIs
<1>3. Put(c, e, c)
  BY <1>1, <1>2 DEF Put
<1> QED BY <1>3 DEF Gave, Yes, PushSet

LEMMA PushEachGives ==
  ASSUME NEW n \in Nat, NEW c \in Cursors(n), NEW bytes \in Seq(Octet)
  PROVE  Gave(c, n, bytes, PushEach(c, bytes))
<1>1. PICK m \in Nat : m = Len(bytes)
  BY LenProperties
<1>2. PICK f : /\ f[0] = Yes(c) /\ PushEach(c, bytes) = f[m]
               /\ \A i \in 1..m : f[i] = EachStep(f[i - 1], bytes[i])
  BY <1>1, EachIs
<1> DEFINE I == {k \in 0..m : Gave(c, n, SubSeq(bytes, 1, k), f[k])}
<1>3. 0 \in I
  <2>1. PICK e : e = SubSeq(bytes, 1, 0)
    OBVIOUS
  <2>2. e = <<>>
    <3>1. 0 <= Len(bytes)
      BY <1>1
    <3>2. e \in Seq(Octet) /\ Len(e) = 0
      BY <2>1, <3>1, FirstBytes
    <3> QED BY <3>2
  <2>3. Gave(c, n, e, f[0])
    BY <1>2, <2>2, GaveNothing
  <2> QED BY <1>1, <2>1, <2>3
<1>4. ASSUME NEW k \in 0..(m - 1), k \in I PROVE k + 1 \in I
  <2>1. PICK j : j = k + 1
    OBVIOUS
  <2>2. j \in 1..m /\ j \in 0..m /\ j - 1 = k /\ k \in Nat
    BY <2>1
  <2>3. PICK one : one = <<bytes[j]>>
    OBVIOUS
  <2>4. PICK a : a = SubSeq(bytes, 1, k)
    OBVIOUS
  <2>5. /\ bytes[j] \in Octet /\ one \in Seq(Octet) /\ a \in Seq(Octet)
        /\ SubSeq(bytes, 1, j) = a \o one
    <3>1. bytes[j] \in Octet
      BY <1>1, <2>2, ElementOfSeq
    <3>2. one \in Seq(Octet) /\ Len(one) = 1 /\ one[1] = bytes[j]
      BY <2>3, <3>1, OneIs
    <3>3. j <= Len(bytes)
      BY <1>1, <2>2
    <3> QED BY <2>1, <2>2, <2>4, <3>1, <3>2, <3>3, FirstMore
  <2>6. PICK x : x = f[k]
    OBVIOUS
  <2>7. Gave(c, n, a, x) /\ f[j] = EachStep(x, bytes[j])
    BY <1>2, <1>4, <2>2, <2>4, <2>6
  <2>8. x.c \in Cursors(n) /\ x.ok \in BOOLEAN
    BY <2>7, PushedIs DEF Gave
  <2>9. CASE x.ok
    <3>1. f[j] = CursorPushByte(x.c, bytes[j])
      BY <2>7, <2>9 DEF EachStep
    <3>2. Gave(x.c, n, one, f[j])
      BY <2>3, <2>5, <2>8, <3>1, PushByteGives
    <3>3. Gave(c, n, SubSeq(bytes, 1, j), f[j])
      BY <2>5, <2>7, <2>9, <3>2, GaveThen
    <3> QED BY <2>1, <2>2, <3>3
  <2>10. CASE ~x.ok
    <3>1. f[j] = x
      BY <2>7, <2>10 DEF EachStep
    <3>2. Gave(c, n, SubSeq(bytes, 1, j), x)
      BY <2>5, <2>7, <2>10, GaveNot
    <3> QED BY <2>1, <2>2, <3>1, <3>2
  <2> QED BY <2>8, <2>9, <2>10
<1> HIDE DEF I
<1>5. \A k \in 0..m : k \in I
  BY <1>3, <1>4, Induct
<1>6. m \in I
  BY <1>5
<1>7. SubSeq(bytes, 1, m) = bytes
  BY <1>1, AllOf
<1> QED BY <1>2, <1>6, <1>7 DEF I

-----------------------------------------------------------------------------
(* The bytes of an item *)

LEMMA PutIs ==
  ASSUME NEW v \in Number
  PROVE  /\ BigsizePut(v) \in Seq(Octet) /\ Len(BigsizePut(v)) = BigsizeLen(v)
         /\ BigsizeLen(v) \in {1, 3, 5, 9}
<1>1. CASE OneByte(v) /\ BigsizePut(v) = Low(v, 1) /\ BigsizeLen(v) = 1
  BY <1>1, LowIs
<1>2. ASSUME NEW k \in {2, 4, 8}, BigsizePut(v) = <<Mark(k)>> \o Low(v, k), BigsizeLen(v) = k + 1
      PROVE  /\ BigsizePut(v) \in Seq(Octet) /\ Len(BigsizePut(v)) = BigsizeLen(v)
             /\ BigsizeLen(v) \in {1, 3, 5, 9}
  <2>1. PICK low : low = Low(v, k)
    OBVIOUS
  <2>2. low \in Seq(Octet) /\ Len(low) = k
    <3>1. k \in {1, 2, 4, 8}
      OBVIOUS
    <3> QED BY <2>1, <3>1, LowIs
  <2>3. PICK mark : mark = Mark(k)
    OBVIOUS
  <2>4. mark \in Octet
    BY <2>3 DEF Mark, Octet
  <2>5. <<mark>> \o low \in Seq(Octet) /\ Len(<<mark>> \o low) = k + 1
    BY <2>2, <2>4, MarkedAlone
  <2>6. k + 1 \in {1, 3, 5, 9}
    OBVIOUS
  <2> QED BY <1>2, <2>1, <2>3, <2>5, <2>6
<1> QED BY <1>1, <1>2, PutForms

\* A sequence backwards.
LEMMA ReverseIs ==
  ASSUME NEW s \in Seq(Octet), NEW n, n = Len(s)
  PROVE  /\ n \in Nat /\ Reverse(s) \in Seq(Octet) /\ Len(Reverse(s)) = n
         /\ \A i \in 1..n : Reverse(s)[i] = s[n - i + 1]
<1>1. n \in Nat
  BY LenProperties
<1>2. PICK S : S = Octet
  OBVIOUS
<1>3. \A i \in 1..n : s[i] \in S
  BY <1>2, ElementOfSeq
<1>4. PICK t : t = [i \in 1..n |-> s[n - i + 1]]
  OBVIOUS
<1>5. Reverse(s) = t
  BY <1>4, Zenon DEF Reverse
<1>6. \A i \in 1..n : n - i + 1 \in 1..n
  BY <1>1
<1>7. t \in [1..n -> S]
  BY <1>3, <1>4, <1>6
<1>8. t \in Seq(S) /\ Len(t) = n
  BY <1>1, <1>7, SeqDef
<1>9. \A i \in 1..n : t[i] = s[n - i + 1]
  BY <1>4
<1> QED BY <1>1, <1>2, <1>5, <1>8, <1>9

\* A bigsize with its bytes turned round: the first, then the others from the
\* last on.
LEMMA TurnedIs ==
  ASSUME NEW v \in Number
  PROVE  /\ VarintPut(v) \in Seq(Octet) /\ Len(VarintPut(v)) = BigsizeLen(v)
         /\ VarintPut(v)[1] = BigsizePut(v)[1]
         /\ \A i \in 2..BigsizeLen(v) : VarintPut(v)[i] = BigsizePut(v)[BigsizeLen(v) + 2 - i]
<1>1. PICK b, n : b = BigsizePut(v) /\ n = BigsizeLen(v)
  OBVIOUS
<1>2. b \in Seq(Octet) /\ Len(b) = n /\ n \in Nat /\ n >= 1
  BY <1>1, PutIs
<1>3. PICK one : one = SubSeq(b, 1, 1)
  OBVIOUS
<1>4. one \in Seq(Octet) /\ Len(one) = 1 /\ one[1] = b[1]
  BY <1>2, <1>3, FirstBytes
<1>5. PICK tail : tail = Tail(b)
  OBVIOUS
<1>6. tail \in Seq(Octet) /\ Len(tail) = n - 1 /\ \A i \in 1..(n - 1) : tail[i] = b[i + 1]
  <2>1. b # <<>>
    <3>1. Len(<<>>) = 0
      OBVIOUS
    <3> QED BY <1>2, <3>1
  <2> QED BY <1>2, <1>5, <2>1, HeadTailProperties
<1>7. PICK back : back = Reverse(tail)
  OBVIOUS
<1>8. /\ back \in Seq(Octet) /\ Len(back) = n - 1
      /\ \A i \in 1..(n - 1) : back[i] = tail[(n - 1) - i + 1]
  <2>1. PICK k : k = n - 1
    OBVIOUS
  <2>2. /\ back \in Seq(Octet) /\ Len(back) = k /\ \A i \in 1..k : back[i] = tail[k - i + 1]
    BY <1>6, <1>7, <2>1, ReverseIs
  <2> QED BY <2>1, <2>2
<1>9. PICK d : d = one \o back
  OBVIOUS
<1>10. VarintPut(v) = d
  BY <1>1, <1>3, <1>5, <1>7, <1>9 DEF VarintPut
<1>11. /\ d \in Seq(Octet) /\ Len(d) = n /\ d[1] = b[1]
       /\ \A i \in 1..(n - 1) : d[1 + i] = back[i]
  <2>1. /\ d \in Seq(Octet) /\ Len(d) = Len(one) + Len(back)
        /\ \A i \in 1..Len(one) : d[i] = one[i]
        /\ \A i \in 1..Len(back) : d[Len(one) + i] = back[i]
    BY <1>4, <1>8, <1>9, BytesJoin
  <2>2. 1 \in 1..1 /\ 1 + (n - 1) = n
    BY <1>2
  <2> QED BY <1>4, <1>8, <2>1, <2>2
<1>12. ASSUME NEW i \in 2..n PROVE d[i] = b[n + 2 - i]
  <2>1. PICK j : j = i - 1
    OBVIOUS
  <2>2. j \in 1..(n - 1) /\ 1 + j = i
    BY <1>2, <2>1
  <2>3. PICK k : k = (n - 1) - j + 1
    OBVIOUS
  <2>4. k \in 1..(n - 1) /\ k + 1 = n + 2 - i
    BY <1>2, <2>1, <2>2, <2>3
  <2>5. d[1 + j] = back[j] /\ back[j] = tail[k] /\ tail[k] = b[k + 1]
    BY <1>6, <1>8, <1>11, <2>2, <2>3, <2>4
  <2> QED BY <2>2, <2>4, <2>5
<1> QED BY <1>1, <1>10, <1>11, <1>12

-----------------------------------------------------------------------------
(* Small numbers as bytes *)

\* What fits into 16 bits, and ints that are not negative.
Word == UpTo(65535)
Small == UpTo(2147483647)

LEMMA RoomIs == StrRoom \in Small
BY CodecAssumption, SMT DEF Small

LEMMA Low16 ==
  ASSUME NEW n \in Word
  PROVE  /\ Byte(n, 1) \in Octet /\ Byte(n, 0) \in Octet /\ Byte(n, 2) = 0 /\ Byte(n, 3) = 0
         /\ Byte(n, 1) * 256 + Byte(n, 0) = n
<1>1. /\ Byte(n, 0) = (n \div 1) % 256 /\ Byte(n, 1) = (n \div 256) % 256
      /\ Byte(n, 2) = (n \div 65536) % 256 /\ Byte(n, 3) = (n \div 16777216) % 256
  BY SMT DEF Byte
<1>0. n \in Nat /\ n < 65536
  BY SMT DEF Word, UpTo
<1>2. n \div 1 = n /\ n \div 65536 = 0 /\ n \div 16777216 = 0
  BY <1>0, SMT
<1>3. PICK q : q = n \div 256
  OBVIOUS
<1>4. q \in 0..255 /\ n = q * 256 + (n % 256) /\ n % 256 \in 0..255
  BY <1>0, <1>3, SMT
<1>5. q % 256 = q /\ 0 % 256 = 0
  BY <1>4
<1> QED BY <1>1, <1>2, <1>3, <1>4, <1>5, SMT DEF Octet

LEMMA Be16Is ==
  ASSUME NEW n \in Word
  PROVE  Be16(n) \in Seq(Octet) /\ Len(Be16(n)) = 2 /\ FromBe16(Be16(n)) = n
<1>1. PICK a, b : a = Byte(n, 1) /\ b = Byte(n, 0)
  OBVIOUS
<1>2. a \in Octet /\ b \in Octet /\ a * 256 + b = n
  BY <1>1, Low16
<1>3. PICK S : S = Octet
  OBVIOUS
<1>4. <<a, b>> \in Seq(S) /\ Len(<<a, b>>) = 2 /\ <<a, b>>[1] = a /\ <<a, b>>[2] = b
  BY <1>2, <1>3
<1>5. Be16(n) = <<a, b>>
  BY <1>1 DEF Be16
<1> QED BY <1>2, <1>3, <1>4, <1>5 DEF FromBe16

LEMMA U64Is ==
  ASSUME NEW n \in Word
  PROVE  U64(n) \in Number /\ FromBe16(Low(U64(n), 2)) = n
<1>1. PICK a, b : a = Byte(n, 1) /\ b = Byte(n, 0)
  OBVIOUS
<1>2. a \in Octet /\ b \in Octet /\ a * 256 + b = n
  BY <1>1, Low16
<1>3. PICK S : S = Octet
  OBVIOUS
<1>4. PICK v : v = <<0, 0, 0, 0, 0, 0, a, b>>
  OBVIOUS
<1>5. 0 \in S /\ a \in S /\ b \in S
  BY <1>2, <1>3 DEF Octet
<1>6. v \in Seq(S) /\ Len(v) = 8 /\ v[7] = a /\ v[8] = b
  BY <1>4, <1>5
<1>7. v \in Number
  BY <1>3, <1>6 DEF Number
<1>8. U64(n) = v
  BY <1>1, <1>4, Low16 DEF U64
<1>9. PICK low : low = Low(v, 2)
  OBVIOUS
<1>10. low[1] = v[7] /\ low[2] = v[8]
  <2>1. \A i \in 1..2 : low[i] = v[8 - 2 + i]
    BY <1>7, <1>9, LowIs
  <2>2. 1 \in 1..2 /\ 2 \in 1..2 /\ 8 - 2 + 1 = 7 /\ 8 - 2 + 2 = 8
    OBVIOUS
  <2> QED BY <2>1, <2>2
<1>11. FromBe16(low) = n
  BY <1>2, <1>6, <1>10 DEF FromBe16
<1> QED BY <1>7, <1>8, <1>9, <1>11

\* The groups of seven bits of a number, the count of which is g.
Sized(n, g) ==
  /\ g \in 1..5
  /\ g = 1 \/ n >= Sevens[g]
  /\ g = 5 \/ n < Sevens[g + 1]

LEMMA SevensAre ==
  /\ Sevens[1] = 1 /\ Sevens[2] = 128 /\ Sevens[3] = 16384 /\ Sevens[4] = 2097152
  /\ Sevens[5] = 268435456
BY SMT DEF Sevens

LEMMA GroupsAre ==
  ASSUME NEW n \in Small
  PROVE  \E g : Sized(n, g) /\ Cardinality({i \in 1..5 : i = 1 \/ n >= Sevens[i]}) = g
<1>0. n \in Nat
  BY SMT DEF Small, UpTo
<1>1. PICK g \in 1..5 : /\ g = 1 \/ n >= Sevens[g]
                        /\ g = 5 \/ n < Sevens[g + 1]
  <2>1. CASE n < 128
    BY <1>0, <2>1, SevensAre, SMT
  <2>2. CASE n >= 128 /\ n < 16384
    BY <1>0, <2>2, SevensAre, SMT
  <2>3. CASE n >= 16384 /\ n < 2097152
    BY <1>0, <2>3, SevensAre, SMT
  <2>4. CASE n >= 2097152 /\ n < 268435456
    BY <1>0, <2>4, SevensAre, SMT
  <2>5. CASE n >= 268435456
    BY <1>0, <2>5, SevensAre, SMT
  <2> QED BY <1>0, <2>1, <2>2, <2>3, <2>4, <2>5, SMT
<1>2. {i \in 1..5 : i = 1 \/ n >= Sevens[i]} = 1..g
  <2>1. ASSUME NEW i \in 1..5 PROVE (i = 1 \/ n >= Sevens[i]) <=> i <= g
    <3>1. i = 1 \/ i = 2 \/ i = 3 \/ i = 4 \/ i = 5
      OBVIOUS
    <3>2. g = 1 \/ g = 2 \/ g = 3 \/ g = 4 \/ g = 5
      BY <1>1
    <3> QED BY <1>0, <1>1, <3>1, <3>2, SevensAre, SMT
  <2>2. \A i : i \in 1..g <=> i \in 1..5 /\ i <= g
    BY <1>1
  <2> QED BY <2>1, <2>2
<1>3. Cardinality(1..g) = g
  <2>1. Cardinality(1..g) = IF 1 > g THEN 0 ELSE g - 1 + 1
    BY <1>1, FS_Interval
  <2> QED BY <1>1, <2>1
<1> QED BY <1>1, <1>2, <1>3 DEF Sized

Group(n, i) == (n \div Sevens[i]) % 128

LEMMA VarintIs ==
  ASSUME NEW n \in Small
  PROVE  \E g : /\ Sized(n, g)
                /\ VarintBytes(n) \in Seq(Octet) /\ Len(VarintBytes(n)) = g
                /\ \A i \in 1..g : VarintBytes(n)[i] = Group(n, i) + (IF i < g THEN 128 ELSE 0)
<1>1. PICK g : Sized(n, g) /\ Cardinality({i \in 1..5 : i = 1 \/ n >= Sevens[i]}) = g
  BY GroupsAre
<1>0. n \in Nat
  BY SMT DEF Small, UpTo
<1>2. g \in 1..5
  BY <1>1 DEF Sized
<1>3. PICK b : b = [i \in 1..g |-> Group(n, i) + (IF i < g THEN 128 ELSE 0)]
  OBVIOUS
<1>4. VarintBytes(n) = b
  BY <1>1, <1>3 DEF VarintBytes, Group
<1>5. ASSUME NEW i \in 1..g PROVE Group(n, i) + (IF i < g THEN 128 ELSE 0) \in Octet
  <2>1. i = 1 \/ i = 2 \/ i = 3 \/ i = 4 \/ i = 5
    BY <1>2
  <2>2. PICK s \in {1, 128, 16384, 2097152, 268435456} : s = Sevens[i]
    BY <2>1, SevensAre, SMT
  <2>3. PICK q \in Nat : q = n \div s
    BY <1>0, <2>2, SMT
  <2>4. q % 128 \in 0..127
    BY <2>3
  <2>5. Group(n, i) \in 0..127
    BY <2>2, <2>3, <2>4, SMT DEF Group
  <2> QED BY <2>5 DEF Octet
<1>6. PICK S : S = Octet
  OBVIOUS
<1>7. b \in [1..g -> S]
  BY <1>3, <1>5, <1>6
<1>8. b \in Seq(S) /\ Len(b) = g
  BY <1>2, <1>7, SeqDef, LenProperties
<1> QED BY <1>1, <1>3, <1>4, <1>6, <1>8

-----------------------------------------------------------------------------
(* The bytes of an item, and that a push writes them *)

Enc(item) ==
  CASE item.kind = "byte"    -> item.v
    [] item.kind = "u16"     -> Be16(item.v[1])
    [] item.kind = "cstr"    -> item.v \o <<0>>
    [] item.kind = "varint"  -> VarintBytes(item.v[1])
    [] item.kind = "bigsize" -> BigsizePut(item.v)
    [] item.kind = "compact" -> VarintPut(item.v)
    [] item.kind = "pstr"    -> VarintBytes(Len(item.v)) \o item.v
    [] item.kind = "tlv"     -> (BigsizePut(SubSeq(item.v, 1, 8)) \o BigsizePut(U64(Len(item.v) - 8)))
                                \o SubSeq(item.v, 9, Len(item.v))
    [] OTHER                 -> item.v

LEMMA PstrGives ==
  ASSUME NEW n \in Nat, NEW c \in Cursors(n), NEW str \in Seq(Octet), Len(str) \in Small
  PROVE  Gave(c, n, VarintBytes(Len(str)) \o str, PushPrefixedStr(c, str))
<1>1. PICK a, x : a = VarintBytes(Len(str)) /\ x = PushEach(c, a)
  OBVIOUS
<1>2. a \in Seq(Octet)
  BY <1>1, VarintIs
<1>3. Gave(c, n, a, x)
  BY <1>1, <1>2, PushEachGives
<1>4. PICK ab : ab = a \o str
  OBVIOUS
<1>5. CASE x.ok
  <2>1. PICK y : y = CursorPush(x.c, str)
    OBVIOUS
  <2>2. x.c \in Cursors(n)
    BY <1>3, PushedIs DEF Gave
  <2>3. Gave(x.c, n, str, y)
    BY <2>1, <2>2, PushGives
  <2>4. Gave(c, n, ab, y)
    BY <1>2, <1>3, <1>4, <1>5, <2>3, GaveThen
  <2>5. PushPrefixedStr(c, str) = y
    BY <1>1, <1>5, <2>1 DEF PushPrefixedStr
  <2> QED BY <1>1, <1>4, <2>4, <2>5
<1>6. CASE ~x.ok
  <2>1. Gave(c, n, ab, x)
    BY <1>2, <1>3, <1>4, <1>6, GaveNot
  <2>2. PushPrefixedStr(c, str) = x
    BY <1>1, <1>6 DEF PushPrefixedStr
  <2> QED BY <1>1, <1>4, <2>1, <2>2
<1> QED BY <1>5, <1>6

LEMMA TlvGives ==
  ASSUME NEW n \in Nat, NEW c \in Cursors(n), NEW type \in Number, NEW value \in Seq(Octet),
         Len(value) \in Word
  PROVE  Gave(c, n, (BigsizePut(type) \o BigsizePut(U64(Len(value)))) \o value,
              PushTlv(c, type, value))
<1>1. PICK a, b : a = BigsizePut(type) /\ b = BigsizePut(U64(Len(value)))
  OBVIOUS
<1>2. a \in Seq(Octet) /\ b \in Seq(Octet)
  BY <1>1, PutIs, U64Is
<1>3. PICK ab : ab = a \o b
  OBVIOUS
<1>4. ab \in Seq(Octet)
  BY <1>2, <1>3, BytesJoin
<1>5. PICK all : all = ab \o value
  OBVIOUS
<1>6. PICK x : x = CursorPush(c, a)
  OBVIOUS
<1>7. PICK y : y = CursorPush(x.c, b)
  OBVIOUS
<1>8. PICK z : z = CursorPush(y.c, value)
  OBVIOUS
<1>9. PushTlv(c, type, value) = IF ~x.ok THEN x ELSE IF ~y.ok THEN y ELSE z
  BY <1>1, <1>6, <1>7, <1>8 DEF PushTlv
<1>10. Gave(c, n, a, x) /\ x.c \in Cursors(n)
  <2>1. Gave(c, n, a, x)
    BY <1>2, <1>6, PushGives
  <2> QED BY <2>1, PushedIs DEF Gave
<1>11. CASE ~x.ok
  <2>1. Gave(c, n, ab, x)
    BY <1>2, <1>3, <1>10, <1>11, GaveNot
  <2>2. Gave(c, n, all, x)
    BY <1>4, <1>5, <1>11, <2>1, GaveNot
  <2> QED BY <1>1, <1>3, <1>5, <1>9, <1>11, <2>2
<1>12. CASE x.ok
  <2>1. Gave(x.c, n, b, y) /\ y.c \in Cursors(n)
    <3>1. Gave(x.c, n, b, y)
      BY <1>2, <1>7, <1>10, PushGives
    <3> QED BY <3>1, PushedIs DEF Gave
  <2>2. Gave(c, n, ab, y)
    BY <1>2, <1>3, <1>10, <1>12, <2>1, GaveThen
  <2>3. CASE ~y.ok
    <3>1. Gave(c, n, all, y)
      BY <1>4, <1>5, <2>2, <2>3, GaveNot
    <3> QED BY <1>1, <1>3, <1>5, <1>9, <1>12, <2>3, <3>1
  <2>4. CASE y.ok
    <3>1. Gave(y.c, n, value, z)
      BY <1>8, <2>1, PushGives
    <3>2. Gave(c, n, all, z)
      BY <1>4, <1>5, <2>2, <2>4, <3>1, GaveThen
    <3> QED BY <1>1, <1>3, <1>5, <1>9, <1>12, <2>4, <3>2
  <2> QED BY <2>3, <2>4
<1> QED BY <1>11, <1>12

\* What is allowed of each kind.
LEMMA AllowedIs ==
  ASSUME NEW item, Allowed(item), NEW v, v = item.v
  PROVE  /\ item.kind \in {"byte", "u16", "varint", "u64", "bigsize", "compact", "data", "cstr",
                           "pstr", "tlv"}
         /\ item.kind = "byte" => Len(v) = 1 /\ v \in Seq(Octet)
         /\ item.kind = "u16" => Len(v) = 1 /\ v[1] \in Word
         /\ item.kind = "varint" => Len(v) = 1 /\ v[1] \in Small
         /\ item.kind \in {"u64", "bigsize", "compact"} => v \in Number
         /\ item.kind = "data" => v \in Seq(Octet)
         /\ item.kind = "cstr" => v \in Seq(1..255)
         /\ item.kind = "pstr" => v \in Seq(Octet) /\ Len(v) <= StrRoom
         /\ item.kind = "tlv" => v \in Seq(Octet) /\ Len(v) >= 8 /\ Len(v) - 8 \in Word
<1>1. PICK k : k = item.kind
  OBVIOUS
<1>a. PICK O : O = 0..255
  OBVIOUS
<1>b. PICK W : W = UpTo(65535)
  BY SMT
<1>c. PICK S : S = UpTo(2147483647)
  BY SMT
<1>2. O = 0..255 /\ W = UpTo(65535) /\ S = UpTo(2147483647)
  BY <1>a, <1>b, <1>c, SMT
<1>3. CASE k \in {"u64", "bigsize", "compact"}
  BY <1>1, <1>2, <1>3, SMT DEF Allowed, Number, Octet
<1>4. CASE k = "byte"
  BY <1>1, <1>2, <1>4, SMT DEF Allowed, Octet
<1>5. CASE k = "u16"
  <2>1. Len(v) = 1 /\ v \in Seq(W)
    BY <1>1, <1>2, <1>5, SMT DEF Allowed
  <2>2. v[1] \in W
    BY <2>1, SMT
  <2> QED BY <1>1, <1>2, <1>5, <2>1, <2>2, SMT DEF Word
<1>6. CASE k = "varint"
  <2>1. Len(v) = 1 /\ v \in Seq(S)
    BY <1>1, <1>2, <1>6, SMT DEF Allowed
  <2>2. v[1] \in S
    BY <2>1, SMT
  <2> QED BY <1>1, <1>2, <1>6, <2>1, <2>2, SMT DEF Small
<1>7. CASE k = "data"
  BY <1>1, <1>2, <1>7, SMT DEF Allowed, Octet
<1>8. CASE k = "cstr"
  BY <1>1, <1>2, <1>8, SMT DEF Allowed
<1>9. CASE k = "pstr"
  BY <1>1, <1>2, <1>9, SMT DEF Allowed, Octet
<1>10. CASE k = "tlv"
  <2>1. v \in Seq(O) /\ Len(v) >= 8 /\ Len(v) <= 65543
    BY <1>1, <1>2, <1>10, SMT DEF Allowed
  <2>2. Len(v) \in Nat
    BY <2>1, SMT
  <2>3. Len(v) - 8 \in Word
    BY <2>1, <2>2, SMT DEF Word, UpTo
  <2> QED BY <1>1, <1>2, <1>10, <2>1, <2>3, SMT DEF Octet
<1>11. k \in {"byte", "u16", "varint", "u64", "bigsize", "compact", "data", "cstr", "pstr", "tlv"}
  BY <1>1, SMT DEF Allowed
<1> QED BY <1>3, <1>4, <1>5, <1>6, <1>7, <1>8, <1>9, <1>10, <1>11, SMT

\* The two parts of what a TLV says: its type, and its value.
LEMMA TlvParts ==
  ASSUME NEW v \in Seq(Octet), Len(v) >= 8, NEW type, type = SubSeq(v, 1, 8),
         NEW value, value = SubSeq(v, 9, Len(v))
  PROVE  /\ type \in Number /\ value \in Seq(Octet) /\ Len(value) = Len(v) - 8
         /\ v = type \o value
<1>1. PICK m \in Nat : Len(v) = 8 + m
  <2>1. Len(v) \in Nat /\ Len(v) - 8 \in Nat /\ Len(v) = 8 + (Len(v) - 8)
    BY LenProperties
  <2> QED BY <2>1
<1>2. type \in Seq(Octet) /\ Len(type) = 8 /\ \A i \in 1..8 : type[i] = v[i]
  BY FirstBytes
<1>3. IsSeq(v)
  BY IsSeqOf
<1>4. PICK lo, hi : lo = 9 /\ hi = Len(v)
  OBVIOUS
<1>5. IsPiece(SubSeq(v, lo, hi), v, 8, m)
  <2>1. lo = 8 + 1 /\ hi = 8 + m /\ 8 + m <= Len(v)
    BY <1>1, <1>4
  <2> QED BY <1>3, <2>1, Piece
<1>6. IsSeq(value) /\ Len(value) = m /\ \A i \in 1..m : value[i] = v[8 + i]
  BY <1>4, <1>5 DEF IsPiece
<1>7. value \in Seq(Octet)
  <2>1. \A i \in 1..m : value[i] \in Octet
    <3> TAKE i \in 1..m
    <3>1. PICK j : j = 8 + i
      OBVIOUS
    <3>2. j \in 1..Len(v)
      BY <1>1, <3>1
    <3> QED BY <1>6, <3>1, <3>2, ElementOfSeq
  <2>2. PICK S : S = Octet
    OBVIOUS
  <2>3. value = [i \in 1..m |-> value[i]]
    BY <1>6 DEF IsSeq
  <2>4. value \in [1..m -> S]
    BY <2>1, <2>2, <2>3
  <2> QED BY <2>2, <2>4, SeqDef
<1>8. v = type \o value
  <2>1. PICK d : d = type \o value
    OBVIOUS
  <2>2. /\ d \in Seq(Octet) /\ Len(d) = Len(type) + Len(value)
        /\ \A i \in 1..Len(type) : d[i] = type[i]
        /\ \A i \in 1..Len(value) : d[Len(type) + i] = value[i]
    BY <1>2, <1>7, <2>1, BytesJoin
  <2>3. Len(d) = 8 + m /\ (\A i \in 1..8 : d[i] = v[i]) /\ \A i \in 1..m : d[8 + i] = v[8 + i]
    BY <1>2, <1>6, <2>2
  <2>4. ASSUME NEW i \in 1..(8 + m) PROVE d[i] = v[i]
    <3>1. CASE i <= 8
      BY <2>3, <3>1
    <3>2. CASE ~(i <= 8)
      <4>1. PICK j : j = i - 8
        OBVIOUS
      <4>2. j \in 1..m /\ 8 + j = i
        BY <3>2, <4>1
      <4> QED BY <2>3, <4>2
    <3> QED BY <3>1, <3>2
  <2> QED BY <1>1, <2>1, <2>2, <2>3, <2>4, SameBytes
<1>9. type \in Number
  BY <1>2 DEF Number
<1> QED BY <1>1, <1>6, <1>7, <1>8, <1>9

\* A string without a zero is a string.
LEMMA NoZeroIs ==
  ASSUME NEW v \in Seq(1..255)
  PROVE  v \in Seq(Octet) /\ \A i \in 1..Len(v) : v[i] # 0
<1>1. PICK Z : Z = 1..255
  OBVIOUS
<1>2. \A z \in Z : z \in Octet /\ z # 0
  BY <1>1 DEF Octet
<1>3. v \in Seq(Z)
  BY <1>1
<1>4. \A i \in 1..Len(v) : v[i] \in Z
  BY <1>3, ElementOfSeq
<1>5. PICK S : S = Octet
  OBVIOUS
<1>6. v \in Seq(S)
  <2>1. Len(v) \in Nat /\ v = [i \in 1..Len(v) |-> v[i]]
    BY <1>3
  <2>2. v \in [1..Len(v) -> S]
    BY <1>2, <1>4, <1>5, <2>1
  <2> QED BY <2>1, <2>2, SeqDef
<1> QED BY <1>2, <1>4, <1>5, <1>6, Zenon

LEMMA PushGave ==
  ASSUME NEW n \in Nat, NEW c \in Cursors(n), NEW item, Allowed(item)
  PROVE  Enc(item) \in Seq(Octet) /\ Gave(c, n, Enc(item), Push(c, item))
<1>1. PICK k, v : k = item.kind /\ v = item.v
  OBVIOUS
<1>2. CASE k = "byte"
  <2>1. Len(v) = 1 /\ v \in Seq(Octet)
    BY <1>1, <1>2, AllowedIs
  <2>2. v[1] \in Octet /\ v = <<v[1]>>
    BY <2>1
  <2>3. Gave(c, n, <<v[1]>>, CursorPushByte(c, v[1]))
    BY <2>2, PushByteGives
  <2>4. Enc(item) = v /\ Push(c, item) = CursorPushByte(c, v[1])
    BY <1>1, <1>2 DEF Enc, Push
  <2> QED BY <2>1, <2>2, <2>3, <2>4
<1>3. CASE k = "u16"
  <2>1. v[1] \in Word
    BY <1>1, <1>3, AllowedIs
  <2>2. Be16(v[1]) \in Seq(Octet)
    BY <2>1, Be16Is
  <2>3. Enc(item) = Be16(v[1]) /\ Push(c, item) = CursorPush(c, Be16(v[1]))
    BY <1>1, <1>3 DEF Enc, Push
  <2> QED BY <2>2, <2>3, PushGives
<1>4. CASE k \in {"u64", "data"}
  <2>1. v \in Seq(Octet)
    BY <1>1, <1>4, AllowedIs, NumberIs
  <2>2. Enc(item) = v /\ Push(c, item) = CursorPush(c, v)
    BY <1>1, <1>4 DEF Enc, Push
  <2> QED BY <2>1, <2>2, PushGives
<1>5. CASE k = "cstr"
  <2>1. v \in Seq(Octet)
    BY <1>1, <1>5, AllowedIs, NoZeroIs
  <2>2. Enc(item) = v \o <<0>> /\ Push(c, item) = CursorPushCStr(c, v)
    BY <1>1, <1>5 DEF Enc, Push
  <2>3. PICK z : z = <<0>>
    OBVIOUS
  <2>4. z \in Seq(Octet)
    <3>1. 0 \in Octet
      BY DEF Octet
    <3> QED BY <2>3, <3>1, OneIs
  <2>5. v \o z \in Seq(Octet)
    BY <2>1, <2>4, BytesJoin
  <2> QED BY <2>1, <2>2, <2>3, <2>5, PushCStrGives
<1>6. CASE k = "varint"
  <2>1. v[1] \in Small
    BY <1>1, <1>6, AllowedIs
  <2>2. VarintBytes(v[1]) \in Seq(Octet)
    BY <2>1, VarintIs
  <2>3. Enc(item) = VarintBytes(v[1]) /\ Push(c, item) = PushEach(c, VarintBytes(v[1]))
    BY <1>1, <1>6 DEF Enc, Push
  <2> QED BY <2>2, <2>3, PushEachGives
<1>7. CASE k = "bigsize"
  <2>1. v \in Number
    BY <1>1, <1>7, AllowedIs
  <2>2. Enc(item) = BigsizePut(v) /\ Push(c, item) = CursorPush(c, BigsizePut(v))
    BY <1>1, <1>7 DEF Enc, Push
  <2> QED BY <2>1, <2>2, PutIs, PushGives
<1>8. CASE k = "compact"
  <2>1. v \in Number
    BY <1>1, <1>8, AllowedIs
  <2>2. Enc(item) = VarintPut(v) /\ Push(c, item) = CursorPush(c, VarintPut(v))
    BY <1>1, <1>8 DEF Enc, Push
  <2> QED BY <2>1, <2>2, TurnedIs, PushGives
<1>9. CASE k = "pstr"
  <2>1. v \in Seq(Octet) /\ Len(v) <= StrRoom
    BY <1>1, <1>9, AllowedIs
  <2>2. Len(v) \in Small
    BY <2>1, LenProperties, RoomIs, SMT DEF Small, UpTo
  <2>3. Enc(item) = VarintBytes(Len(v)) \o v /\ Push(c, item) = PushPrefixedStr(c, v)
    BY <1>1, <1>9 DEF Enc, Push
  <2>4. VarintBytes(Len(v)) \in Seq(Octet)
    BY <2>2, VarintIs
  <2>5. VarintBytes(Len(v)) \o v \in Seq(Octet)
    BY <2>1, <2>4, BytesJoin
  <2> QED BY <2>1, <2>2, <2>3, <2>5, PstrGives
<1>10. CASE k = "tlv"
  <2>1. v \in Seq(Octet) /\ Len(v) >= 8 /\ Len(v) - 8 \in Word
    BY <1>1, <1>10, AllowedIs
  <2>2. PICK type, value : type = SubSeq(v, 1, 8) /\ value = SubSeq(v, 9, Len(v))
    OBVIOUS
  <2>3. type \in Number /\ value \in Seq(Octet) /\ Len(value) = Len(v) - 8
    BY <2>1, <2>2, TlvParts
  <2>4. PICK a, b : a = BigsizePut(type) /\ b = BigsizePut(U64(Len(value)))
    OBVIOUS
  <2>5. Enc(item) = (a \o b) \o value /\ Push(c, item) = PushTlv(c, type, value)
    BY <1>1, <1>10, <2>2, <2>3, <2>4 DEF Enc, Push
  <2>6. Len(value) \in Word
    BY <2>1, <2>3
  <2>7. a \in Seq(Octet) /\ b \in Seq(Octet)
    BY <2>3, <2>4, <2>6, PutIs, U64Is
  <2>8. (a \o b) \o value \in Seq(Octet)
    <3>1. a \o b \in Seq(Octet)
      BY <2>7, BytesJoin
    <3> QED BY <2>3, <3>1, BytesJoin
  <2>9. Gave(c, n, (a \o b) \o value, PushTlv(c, type, value))
    BY <2>3, <2>4, <2>6, TlvGives
  <2> QED BY <2>5, <2>8, <2>9
<1> QED BY <1>1, <1>2, <1>3, <1>4, <1>5, <1>6, <1>7, <1>8, <1>9, <1>10, AllowedIs

LEMMA EncIs ==
  ASSUME NEW item, Allowed(item)
  PROVE  Enc(item) \in Seq(Octet)
<1>1. PICK n, e : n = 0 /\ e = <<>>
  OBVIOUS
<1>2. PICK c : c = [mem |-> e, p |-> n]
  OBVIOUS
<1>3. n \in Nat /\ e \in Seq(Octet) /\ Len(e) = n /\ n \in 0..n
  BY <1>1
<1>4. c \in Cursors(n)
  BY <1>2, <1>3 DEF Cursors
<1> QED BY <1>3, <1>4, PushGave

\* As many of them as the item is to take.
LEMMA SizeIs ==
  ASSUME NEW item, Allowed(item)
  PROVE  SizeOf(item) \in Nat /\ Len(Enc(item)) = SizeOf(item)
<1>1. PICK k, v : k = item.kind /\ v = item.v
  OBVIOUS
<1>2. CASE k = "byte"
  <2>1. Len(v) = 1 /\ Enc(item) = v /\ SizeOf(item) = 1
    BY <1>1, <1>2, AllowedIs DEF Enc, SizeOf
  <2> QED BY <2>1
<1>3. CASE k = "u16"
  <2>1. v[1] \in Word
    BY <1>1, <1>3, AllowedIs
  <2>2. Enc(item) = Be16(v[1]) /\ SizeOf(item) = 2
    BY <1>1, <1>3 DEF Enc, SizeOf
  <2> QED BY <2>1, <2>2, Be16Is
<1>4. CASE k \in {"u64", "data"}
  <2>1. v \in Seq(Octet)
    BY <1>1, <1>4, AllowedIs, NumberIs
  <2>2. Enc(item) = v /\ SizeOf(item) = Len(v)
    BY <1>1, <1>4 DEF Enc, SizeOf
  <2> QED BY <2>1, <2>2, LenProperties
<1>5. CASE k = "cstr"
  <2>1. v \in Seq(Octet)
    BY <1>1, <1>5, AllowedIs, NoZeroIs
  <2>2. PICK z : z = <<0>>
    OBVIOUS
  <2>3. Enc(item) = v \o z /\ SizeOf(item) = Len(v) + 1
    BY <1>1, <1>5, <2>2 DEF Enc, SizeOf
  <2>4. z \in Seq(Octet) /\ Len(z) = 1
    <3>1. 0 \in Octet
      BY DEF Octet
    <3> QED BY <2>2, <3>1, OneIs
  <2>5. Len(v \o z) = Len(v) + Len(z) /\ Len(v) \in Nat
    BY <2>1, <2>4, BytesJoin
  <2> QED BY <2>3, <2>4, <2>5
<1>6. CASE k = "varint"
  <2>1. v[1] \in Small
    BY <1>1, <1>6, AllowedIs
  <2>2. Enc(item) = VarintBytes(v[1]) /\ SizeOf(item) = Len(VarintBytes(v[1]))
    BY <1>1, <1>6 DEF Enc, SizeOf
  <2>3. VarintBytes(v[1]) \in Seq(Octet)
    BY <2>1, VarintIs
  <2> QED BY <2>2, <2>3, LenProperties
<1>7. CASE k \in {"bigsize", "compact"}
  <2>1. v \in Number
    BY <1>1, <1>7, AllowedIs
  <2>2. (Enc(item) = BigsizePut(v) \/ Enc(item) = VarintPut(v)) /\ SizeOf(item) = BigsizeLen(v)
    BY <1>1, <1>7 DEF Enc, SizeOf
  <2>3. Len(BigsizePut(v)) = BigsizeLen(v) /\ Len(VarintPut(v)) = BigsizeLen(v)
    BY <2>1, PutIs, TurnedIs
  <2>4. BigsizeLen(v) \in Nat
    BY <2>1, PutIs
  <2> QED BY <2>2, <2>3, <2>4
<1>8. CASE k = "pstr"
  <2>1. v \in Seq(Octet) /\ Len(v) <= StrRoom
    BY <1>1, <1>8, AllowedIs
  <2>2. Len(v) \in Small
    BY <2>1, LenProperties, RoomIs, SMT DEF Small, UpTo
  <2>3. PICK a : a = VarintBytes(Len(v))
    OBVIOUS
  <2>4. Enc(item) = a \o v /\ SizeOf(item) = Len(a) + Len(v)
    BY <1>1, <1>8, <2>3 DEF Enc, SizeOf
  <2>5. a \in Seq(Octet)
    BY <2>2, <2>3, VarintIs
  <2> QED BY <2>1, <2>4, <2>5, BytesJoin
<1>9. CASE k = "tlv"
  <2>1. v \in Seq(Octet) /\ Len(v) >= 8 /\ Len(v) - 8 \in Word
    BY <1>1, <1>9, AllowedIs
  <2>2. PICK type, value : type = SubSeq(v, 1, 8) /\ value = SubSeq(v, 9, Len(v))
    OBVIOUS
  <2>3. type \in Number /\ value \in Seq(Octet) /\ Len(value) = Len(v) - 8
    BY <2>1, <2>2, TlvParts
  <2>4. PICK u : u = U64(Len(v) - 8)
    OBVIOUS
  <2>5. u \in Number
    BY <2>1, <2>4, U64Is
  <2>6. PICK a, b : a = BigsizePut(type) /\ b = BigsizePut(u)
    OBVIOUS
  <2>7. Enc(item) = (a \o b) \o value
    BY <1>1, <1>9, <2>2, <2>4, <2>6 DEF Enc
  <2>8. SizeOf(item) = BigsizeLen(type) + BigsizeLen(u) + Len(v) - 8
    BY <1>1, <1>9, <2>2, <2>4 DEF SizeOf
  <2>9. /\ a \in Seq(Octet) /\ b \in Seq(Octet) /\ Len(a) = BigsizeLen(type)
        /\ Len(b) = BigsizeLen(u)
    BY <2>3, <2>5, <2>6, PutIs
  <2>10. a \o b \in Seq(Octet) /\ Len(a \o b) = Len(a) + Len(b) /\ Len(a) \in Nat /\ Len(b) \in Nat
    BY <2>9, BytesJoin
  <2>11. Len((a \o b) \o value) = Len(a \o b) + Len(value) /\ Len(value) \in Nat
    BY <2>3, <2>10, BytesJoin
  <2>12. Len(v) \in Nat
    BY <2>1, LenProperties
  <2> QED BY <2>3, <2>7, <2>8, <2>9, <2>10, <2>11, <2>12
<1> QED BY <1>1, <1>2, <1>3, <1>4, <1>5, <1>6, <1>7, <1>8, <1>9, AllowedIs

-----------------------------------------------------------------------------
(* One item after the other *)

\* What there is to write.
Parts == Items \cup UNION {Range(message) : message \in Messages}

LEMMA PartsAllowed ==
  ASSUME NEW item \in Parts
  PROVE  Allowed(item)
<1>1. CASE item \in Items
  BY <1>1, CodecAssumption, SMT
<1>2. CASE item \notin Items
  <2>1. PICK message \in Messages : item \in Range(message)
    BY <1>2, SMT DEF Parts
  <2> QED BY <2>1, CodecAssumption, SMT
<1> QED BY <1>1, <1>2

LEMMA PartsAre ==
  /\ Items \subseteq Parts
  /\ \A message \in Messages : message \in Seq(Parts)
<1>1. ASSUME NEW message \in Messages PROVE message \in Seq(Parts)
  <2>1. PICK R : R = Range(message)
    OBVIOUS
  <2>2. message \in Seq(R)
    BY <2>1, CodecAssumption, SMT
  <2>3. R \subseteq Parts
    BY <2>1 DEF Parts
  <2> QED BY <2>2, <2>3
<1> QED BY <1>1 DEF Parts

\* Where the items end, step by step.
LEMMA EndsAre ==
  ASSUME NEW items \in Seq(Parts)
  PROVE  \E f : /\ Ends(items) = f /\ f[0] = 0
                /\ \A i \in 0..Len(items) : f[i] \in Nat
                /\ \A i \in 1..Len(items) : f[i] = f[i - 1] + SizeOf(items[i])
<1> DEFINE step == [u \in (1..Len(items)) \X Nat |-> u[2] + SizeOf(items[u[1]])]
           Is(f) == f = [k \in 0..Len(items) |-> IF k = 0 THEN 0 ELSE f[k - 1] + SizeOf(items[k])]
<1>1. PICK m \in Nat : m = Len(items)
  BY LenProperties
<1>2. \A i \in 1..m : SizeOf(items[i]) \in Nat
  BY <1>1, ElementOfSeq, PartsAllowed, SizeIs
<1>3. \A i \in 1..m : \A v \in Nat :
        step[<<i, v>>] = v + SizeOf(items[i]) /\ step[<<i, v>>] \in Nat
  <2> TAKE i \in 1..m
  <2> TAKE v \in Nat
  <2>1. step[<<i, v>>] = v + SizeOf(items[i])
    BY <1>1
  <2> HIDE DEF step
  <2> QED BY <1>2, <2>1
<1> HIDE DEF step
<1>4. Closed(step, m, Nat)
  BY <1>3 DEF Closed
<1>5. PICK z : z = 0
  OBVIOUS
<1>6. z \in Nat
  BY <1>5
<1>7. PICK f : Follows(f, step, m, Nat, z)
  BY <1>1, <1>4, <1>6, Recursion
<1>8. f \in [0..m -> Nat] /\ f[0] = z /\ \A i \in 1..m : f[i] = step[<<i, f[i - 1]>>]
  BY <1>7 DEF Follows
<1>9. \A i \in 0..m : f[i] = IF i = 0 THEN 0 ELSE f[i - 1] + SizeOf(items[i])
  <2> TAKE i \in 0..m
  <2>1. CASE i = 0
    BY <1>5, <1>8, <2>1
  <2>2. CASE i # 0
    <3>1. i \in 1..m /\ i - 1 \in 0..m
      BY <2>2
    <3>2. f[i] = step[<<i, f[i - 1]>>] /\ f[i - 1] \in Nat
      BY <1>8, <3>1
    <3> QED BY <1>3, <2>2, <3>1, <3>2
  <2> QED BY <2>1, <2>2
<1>10. f = [i \in 0..m |-> IF i = 0 THEN 0 ELSE f[i - 1] + SizeOf(items[i])]
  BY <1>8, <1>9
<1>11. Is(f)
  BY <1>1, <1>10, Zenon
<1>12. Ends(items) = CHOOSE g : Is(g)
  BY Zenon DEF Ends
<1>13. PICK g : g = CHOOSE h : Is(h)
  OBVIOUS
<1>14. Is(g)
  <2> HIDE DEF Is
  <2> QED BY <1>11, <1>13
<1>15. g = [i \in 0..m |-> IF i = 0 THEN 0 ELSE g[i - 1] + SizeOf(items[i])]
  BY <1>1, <1>14, Zenon
<1>16. \A i \in 0..m : g[i] = IF i = 0 THEN 0 ELSE g[i - 1] + SizeOf(items[i])
  BY <1>15, Zenon
<1>17. 0 \in 0..m /\ \A i \in 1..m : i \in 0..m /\ i # 0
  BY <1>1
<1>18. g[0] = 0 /\ \A i \in 1..m : g[i] = g[i - 1] + SizeOf(items[i])
  BY <1>16, <1>17, Zenon
<1>19. \A i \in 0..m : g[i] \in Nat
  <2> DEFINE I == {i \in 0..m : g[i] \in Nat}
  <2>1. 0 \in I
    BY <1>17, <1>18
  <2>2. ASSUME NEW k \in 0..(m - 1), k \in I PROVE k + 1 \in I
    <3>1. PICK j : j = k + 1
      OBVIOUS
    <3>2. j \in 1..m /\ j \in 0..m /\ j - 1 = k
      BY <3>1
    <3>3. g[j] = g[k] + SizeOf(items[j]) /\ g[k] \in Nat /\ SizeOf(items[j]) \in Nat
      BY <1>2, <1>18, <2>2, <3>2
    <3> QED BY <3>1, <3>2, <3>3
  <2> HIDE DEF I
  <2>3. \A k \in 0..m : k \in I
    BY <2>1, <2>2, Induct
  <2> QED BY <2>3 DEF I
<1> QED BY <1>1, <1>12, <1>13, <1>18, <1>19

\* Ends of a sequence behind another.
EndsJoined(a, b, ab) ==
  /\ \A i \in 0..Len(a) : Ends(ab)[i] = Ends(a)[i]
  /\ \A i \in 0..Len(b) : Ends(ab)[Len(a) + i] = Ends(a)[Len(a)] + Ends(b)[i]

LEMMA EndsJoin ==
  ASSUME NEW a \in Seq(Parts), NEW b \in Seq(Parts), NEW ab, ab = a \o b
  PROVE  /\ ab \in Seq(Parts) /\ EndsJoined(a, b, ab)
         /\ Joined(a, b, ab)
<1>1. Joined(a, b, ab) /\ ab \in Seq(Parts)
  <2>1. IsSeq(a) /\ IsSeq(b)
    BY IsSeqOf
  <2>2. a \o b \in Seq(Parts)
    BY ConcatProperties
  <2> QED BY <2>1, <2>2, Joins
<1>2. PICK k, m : k = Len(a) /\ m = Len(b)
  OBVIOUS
<1>3. /\ k \in Nat /\ m \in Nat /\ Len(ab) = k + m /\ \A i \in 1..k : ab[i] = a[i]
      /\ \A i \in 1..m : ab[k + i] = b[i]
  BY <1>1, <1>2, LenProperties DEF Joined
<1>4. PICK f : /\ Ends(a) = f /\ f[0] = 0 /\ \A i \in 0..k : f[i] \in Nat
               /\ \A i \in 1..k : f[i] = f[i - 1] + SizeOf(a[i])
  BY <1>2, EndsAre
<1>5. PICK g : /\ Ends(b) = g /\ g[0] = 0 /\ \A i \in 0..m : g[i] \in Nat
               /\ \A i \in 1..m : g[i] = g[i - 1] + SizeOf(b[i])
  BY <1>2, EndsAre
<1>6. PICK h : /\ Ends(ab) = h /\ h[0] = 0 /\ \A i \in 0..Len(ab) : h[i] \in Nat
               /\ \A i \in 1..Len(ab) : h[i] = h[i - 1] + SizeOf(ab[i])
  BY <1>1, EndsAre
<1>7. \A i \in 0..k : h[i] = f[i]
  <2> DEFINE I == {i \in 0..k : h[i] = f[i]}
  <2>1. 0 \in I
    BY <1>3, <1>4, <1>6
  <2>2. ASSUME NEW i \in 0..(k - 1), i \in I PROVE i + 1 \in I
    <3>1. PICK j : j = i + 1
      OBVIOUS
    <3>2. j \in 1..k /\ j \in 1..Len(ab) /\ j \in 0..k /\ j - 1 = i
      BY <1>3, <3>1
    <3>3. h[j] = h[i] + SizeOf(ab[j]) /\ f[j] = f[i] + SizeOf(a[j]) /\ ab[j] = a[j] /\ h[i] = f[i]
      BY <1>3, <1>4, <1>6, <2>2, <3>2
    <3> QED BY <3>1, <3>2, <3>3
  <2> HIDE DEF I
  <2>3. \A i \in 0..k : i \in I
    BY <1>3, <2>1, <2>2, Induct
  <2> QED BY <2>3 DEF I
<1>8. \A i \in 0..m : h[k + i] = f[k] + g[i]
  <2> DEFINE I == {i \in 0..m : h[k + i] = f[k] + g[i]}
  <2>1. 0 \in I
    <3>1. h[k] = f[k] /\ f[k] \in Nat /\ k + 0 = k
      BY <1>3, <1>4, <1>7
    <3> QED BY <1>3, <1>5, <3>1
  <2>2. ASSUME NEW i \in 0..(m - 1), i \in I PROVE i + 1 \in I
    <3>1. PICK j, q : j = i + 1 /\ q = k + j
      OBVIOUS
    <3>2. j \in 1..m /\ q \in 1..Len(ab) /\ j \in 0..m /\ j - 1 = i /\ q - 1 = k + i
      BY <1>3, <3>1
    <3>3. h[q] = h[k + i] + SizeOf(ab[q]) /\ g[j] = g[i] + SizeOf(b[j]) /\ ab[q] = b[j]
      BY <1>3, <1>5, <1>6, <3>1, <3>2
    <3>4. h[k + i] = f[k] + g[i]
      BY <2>2
    <3>5. SizeOf(b[j]) \in Nat /\ f[k] \in Nat /\ g[i] \in Nat
      <4>1. b[j] \in Parts
        BY <1>2, <3>2, ElementOfSeq
      <4> QED BY <1>3, <1>4, <1>5, <4>1, PartsAllowed, SizeIs
    <3>6. h[q] = f[k] + g[j]
      BY <3>3, <3>4, <3>5
    <3> QED BY <3>1, <3>2, <3>6
  <2> HIDE DEF I
  <2>3. \A i \in 0..m : i \in I
    BY <1>3, <2>1, <2>2, Induct
  <2> QED BY <2>3 DEF I
<1>9. EndsJoined(a, b, ab)
  BY <1>2, <1>4, <1>5, <1>6, <1>7, <1>8 DEF EndsJoined
<1> QED BY <1>1, <1>9

\* b holds the bytes of the items, each where it belongs.
HoldsAt(b, item, from) == \A i \in 1..Len(Enc(item)) : b[from + i] = Enc(item)[i]
Holds(b, items) == \A k \in 1..Len(items) : HoldsAt(b, items[k], Ends(items)[k - 1])
Spells(items, b) ==
  /\ b \in Seq(Octet) /\ Len(b) = Ends(items)[Len(items)]
  /\ Holds(b, items)

\* Of bytes that begin the same, both hold an item that ends there.
LEMMA HoldsStays ==
  ASSUME NEW b, NEW d, NEW item, Allowed(item), NEW from \in Nat, NEW upto \in Nat,
         NEW off \in Nat,
         \A i \in 1..upto : d[off + i] = b[i], from + SizeOf(item) <= upto, HoldsAt(b, item, from),
         NEW at, at = off + from
  PROVE  HoldsAt(d, item, at)
<1>1. PICK e, m : e = Enc(item) /\ m = Len(e)
  OBVIOUS
<1>2. m \in Nat /\ from + m <= upto
  BY <1>1, SizeIs
<1>3. ASSUME NEW i \in 1..m PROVE d[at + i] = e[i]
  <2>1. PICK j : j = from + i
    OBVIOUS
  <2>2. j \in 1..upto /\ off + j = at + i
    BY <1>2, <2>1
  <2>3. d[off + j] = b[j] /\ b[j] = e[i]
    BY <1>1, <2>1, <2>2 DEF HoldsAt
  <2> QED BY <2>2, <2>3
<1> QED BY <1>1, <1>3 DEF HoldsAt

\* Ends never go back.
LEMMA EndsGrow ==
  ASSUME NEW items \in Seq(Parts), NEW k \in 0..Len(items), NEW m \in k..Len(items)
  PROVE  Ends(items)[k] \in Nat /\ Ends(items)[m] \in Nat /\ Ends(items)[k] <= Ends(items)[m]
<1>1. PICK N \in Nat : N = Len(items)
  BY LenProperties
<1>2. PICK f : /\ Ends(items) = f /\ f[0] = 0 /\ \A i \in 0..N : f[i] \in Nat
               /\ \A i \in 1..N : f[i] = f[i - 1] + SizeOf(items[i])
  BY <1>1, EndsAre
<1> DEFINE I == {i \in 0..N : k <= i => f[k] <= f[i]}
<1>3. 0 \in I
  <2>1. k \in 0..N /\ (k <= 0 => k = 0) /\ 0 \in 0..N
    BY <1>1
  <2>2. f[k] \in Nat
    BY <1>2, <2>1
  <2>3. k = 0 => f[k] <= f[0]
    BY <2>2
  <2> QED BY <2>1, <2>3
<1>4. ASSUME NEW i \in 0..(N - 1), i \in I PROVE i + 1 \in I
  <2>1. PICK j : j = i + 1
    OBVIOUS
  <2>2. j \in 1..N /\ j \in 0..N /\ j - 1 = i /\ i \in 0..N
    BY <2>1
  <2>3. SizeOf(items[j]) \in Nat
    BY <1>1, <2>2, ElementOfSeq, PartsAllowed, SizeIs
  <2>4. f[j] = f[i] + SizeOf(items[j]) /\ f[i] \in Nat /\ f[j] \in Nat
    BY <1>2, <2>2
  <2>5. k <= j => k <= i \/ k = j
    BY <1>1, <2>1
  <2>6. k <= i => f[k] <= f[i]
    BY <1>4
  <2>7. f[k] \in Nat
    BY <1>1, <1>2
  <2>8. k <= j => f[k] <= f[j]
    BY <2>3, <2>4, <2>5, <2>6, <2>7
  <2> QED BY <2>1, <2>2, <2>8
<1> HIDE DEF I
<1>5. \A i \in 0..N : i \in I
  BY <1>3, <1>4, Induct
<1>6. m \in 0..N /\ k <= m
  BY <1>1
<1>7. f[k] <= f[m]
  <2>1. m \in I
    BY <1>5, <1>6
  <2> QED BY <1>6, <2>1 DEF I
<1> QED BY <1>1, <1>2, <1>6, <1>7

LEMMA SpellsJoin ==
  ASSUME NEW a \in Seq(Parts), NEW b \in Seq(Parts), NEW x, NEW y, Spells(a, x), Spells(b, y),
         NEW ab, ab = a \o b, NEW xy, xy = x \o y
  PROVE  Spells(ab, xy)
<1>1. ab \in Seq(Parts) /\ EndsJoined(a, b, ab) /\ Joined(a, b, ab)
  BY EndsJoin
<1>2. PICK k \in Nat, m \in Nat : k = Len(a) /\ m = Len(b)
  BY LenProperties
<1>3. PICK p, q : p = Ends(a)[k] /\ q = Ends(b)[m]
  OBVIOUS
<1>4. p \in Nat /\ q \in Nat
  BY <1>2, <1>3, EndsGrow
<1>5. x \in Seq(Octet) /\ Len(x) = p /\ y \in Seq(Octet) /\ Len(y) = q
  BY <1>2, <1>3 DEF Spells
<1>6. /\ xy \in Seq(Octet) /\ Len(xy) = p + q /\ \A i \in 1..p : xy[i] = x[i]
      /\ \A i \in 1..q : xy[p + i] = y[i]
  BY <1>5, BytesJoin
<1>7. /\ Len(ab) = k + m /\ \A i \in 1..k : ab[i] = a[i]
      /\ \A i \in 1..m : ab[k + i] = b[i]
  BY <1>1, <1>2 DEF Joined
<1>8. /\ \A i \in 0..k : Ends(ab)[i] = Ends(a)[i]
      /\ \A i \in 0..m : Ends(ab)[k + i] = p + Ends(b)[i]
  BY <1>1, <1>2, <1>3 DEF EndsJoined
<1>9. ASSUME NEW j \in 1..(k + m) PROVE HoldsAt(xy, ab[j], Ends(ab)[j - 1])
  <2>1. CASE j <= k
    <3>1. PICK i : i = j - 1
      OBVIOUS
    <3>2. j \in 1..k /\ i \in 0..k /\ j \in i..k
      BY <1>2, <2>1, <3>1
    <3>3. PICK from, to : from = Ends(a)[i] /\ to = Ends(a)[j]
      OBVIOUS
    <3>4. PICK item : item = a[j]
      OBVIOUS
    <3>5. item \in Parts /\ Allowed(item)
      BY <1>2, <3>2, <3>4, ElementOfSeq, PartsAllowed
    <3>6. from \in Nat /\ to = from + SizeOf(item)
      <4>1. PICK f : /\ Ends(a) = f /\ \A l \in 0..k : f[l] \in Nat
                     /\ \A l \in 1..k : f[l] = f[l - 1] + SizeOf(a[l])
        BY <1>2, EndsAre
      <4> QED BY <3>1, <3>2, <3>3, <3>4, <4>1
    <3>7. to <= p
      <4>1. k \in j..k /\ j \in 0..k
        BY <1>2, <3>2
      <4> QED BY <1>2, <1>3, <3>3, <4>1, EndsGrow
    <3>8. HoldsAt(x, item, from)
      BY <1>2, <3>1, <3>2, <3>3, <3>4 DEF Spells, Holds
    <3>9. \A l \in 1..p : xy[0 + l] = x[l]
      <4> TAKE l \in 1..p
      <4>1. 0 + l = l /\ l \in 1..p
        BY <1>4
      <4> QED BY <1>6, <4>1
    <3>10. from = 0 + from /\ 0 \in Nat /\ from + SizeOf(item) <= p
      BY <3>6, <3>7
    <3>11. HoldsAt(xy, item, from)
      BY <1>4, <3>5, <3>6, <3>8, <3>9, <3>10, HoldsStays
    <3>12. ab[j] = item /\ Ends(ab)[j - 1] = from
      BY <1>7, <1>8, <3>1, <3>2, <3>3, <3>4
    <3> QED BY <3>11, <3>12
  <2>2. CASE ~(j <= k)
    <3>1. PICK h, i : h = j - k /\ i = h - 1
      OBVIOUS
    <3>2. h \in 1..m /\ i \in 0..m /\ h \in i..m /\ k + h = j /\ k + i = j - 1
      BY <1>2, <2>2, <3>1
    <3>3. PICK from, to : from = Ends(b)[i] /\ to = Ends(b)[h]
      OBVIOUS
    <3>4. PICK item : item = b[h]
      OBVIOUS
    <3>5. item \in Parts /\ Allowed(item)
      BY <1>2, <3>2, <3>4, ElementOfSeq, PartsAllowed
    <3>6. from \in Nat /\ to = from + SizeOf(item)
      <4>1. PICK f : /\ Ends(b) = f /\ \A l \in 0..m : f[l] \in Nat
                     /\ \A l \in 1..m : f[l] = f[l - 1] + SizeOf(b[l])
        BY <1>2, EndsAre
      <4> QED BY <3>1, <3>2, <3>3, <3>4, <4>1
    <3>7. to <= q
      <4>1. m \in h..m /\ h \in 0..m
        BY <1>2, <3>2
      <4> QED BY <1>2, <1>3, <3>3, <4>1, EndsGrow
    <3>8. HoldsAt(y, item, from)
      BY <1>2, <3>1, <3>2, <3>3, <3>4 DEF Spells, Holds
    <3>9. from + SizeOf(item) <= q
      BY <3>6, <3>7
    <3>10. PICK at : at = p + from
      OBVIOUS
    <3>11. HoldsAt(xy, item, at)
      BY <1>4, <1>6, <3>5, <3>6, <3>8, <3>9, <3>10, HoldsStays
    <3>12. ab[j] = item /\ Ends(ab)[j - 1] = at
      BY <1>7, <1>8, <3>2, <3>3, <3>4, <3>10
    <3> QED BY <3>11, <3>12
  <2> QED BY <2>1, <2>2
<1>10. Len(xy) = Ends(ab)[Len(ab)]
  BY <1>2, <1>3, <1>6, <1>7, <1>8
<1> QED BY <1>6, <1>7, <1>9, <1>10 DEF Spells, Holds

LEMMA SpellsNothing ==
  ASSUME NEW e, e = <<>>
  PROVE  e \in Seq(Parts) /\ Spells(e, e)
<1>1. e \in Seq(Parts) /\ e \in Seq(Octet) /\ Len(e) = 0
  OBVIOUS
<1>2. Ends(e)[0] = 0
  BY <1>1, EndsAre
<1> QED BY <1>1, <1>2 DEF Spells, Holds

LEMMA SpellsOne ==
  ASSUME NEW item \in Parts, NEW one, one = <<item>>
  PROVE  one \in Seq(Parts) /\ Len(one) = 1 /\ Spells(one, Enc(item))
<1>1. one \in Seq(Parts) /\ Len(one) = 1 /\ one[1] = item
  OBVIOUS
<1>2. Ends(one)[0] = 0 /\ Ends(one)[1] = 0 + SizeOf(item)
  <2>1. PICK f : /\ Ends(one) = f /\ f[0] = 0
                 /\ \A i \in 1..1 : f[i] = f[i - 1] + SizeOf(one[i])
    BY <1>1, EndsAre
  <2> QED BY <1>1, <2>1
<1>3. Enc(item) \in Seq(Octet) /\ Len(Enc(item)) = SizeOf(item) /\ SizeOf(item) \in Nat
  <2>1. Allowed(item)
    BY PartsAllowed
  <2>2. Enc(item) \in Seq(Octet)
    BY <2>1, EncIs
  <2> QED BY <2>1, <2>2, SizeIs
<1>4. PICK e, m : e = Enc(item) /\ m = Len(e)
  OBVIOUS
<1>5. \A i \in 1..m : e[0 + i] = e[i]
  BY <1>3, <1>4
<1>6. HoldsAt(e, item, 0)
  BY <1>4, <1>5 DEF HoldsAt
<1>7. Holds(e, one)
  <2>1. \A k \in 1..Len(one) : k = 1 /\ k - 1 = 0
    BY <1>1
  <2> QED BY <1>1, <1>2, <1>6, <2>1 DEF Holds
<1> QED BY <1>1, <1>2, <1>3, <1>4, <1>7 DEF Spells

\* The first k of some things, and one thing more.
LEMMA FirstOnes ==
  ASSUME NEW T, NEW s \in Seq(T), NEW k \in Nat, k <= Len(s)
  PROVE  /\ SubSeq(s, 1, k) \in Seq(T) /\ Len(SubSeq(s, 1, k)) = k
         /\ \A i \in 1..k : SubSeq(s, 1, k)[i] = s[i]
<1>1. Len(s) \in Nat /\ \A i \in 1..k : s[i] \in T
  BY LenProperties, ElementOfSeq
<1>2. /\ SubSeq(s, 1, k) \in Seq(T)
      /\ Len(SubSeq(s, 1, k)) = IF 1 <= k THEN k - 1 + 1 ELSE 0
      /\ \A i \in 1..(k - 1 + 1) : SubSeq(s, 1, k)[i] = s[1 + i - 1]
  BY <1>1, SubSeqProperties
<1>3. k - 1 + 1 = k /\ \A i \in 1..k : 1 + i - 1 = i
  OBVIOUS
<1> QED BY <1>2, <1>3

LEMMA OneMoreOf ==
  ASSUME NEW T, NEW s \in Seq(T), NEW k \in Nat, NEW j, j = k + 1, j <= Len(s),
         NEW one \in Seq(T), Len(one) = 1, one[1] = s[j]
  PROVE  SubSeq(s, 1, k) \in Seq(T) /\ SubSeq(s, 1, j) = SubSeq(s, 1, k) \o one
<1>1. PICK a, b : a = SubSeq(s, 1, k) /\ b = SubSeq(s, 1, j)
  OBVIOUS
<1>2. Len(s) \in Nat /\ k <= Len(s) /\ j \in Nat
  BY LenProperties
<1>3. a \in Seq(T) /\ Len(a) = k /\ \A i \in 1..k : a[i] = s[i]
  BY <1>1, <1>2, FirstOnes
<1>4. b \in Seq(T) /\ Len(b) = j /\ \A i \in 1..j : b[i] = s[i]
  BY <1>1, <1>2, FirstOnes
<1>5. PICK d : d = a \o one
  OBVIOUS
<1>6. IsSeq(a) /\ IsSeq(one) /\ IsSeq(b)
  BY <1>3, <1>4, IsSeqOf
<1>7. Joined(a, one, d) /\ IsSeq(d)
  BY <1>5, <1>6, Joins, JoinIsSeq
<1>8. Len(d) = j /\ (\A i \in 1..k : d[i] = a[i]) /\ d[k + 1] = one[1]
  BY <1>3, <1>7 DEF Joined
<1>9. \A i \in 1..j : b[i] = d[i]
  <2> TAKE i \in 1..j
  <2>1. i \in 1..k \/ i = k + 1
    OBVIOUS
  <2> QED BY <1>3, <1>4, <1>8, <2>1
<1>10. b = d
  BY <1>4, <1>6, <1>7, <1>8, <1>9, SameSeq
<1> QED BY <1>1, <1>3, <1>5, <1>10

-----------------------------------------------------------------------------
(* A push of several items *)

PushStep(x, item) == IF x.ok THEN Push(x.c, item) ELSE x

LEMMA PushAllIs ==
  ASSUME NEW n \in Nat, NEW c \in Cursors(n), NEW items \in Seq(Parts)
  PROVE  \E f : /\ f[0] = Yes(c) /\ PushAll(c, items) = f[Len(items)]
                /\ \A i \in 1..Len(items) : f[i] = PushStep(f[i - 1], items[i])
<1> DEFINE step == [u \in (1..Len(items)) \X PushSet(n) |-> PushStep(u[2], items[u[1]])]
           Is(f) == f = [k \in 0..Len(items) |->
                           IF k = 0 THEN Yes(c)
                           ELSE IF f[k - 1].ok THEN Push(f[k - 1].c, items[k])
                           ELSE f[k - 1]]
<1>1. PICK m \in Nat : m = Len(items)
  BY LenProperties
<1>2. \A i \in 1..m : Allowed(items[i])
  BY <1>1, ElementOfSeq, PartsAllowed
<1>3. PICK base : base = Yes(c)
  OBVIOUS
<1>4. base \in PushSet(n)
  BY <1>3 DEF PushSet, Yes
<1>5. \A i \in 1..m : \A v \in PushSet(n) :
        step[<<i, v>>] = PushStep(v, items[i]) /\ step[<<i, v>>] \in PushSet(n)
  <2> TAKE i \in 1..m
  <2> TAKE v \in PushSet(n)
  <2>1. step[<<i, v>>] = PushStep(v, items[i])
    BY <1>1
  <2>2. PICK d : d = v.c
    OBVIOUS
  <2>3. d \in Cursors(n)
    BY <2>2, PushedIs
  <2>4. Push(d, items[i]) \in PushSet(n)
    <3>1. Gave(d, n, Enc(items[i]), Push(d, items[i]))
      BY <1>2, <2>3, PushGave
    <3> QED BY <3>1 DEF Gave
  <2> HIDE DEF step
  <2> QED BY <2>1, <2>2, <2>4 DEF PushStep
<1> HIDE DEF step
<1>6. Closed(step, m, PushSet(n))
  BY <1>5 DEF Closed
<1>7. PICK f : Follows(f, step, m, PushSet(n), base)
  BY <1>1, <1>4, <1>6, Recursion
<1>8. f \in [0..m -> PushSet(n)] /\ f[0] = base /\ \A i \in 1..m : f[i] = step[<<i, f[i - 1]>>]
  BY <1>7 DEF Follows
<1>9. \A i \in 0..m : f[i] = IF i = 0 THEN Yes(c) ELSE PushStep(f[i - 1], items[i])
  <2> TAKE i \in 0..m
  <2>1. CASE i = 0
    BY <1>3, <1>8, <2>1
  <2>2. CASE i # 0
    <3>1. i \in 1..m /\ i - 1 \in 0..m
      BY <2>2
    <3>2. f[i] = step[<<i, f[i - 1]>>] /\ f[i - 1] \in PushSet(n)
      BY <1>8, <3>1
    <3> QED BY <1>5, <2>2, <3>1, <3>2
  <2> QED BY <2>1, <2>2
<1>10. f = [i \in 0..m |-> IF i = 0 THEN Yes(c) ELSE PushStep(f[i - 1], items[i])]
  BY <1>8, <1>9
<1>11. Is(f)
  BY <1>1, <1>10, Zenon DEF PushStep
<1>12. PushAll(c, items) = (CHOOSE g : Is(g))[Len(items)]
  BY Zenon DEF PushAll
<1>13. PICK g : g = CHOOSE h : Is(h)
  OBVIOUS
<1>14. Is(g)
  <2> HIDE DEF Is
  <2> QED BY <1>11, <1>13
<1>15. g = [i \in 0..m |-> IF i = 0 THEN Yes(c) ELSE PushStep(g[i - 1], items[i])]
  BY <1>1, <1>14, Zenon DEF PushStep
<1>16. \A i \in 0..m : g[i] = IF i = 0 THEN Yes(c) ELSE PushStep(g[i - 1], items[i])
  BY <1>15, Zenon
<1>17. 0 \in 0..m /\ \A i \in 1..m : i \in 0..m /\ i # 0
  BY <1>1
<1>18. g[0] = Yes(c) /\ \A i \in 1..m : g[i] = PushStep(g[i - 1], items[i])
  BY <1>16, <1>17, Zenon
<1> QED BY <1>1, <1>12, <1>13, <1>18

LEMMA PushAllGives ==
  ASSUME NEW n \in Nat, NEW c \in Cursors(n), NEW items \in Seq(Parts)
  PROVE  \E b : Spells(items, b) /\ Gave(c, n, b, PushAll(c, items))
<1>1. PICK m \in Nat : m = Len(items)
  BY LenProperties
<1>2. PICK f : /\ f[0] = Yes(c) /\ PushAll(c, items) = f[m]
               /\ \A i \in 1..m : f[i] = PushStep(f[i - 1], items[i])
  BY <1>1, PushAllIs
<1> DEFINE Good(k) == \E b : Spells(SubSeq(items, 1, k), b) /\ Gave(c, n, b, f[k])
           I == {k \in 0..m : Good(k)}
<1>3. 0 \in I
  <2>1. PICK e : e = SubSeq(items, 1, 0)
    OBVIOUS
  <2>2. e = <<>>
    <3>1. 0 <= Len(items)
      BY <1>1
    <3>2. e \in Seq(Parts) /\ Len(e) = 0
      BY <2>1, <3>1, FirstOnes
    <3> QED BY <3>2
  <2>3. Spells(e, e) /\ Gave(c, n, e, f[0])
    BY <1>2, <2>2, GaveNothing, SpellsNothing
  <2> QED BY <1>1, <2>1, <2>3
<1>4. ASSUME NEW k \in 0..(m - 1), k \in I PROVE k + 1 \in I
  <2>1. PICK j : j = k + 1
    OBVIOUS
  <2>2. j \in 1..m /\ j \in 0..m /\ j - 1 = k /\ k \in Nat
    BY <2>1
  <2>3. PICK item : item = items[j]
    OBVIOUS
  <2>4. item \in Parts /\ Allowed(item)
    BY <1>1, <2>2, <2>3, ElementOfSeq, PartsAllowed
  <2>5. PICK one : one = <<item>>
    OBVIOUS
  <2>6. one \in Seq(Parts) /\ Len(one) = 1 /\ Spells(one, Enc(item)) /\ one[1] = items[j]
    <3>1. one[1] = items[j]
      BY <2>3, <2>5
    <3> QED BY <2>4, <2>5, <3>1, SpellsOne
  <2>7. PICK a : a = SubSeq(items, 1, k)
    OBVIOUS
  <2>8. PICK aj : aj = SubSeq(items, 1, j)
    OBVIOUS
  <2>9. a \in Seq(Parts) /\ aj = a \o one
    <3>1. j <= Len(items)
      BY <1>1, <2>2
    <3> QED BY <2>1, <2>2, <2>6, <2>7, <2>8, <3>1, OneMoreOf
  <2>10. PICK x : x = f[k]
    OBVIOUS
  <2>11. PICK b : Spells(a, b) /\ Gave(c, n, b, x)
    BY <1>4, <2>7, <2>10
  <2>12. f[j] = PushStep(x, item)
    BY <1>2, <2>2, <2>3, <2>10
  <2>13. x.c \in Cursors(n) /\ x.ok \in BOOLEAN
    BY <2>11, PushedIs DEF Gave
  <2>14. PICK d, bd : d = Enc(item) /\ bd = b \o d
    OBVIOUS
  <2>15. b \in Seq(Octet) /\ d \in Seq(Octet)
    BY <2>4, <2>11, <2>14, EncIs DEF Spells
  <2>16. Spells(aj, bd)
    BY <2>6, <2>9, <2>11, <2>14, SpellsJoin
  <2>17. Gave(c, n, bd, f[j])
    <3>1. CASE x.ok
      <4>1. f[j] = Push(x.c, item)
        BY <2>12, <3>1 DEF PushStep
      <4>2. Gave(x.c, n, d, f[j])
        BY <2>4, <2>13, <2>14, <4>1, PushGave
      <4> QED BY <2>11, <2>14, <2>15, <3>1, <4>2, GaveThen
    <3>2. CASE ~x.ok
      <4>1. f[j] = x
        BY <2>12, <3>2 DEF PushStep
      <4> QED BY <2>11, <2>14, <2>15, <3>2, <4>1, GaveNot
    <3> QED BY <2>13, <3>1, <3>2
  <2>18. Good(j)
    BY <2>8, <2>16, <2>17
  <2> QED BY <2>1, <2>2, <2>18
<1> HIDE DEF I
<1>5. \A k \in 0..m : k \in I
  BY <1>3, <1>4, Induct
<1>6. m \in I
  BY <1>5
<1>7. SubSeq(items, 1, m) = items
  <2>1. PICK a : a = SubSeq(items, 1, m)
    OBVIOUS
  <2>2. m <= Len(items)
    BY <1>1
  <2>3. a \in Seq(Parts) /\ Len(a) = m /\ \A i \in 1..m : a[i] = items[i]
    BY <2>1, <2>2, FirstOnes
  <2>4. IsSeq(a) /\ IsSeq(items)
    BY <2>3, IsSeqOf
  <2> QED BY <1>1, <2>1, <2>3, <2>4, SameSeq
<1>8. Good(m)
  BY <1>6 DEF I
<1> QED BY <1>2, <1>7, <1>8

-----------------------------------------------------------------------------
(* What the pulls read *)

\* What there is from c on begins with the bytes e, or with as many of them
\* as there is room for.
Shows(c, n, e) == \A i \in 1..Len(e) : c.p + i <= n => c.mem[c.p + i] = e[i]

\* x is what a pull of the value v, in bytes e, gave at c: the value, when it is
\* there as a whole, and none when it is not.
Took(c, n, e, v, x) ==
  /\ x.ok \in BOOLEAN /\ x.c \in Cursors(n) /\ x.c.mem = c.mem
  /\ c.p + Len(e) <= n => x.ok /\ x.v = v /\ x.c.p = c.p + Len(e)
  /\ c.p + Len(e) > n => ~x.ok

LEMMA MovedIs ==
  ASSUME NEW n \in Nat, NEW c \in Cursors(n), NEW k \in Nat, c.p + k <= n
  PROVE  Moved(c, k) \in Cursors(n) /\ Moved(c, k).mem = c.mem /\ Moved(c, k).p = c.p + k
<1>1. c.p \in 0..n /\ c = [mem |-> c.mem, p |-> c.p] /\ c.mem \in Seq(Octet) /\ Len(c.mem) = n
  BY CursorIs
<1>2. PICK d : d = Moved(c, k)
  OBVIOUS
<1>3. d = [mem |-> c.mem, p |-> c.p + k]
  BY <1>1, <1>2 DEF Moved
<1>4. c.p + k \in 0..n
  BY <1>1
<1> QED BY <1>1, <1>2, <1>3, <1>4 DEF Cursors

LEMMA AheadIs ==
  ASSUME NEW n \in Nat, NEW c \in Cursors(n), NEW k \in Nat, c.p + k <= n, NEW a, a = Ahead(c, k)
  PROVE  /\ a \in Seq(Octet) /\ Len(a) = k
         /\ \A i \in 1..k : a[i] = c.mem[c.p + i]
<1>1. PICK mem, p : mem = c.mem /\ p = c.p
  OBVIOUS
<1>2. p \in 0..n /\ mem \in Seq(Octet) /\ Len(mem) = n
  BY <1>1, CursorIs
<1>3. PICK lo, hi : lo = p + 1 /\ hi = p + k
  OBVIOUS
<1>4. a = SubSeq(mem, lo, hi)
  BY <1>1, <1>3 DEF Ahead
<1>5. IsSeq(mem) /\ p \in Nat
  BY <1>2, IsSeqOf
<1>6. p + k <= Len(mem)
  BY <1>1, <1>2
<1>7. IsPiece(a, mem, p, k)
  BY <1>3, <1>4, <1>5, <1>6, Piece
<1>8. IsSeq(a) /\ Len(a) = k /\ \A i \in 1..k : a[i] = mem[p + i]
  BY <1>7 DEF IsPiece
<1>9. \A i \in 1..k : a[i] \in Octet
  <2> TAKE i \in 1..k
  <2>1. PICK j : j = p + i
    OBVIOUS
  <2>2. j \in 1..n
    BY <1>1, <1>2, <2>1
  <2>3. mem[j] \in Octet
    BY <1>2, <2>2, ElementOfSeq
  <2> QED BY <1>8, <2>1, <2>3
<1>10. PICK S : S = Octet
  OBVIOUS
<1>11. a = [i \in 1..k |-> a[i]]
  BY <1>8 DEF IsSeq
<1>12. a \in [1..k -> S]
  BY <1>9, <1>10, <1>11
<1>13. a \in Seq(S)
  BY <1>12, SeqDef
<1> QED BY <1>1, <1>8, <1>10, <1>13

LEMMA AheadShown ==
  ASSUME NEW n \in Nat, NEW c \in Cursors(n), NEW e \in Seq(Octet), Shows(c, n, e),
         NEW k, k = Len(e), c.p + k <= n
  PROVE  k \in Nat /\ Ahead(c, k) = e
<1>1. k \in Nat
  BY LenProperties
<1>2. PICK a : a = Ahead(c, k)
  OBVIOUS
<1>3. a \in Seq(Octet) /\ Len(a) = k /\ \A i \in 1..k : a[i] = c.mem[c.p + i]
  BY <1>1, <1>2, AheadIs
<1>4. PICK p \in 0..n : p = c.p
  BY CursorIs
<1>5. ASSUME NEW i \in 1..k PROVE a[i] = e[i]
  <2>1. p + i <= n
    BY <1>1, <1>4
  <2> QED BY <1>3, <1>4, <2>1 DEF Shows
<1> QED BY <1>1, <1>2, <1>3, <1>5, SameBytes

LEMMA PullTook ==
  ASSUME NEW n \in Nat, NEW c \in Cursors(n), NEW e \in Seq(Octet), Shows(c, n, e),
         NEW k, k = Len(e)
  PROVE  Took(c, n, e, e, CursorPull(c, k))
<1>1. k \in Nat /\ End(c) = n /\ c.p \in 0..n
  BY LenProperties, CursorIs
<1>2. CASE c.p + k > n
  <2>1. CursorPull(c, k) = Refuses(c)
    BY <1>1, <1>2 DEF CursorPull
  <2>2. ~(c.p + k <= n)
    BY <1>1, <1>2
  <2> QED BY <1>2, <2>1, <2>2 DEF Took, Refuses
<1>3. CASE ~(c.p + k > n)
  <2>1. CursorPull(c, k) = Gives(Moved(c, k), Ahead(c, k))
    BY <1>1, <1>3 DEF CursorPull
  <2>2. c.p + k <= n
    BY <1>1, <1>3
  <2>3. Ahead(c, k) = e
    BY <2>2, AheadShown
  <2>4. Moved(c, k) \in Cursors(n) /\ Moved(c, k).mem = c.mem /\ Moved(c, k).p = c.p + k
    BY <1>1, <2>2, MovedIs
  <2> QED BY <1>3, <2>1, <2>2, <2>3, <2>4 DEF Took, Gives
<1> QED BY <1>2, <1>3

LEMMA PullByteTook ==
  ASSUME NEW n \in Nat, NEW c \in Cursors(n), NEW e \in Seq(Octet), Shows(c, n, e), Len(e) = 1
  PROVE  Took(c, n, e, e[1], PullByte(c))
<1>1. End(c) = n
  BY CursorIs
<1>2. PICK p \in 0..n : p = c.p
  BY CursorIs
<1>3. CASE p + 1 > n
  <2>1. PullByte(c) = Refuses(c)
    BY <1>1, <1>2, <1>3 DEF PullByte
  <2>2. ~(p + 1 <= n)
    BY <1>3
  <2> QED BY <1>2, <1>3, <2>1, <2>2 DEF Took, Refuses
<1>4. CASE ~(p + 1 > n)
  <2>1. PullByte(c) = Gives(Moved(c, 1), c.mem[p + 1])
    BY <1>1, <1>2, <1>4 DEF PullByte
  <2>2. p + 1 <= n /\ 1 \in Nat /\ 1 \in 1..Len(e)
    BY <1>4
  <2>3. c.mem[p + 1] = e[1]
    BY <1>2, <2>2 DEF Shows
  <2>4. Moved(c, 1) \in Cursors(n) /\ Moved(c, 1).mem = c.mem /\ Moved(c, 1).p = c.p + 1
    BY <1>2, <2>2, MovedIs
  <2> QED BY <1>2, <1>4, <2>1, <2>2, <2>3, <2>4 DEF Took, Gives
<1> QED BY <1>3, <1>4

\* A string, and the zero that ends it.
LEMMA PullCStrTook ==
  ASSUME NEW n \in Nat, NEW c \in Cursors(n), NEW v \in Seq(1..255), NEW z, z = << 0 >>,
         NEW e, e = v \o z, Shows(c, n, e)
  PROVE  Took(c, n, e, v, CursorPullCStr(c))
<1>1. v \in Seq(Octet) /\ \A i \in 1..Len(v) : v[i] # 0
  BY NoZeroIs
<1>2. z \in Seq(Octet) /\ Len(z) = 1 /\ z[1] = 0
  <2>1. 0 \in Octet
    BY DEF Octet
  <2> QED BY <2>1, OneIs
<1>3. PICK m \in Nat : m = Len(v)
  BY <1>1, LenProperties
<1>4. /\ e \in Seq(Octet) /\ Len(e) = m + 1 /\ e[m + 1] = 0
      /\ \A i \in 1..m : e[i] = v[i]
  <2>1. PICK k : k = Len(v) + 1
    OBVIOUS
  <2>2. e \in Seq(Octet) /\ Len(e) = k /\ (\A i \in 1..Len(v) : e[i] = v[i]) /\ e[k] = z[1]
    BY <1>1, <1>2, <2>1, JoinOne
  <2> QED BY <1>2, <1>3, <2>1, <2>2
<1>5. PICK p \in 0..n : p = c.p
  BY CursorIs
<1>6. PICK mem : mem = c.mem
  OBVIOUS
<1>7. End(c) = n /\ mem \in Seq(Octet) /\ Len(mem) = n
  BY <1>6, CursorIs
<1>8. \A i \in 1..(m + 1) : p + i <= n => mem[p + i] = e[i]
  BY <1>4, <1>5, <1>6 DEF Shows
<1>9. PICK zeros : zeros = {i \in p + 1 .. n : mem[i] = 0}
  OBVIOUS
<1>10. \A i \in zeros : i \in Nat /\ i >= p + m + 1 /\ i <= n
  <2> TAKE i \in zeros
  <2>1. i \in p + 1 .. n /\ mem[i] = 0
    BY <1>9
  <2>2. CASE i < p + m + 1
    <3>1. PICK j : j = i - p
      OBVIOUS
    <3>2. j \in 1..m /\ j \in 1..(m + 1) /\ p + j = i /\ p + j <= n
      BY <2>1, <2>2, <3>1
    <3>3. mem[i] = v[j] /\ v[j] # 0
      BY <1>1, <1>3, <1>4, <1>8, <3>2
    <3> QED BY <2>1, <3>3
  <2> QED BY <2>1, <2>2
<1>11. CASE p + (m + 1) > n
  <2>1. zeros = {}
    <3>1. \A i \in zeros : FALSE
      BY <1>10, <1>11
    <3> QED BY <3>1
  <2>2. PICK k : k = n - p
    OBVIOUS
  <2>3. CursorPullCStr(c) = Refuses(Moved(c, k))
    BY <1>5, <1>6, <1>7, <1>9, <2>1, <2>2 DEF CursorPullCStr
  <2>4. k \in Nat /\ p + k <= n
    BY <2>2
  <2>5. Moved(c, k) \in Cursors(n) /\ Moved(c, k).mem = c.mem
    BY <1>5, <2>4, MovedIs
  <2>6. ~(p + (m + 1) <= n)
    BY <1>11
  <2> QED BY <1>4, <1>5, <2>3, <2>5, <2>6 DEF Took, Refuses
<1>12. CASE ~(p + (m + 1) > n)
  <2>1. PICK q : q = p + m + 1
    OBVIOUS
  <2>2. q \in p + 1 .. n /\ p + (m + 1) = q /\ m + 1 \in 1..(m + 1)
    BY <1>12, <2>1
  <2>3. mem[q] = 0
    <3>1. p + (m + 1) <= n
      BY <1>12
    <3> QED BY <1>4, <1>8, <2>2, <3>1
  <2>4. q \in zeros /\ zeros # {}
    BY <1>9, <2>2, <2>3
  <2>5. PICK first : first = CHOOSE i \in zeros : \A j \in zeros : i <= j
    OBVIOUS
  <2>6. first = q
    <3>1. \A j \in zeros : q <= j
      BY <1>10, <2>1
    <3>2. first \in zeros /\ \A j \in zeros : first <= j
      BY <2>4, <2>5, <3>1
    <3>3. first <= q /\ q <= first /\ first \in Nat /\ q \in Nat
      BY <1>10, <2>4, <3>1, <3>2
    <3> QED BY <3>3
  <2>7. PICK k, lo, hi : k = first - p /\ lo = p + 1 /\ hi = first - 1
    OBVIOUS
  <2>8. CursorPullCStr(c) = Gives(Moved(c, k), SubSeq(mem, lo, hi))
    BY <1>5, <1>6, <1>7, <1>9, <2>4, <2>5, <2>7 DEF CursorPullCStr
  <2>9. k = m + 1 /\ hi = p + m /\ k \in Nat /\ p + k <= n /\ p + m <= n
    BY <1>12, <2>1, <2>6, <2>7
  <2>10. Moved(c, k) \in Cursors(n) /\ Moved(c, k).mem = c.mem /\ Moved(c, k).p = c.p + k
    BY <1>5, <2>9, MovedIs
  <2>11. SubSeq(mem, lo, hi) = Ahead(c, m)
    BY <1>5, <1>6, <2>7, <2>9 DEF Ahead
  <2>12. Shows(c, n, v)
    <3>1. ASSUME NEW i \in 1..m, p + i <= n PROVE mem[p + i] = v[i]
      <4>1. i \in 1..(m + 1)
        OBVIOUS
      <4> QED BY <1>4, <1>8, <3>1, <4>1
    <3> QED BY <1>3, <1>5, <1>6, <3>1 DEF Shows
  <2>13. Ahead(c, m) = v
    BY <1>1, <1>3, <1>5, <2>9, <2>12, AheadShown
  <2>14. p + Len(e) <= n /\ ~(p + Len(e) > n)
    BY <1>4, <1>12
  <2> QED BY <1>4, <1>5, <2>8, <2>9, <2>10, <2>11, <2>13, <2>14 DEF Took, Gives
<1> QED BY <1>11, <1>12

\* Whole, with more behind it, or cut.
Begins(c, n, e, rest) ==
  /\ rest \in Seq(Octet) /\ Len(rest) = n - c.p
  /\ c.p + Len(e) <= n => \E more \in Seq(Octet) : rest = e \o more
  /\ \A i \in 1..Len(e) : i <= Len(rest) => rest[i] = e[i]

LEMMA RestIs ==
  ASSUME NEW n \in Nat, NEW c \in Cursors(n), NEW e \in Seq(Octet), Shows(c, n, e),
         NEW rest, rest = Ahead(c, n - c.p)
  PROVE  Begins(c, n, e, rest)
<1>1. PICK p \in 0..n : p = c.p
  BY CursorIs
<1>2. PICK k \in Nat : k = n - p
  OBVIOUS
<1>3. /\ rest \in Seq(Octet) /\ Len(rest) = k
      /\ \A i \in 1..k : rest[i] = c.mem[p + i]
  <2>1. rest = Ahead(c, k) /\ c.p + k <= n
    BY <1>1, <1>2
  <2> QED BY <1>1, <2>1, AheadIs
<1>4. PICK m \in Nat : m = Len(e)
  BY LenProperties
<1>5. ASSUME NEW i \in 1..m, i <= k PROVE rest[i] = e[i]
  <2>1. i \in 1..k /\ p + i <= n
    BY <1>2, <1>5
  <2>2. c.mem[p + i] = e[i]
    BY <1>1, <1>4, <2>1 DEF Shows
  <2> QED BY <1>3, <2>1, <2>2
<1>6. ASSUME p + m <= n PROVE \E more \in Seq(Octet) : rest = e \o more
  <2>1. PICK q \in Nat : q = k - m
    BY <1>2, <1>6
  <2>2. PICK more : more = [i \in 1..q |-> rest[m + i]]
    OBVIOUS
  <2>3. more \in Seq(Octet) /\ Len(more) = q /\ \A i \in 1..q : more[i] = rest[m + i]
    <3>1. PICK S : S = Octet
      OBVIOUS
    <3>2. \A i \in 1..q : rest[m + i] \in S
      <4> TAKE i \in 1..q
      <4>1. PICK j : j = m + i
        OBVIOUS
      <4>2. j \in 1..k
        BY <2>1, <4>1
      <4> QED BY <1>3, <3>1, <4>1, <4>2, ElementOfSeq
    <3>3. more \in [1..q -> S] /\ q \in Nat
      BY <2>1, <2>2, <3>2
    <3>4. more \in Seq(S)
      BY <3>3, SeqDef
    <3>5. Len(more) = q
      BY <2>1, <3>3, <3>4, LenProperties
    <3> QED BY <2>2, <3>1, <3>4, <3>5
  <2>4. PICK d : d = e \o more
    OBVIOUS
  <2>5. /\ d \in Seq(Octet) /\ Len(d) = m + q /\ \A i \in 1..m : d[i] = e[i]
        /\ \A i \in 1..q : d[m + i] = more[i]
    BY <1>4, <2>3, <2>4, BytesJoin
  <2>6. Len(d) = k /\ m <= k
    BY <2>1, <2>5
  <2>7. ASSUME NEW i \in 1..k PROVE rest[i] = d[i]
    <3>1. CASE i <= m
      BY <1>5, <2>5, <3>1
    <3>2. CASE ~(i <= m)
      <4>1. PICK j : j = i - m
        OBVIOUS
      <4>2. j \in 1..q /\ m + j = i
        BY <2>1, <3>2, <4>1
      <4> QED BY <2>3, <2>5, <4>2
    <3> QED BY <3>1, <3>2
  <2>8. rest = d
    BY <1>3, <2>5, <2>6, <2>7, SameBytes
  <2> QED BY <2>3, <2>4, <2>8
<1> QED BY <1>1, <1>2, <1>3, <1>4, <1>5, <1>6 DEF Begins

\* The first byte tells the length.
LEMMA TakenIs ==
  ASSUME NEW v \in Number, NEW b, b # <<>>, b[1] = BigsizePut(v)[1]
  PROVE  TakenAt(b) = BigsizeLen(v)
<1>1. CASE OneByte(v) /\ BigsizePut(v) = Low(v, 1) /\ BigsizeLen(v) = 1
  <2>1. Low(v, 1)[1] = v[8]
    BY LowIs
  <2>2. v[8] \in Octet /\ v[8] < 253
    BY <1>1, NumberIs DEF OneByte
  <2>3. b[1] # 253 /\ b[1] # 254 /\ b[1] # 255
    BY <1>1, <2>1, <2>2 DEF Octet
  <2> QED BY <1>1, <2>3 DEF TakenAt
<1>2. ASSUME NEW k \in {2, 4, 8}, BigsizePut(v) = <<Mark(k)>> \o Low(v, k), BigsizeLen(v) = k + 1
      PROVE  TakenAt(b) = BigsizeLen(v)
  <2>1. PICK mark, low : mark = Mark(k) /\ low = Low(v, k)
    OBVIOUS
  <2>2. mark \in Octet
    BY <2>1 DEF Mark, Octet
  <2>3. low \in Seq(Octet)
    <3>1. k \in {1, 2, 4, 8}
      OBVIOUS
    <3> QED BY <2>1, <3>1, LowIs
  <2>4. b[1] = mark
    <3>1. (<<mark>> \o low)[1] = mark
      BY <2>2, <2>3, MarkedAlone
    <3> QED BY <1>2, <2>1, <3>1
  <2> QED BY <1>2, <2>1, <2>4 DEF TakenAt, Mark
<1> QED BY <1>1, <1>2, PutForms

LEMMA PullBigsizeTook ==
  ASSUME NEW n \in Nat, NEW c \in Cursors(n), NEW v \in Number, NEW e, e = BigsizePut(v),
         Shows(c, n, e)
  PROVE  Took(c, n, e, v, PullBigsize(c))
<1>1. PICK k : k = BigsizeLen(v)
  OBVIOUS
<1>2. e \in Seq(Octet) /\ Len(e) = k /\ k \in Nat /\ k >= 1
  BY <1>1, PutIs
<1>3. PICK rest : rest = Ahead(c, n - c.p)
  OBVIOUS
<1>4. /\ rest \in Seq(Octet) /\ Len(rest) = n - c.p
      /\ c.p + Len(e) <= n => \E more \in Seq(Octet) : rest = e \o more
      /\ \A i \in 1..Len(e) : i <= Len(rest) => rest[i] = e[i]
  <2>1. Begins(c, n, e, rest)
    BY <1>2, <1>3, RestIs
  <2> QED BY <2>1 DEF Begins
<1>5. PICK res : res = BigsizeGet(rest)
  OBVIOUS
<1>6. End(c) = n /\ c.p \in 0..n
  BY CursorIs
<1>7. PullBigsize(c) = IF res.n = 0 THEN Refuses(c) ELSE Gives(Moved(c, res.n), res.v)
  BY <1>3, <1>5, <1>6 DEF PullBigsize
<1>8. CASE c.p + k <= n
  <2>1. PICK more \in Seq(Octet) : rest = e \o more
    BY <1>2, <1>4, <1>8
  <2>2. res = [n |-> k, v |-> v]
    BY <1>1, <1>5, <2>1, BigsizeRoundTrip
  <2>3. PullBigsize(c) = Gives(Moved(c, k), v)
    BY <1>2, <1>7, <2>2
  <2>4. Moved(c, k) \in Cursors(n) /\ Moved(c, k).mem = c.mem /\ Moved(c, k).p = c.p + k
    BY <1>2, <1>8, MovedIs
  <2>5. ~(c.p + k > n)
    BY <1>2, <1>6, <1>8
  <2> QED BY <1>2, <1>8, <2>3, <2>4, <2>5 DEF Took, Gives
<1>9. CASE ~(c.p + k <= n)
  <2>1. c.p + k > n /\ Len(rest) < k
    BY <1>2, <1>4, <1>6, <1>9
  <2>2. res.n = 0
    <3>1. CASE rest = <<>>
      <4>1. TakenAt(rest) = 0
        BY <3>1 DEF TakenAt
      <4> QED BY <1>5, <4>1 DEF BigsizeGet
    <3>2. CASE rest # <<>>
      <4>1. Len(rest) >= 1
        <5>1. Len(rest) \in Nat /\ Len(rest) # 0
          BY <1>4, <3>2, EmptySeq, LenProperties
        <5> QED BY <5>1
      <4>2. rest[1] = e[1]
        <5>1. 1 \in 1..Len(e) /\ 1 <= Len(rest)
          BY <1>2, <4>1
        <5> QED BY <1>4, <5>1
      <4>3. TakenAt(rest) = k
        BY <1>1, <3>2, <4>2, TakenIs
      <4>4. ~(TakenAt(rest) <= Len(rest))
        BY <1>2, <1>4, <1>6, <2>1, <4>3
      <4> QED BY <1>5, <4>4 DEF BigsizeGet
    <3> QED BY <3>1, <3>2
  <2>3. PullBigsize(c) = Refuses(c)
    BY <1>7, <2>2
  <2> QED BY <1>2, <1>9, <2>1, <2>3 DEF Took, Refuses
<1> QED BY <1>8, <1>9

\* varint_get takes what varint_put wrote, whatever comes behind it.
LEMMA CompactBack ==
  ASSUME NEW v \in Number, NEW more \in Seq(Octet), NEW b, b = VarintPut(v) \o more
  PROVE  VarintGet(b) = [n |-> BigsizeLen(v), v |-> v]
<1>1. PICK e, w0, n : e = VarintPut(v) /\ w0 = BigsizePut(v) /\ n = BigsizeLen(v)
  OBVIOUS
<1>2. /\ e \in Seq(Octet) /\ Len(e) = n /\ e[1] = w0[1] /\ n \in Nat /\ n >= 1
      /\ \A i \in 2..n : e[i] = w0[n + 2 - i]
  <2>1. e \in Seq(Octet) /\ Len(e) = n /\ e[1] = w0[1]
    BY <1>1, TurnedIs
  <2>2. n \in Nat /\ n >= 1
    <3>1. BigsizeLen(v) \in {1, 3, 5, 9}
      BY PutIs
    <3>2. n \in {1, 3, 5, 9}
      BY <1>1, <3>1
    <3> QED BY <3>2
  <2>3. \A i \in 2..n : e[i] = w0[n + 2 - i]
    BY <1>1, TurnedIs
  <2> QED BY <2>1, <2>2, <2>3
<1>3. /\ b \in Seq(Octet) /\ Len(b) = n + Len(more) /\ Len(more) \in Nat
      /\ \A i \in 1..n : b[i] = e[i]
  BY <1>1, <1>2, BytesJoin
<1>4. b # <<>> /\ b[1] = w0[1] /\ n <= Len(b)
  <2>1. 1 \in 1..n /\ n <= Len(b) /\ Len(b) >= 1
    BY <1>2, <1>3
  <2> QED BY <1>2, <1>3, <2>1
<1>5. TakenAt(b) = n
  BY <1>1, <1>4, TakenIs
<1>6. CASE OneByte(v) /\ w0 = Low(v, 1) /\ n = 1
  <2>1. PICK low : low = Low(v, 1)
    OBVIOUS
  <2>2. low \in Seq(Octet) /\ Len(low) = 1
    BY <2>1, LowIs
  <2>3. e = low
    <3>1. \A i \in 1..1 : e[i] = low[i]
      BY <1>2, <1>6, <2>1
    <3> QED BY <1>2, <1>6, <2>2, <3>1, SameBytes
  <2>4. U64(b[1]) = v
    BY <1>1, <1>6, <2>1, <2>3, ShortRead
  <2> QED BY <1>1, <1>4, <1>5, <1>6, <2>4 DEF VarintGet
<1>7. ASSUME NEW k \in {2, 4, 8}, Fits(v, k), w0 = <<Mark(k)>> \o Low(v, k), n = k + 1
      PROVE  VarintGet(b) = [n |-> n, v |-> v]
  <2>1. PICK mark, low : mark = Mark(k) /\ low = Low(v, k)
    OBVIOUS
  <2>2. mark \in Octet
    BY <2>1 DEF Mark, Octet
  <2>3. low \in Seq(Octet) /\ Len(low) = k /\ \A i \in 1..k : low[i] = v[8 - k + i]
    <3>1. k \in {1, 2, 4, 8}
      OBVIOUS
    <3> QED BY <2>1, <3>1, LowIs
  <2>4. \A i \in 1..k : w0[1 + i] = low[i]
    <3>1. \A i \in 1..Len(low) : (<<mark>> \o low)[1 + i] = low[i]
      BY <2>2, <2>3, MarkedAlone
    <3> QED BY <1>7, <2>1, <2>3, <3>1
  <2>5. PICK s : s = SubSeq(b, 2, n)
    OBVIOUS
  <2>6. s \in Seq(Octet) /\ Len(s) = k /\ \A i \in 1..k : s[i] = b[i + 1]
    <3>1. k + 1 <= Len(b) /\ s = SubSeq(b, 2, k + 1)
      BY <1>4, <1>7, <2>5
    <3> QED BY <1>3, <3>1, Behind
  <2>7. PICK t : t = Reverse(s)
    OBVIOUS
  <2>8. t \in Seq(Octet) /\ Len(t) = k /\ \A i \in 1..k : t[i] = s[k - i + 1]
    <3>1. k = Len(s)
      BY <2>6
    <3> QED BY <2>6, <2>7, <3>1, ReverseIs
  <2>9. ASSUME NEW i \in 1..k PROVE t[i] = low[i]
    <3>1. PICK j : j = k - i + 1
      OBVIOUS
    <3>2. j \in 1..k /\ j + 1 \in 2..n /\ j + 1 \in 1..n /\ n + 2 - (j + 1) = 1 + i
      BY <1>7, <3>1
    <3>3. t[i] = s[j] /\ s[j] = b[j + 1]
      BY <2>6, <2>8, <3>1, <3>2
    <3>4. b[j + 1] = e[j + 1]
      BY <1>3, <3>2
    <3>5. PICK h : h = j + 1
      OBVIOUS
    <3>6. e[h] = w0[n + 2 - h]
      BY <1>2, <3>2, <3>5
    <3>7. w0[1 + i] = low[i]
      BY <2>4
    <3> QED BY <3>2, <3>3, <3>4, <3>5, <3>6, <3>7
  <2>10. PICK z : z = Zeros(8 - k) \o t
    OBVIOUS
  <2>11. z \in Number /\ (\A i \in 1..(8 - k) : z[i] = 0) /\ \A i \in 1..k : z[8 - k + i] = t[i]
    BY <2>8, <2>10, Padded
  <2>12. z = v
    <3>1. ASSUME NEW i \in 1..8 PROVE z[i] = v[i]
      <4>1. CASE i <= 8 - k
        <5>1. i \in 1..(8 - k)
          BY <4>1
        <5>2. v[i] = 0
          BY <1>7, <5>1 DEF Fits
        <5> QED BY <2>11, <5>1, <5>2
      <4>2. CASE ~(i <= 8 - k)
        <5>1. PICK j : j = i - (8 - k)
          OBVIOUS
        <5>2. j \in 1..k /\ 8 - k + j = i
          BY <4>2, <5>1
        <5> QED BY <2>3, <2>9, <2>11, <5>2
      <4> QED BY <4>1, <4>2
    <3> QED BY <2>11, <3>1, SameNumber
  <2>13. n # 1 /\ n > 0 /\ 9 - n = 8 - k
    BY <1>7
  <2>14. VarintGet(b) = IF n > 0 /\ n <= Len(b) THEN [n |-> n, v |-> Zeros(9 - n) \o Reverse(SubSeq(b, 2, n))]
                        ELSE [n |-> 0, v |-> <<>>]
    BY <1>5, <2>13 DEF VarintGet
  <2> QED BY <1>4, <2>5, <2>7, <2>10, <2>12, <2>13, <2>14
<1>8. \/ OneByte(v) /\ w0 = Low(v, 1) /\ n = 1
      \/ \E k \in {2, 4, 8} : Fits(v, k) /\ w0 = <<Mark(k)>> \o Low(v, k) /\ n = k + 1
  BY <1>1, PutForms
<1> QED BY <1>1, <1>6, <1>7, <1>8

LEMMA PullCompactTook ==
  ASSUME NEW n \in Nat, NEW c \in Cursors(n), NEW v \in Number, NEW e, e = VarintPut(v),
         Shows(c, n, e)
  PROVE  Took(c, n, e, v, PullCompact(c))
<1>1. PICK k : k = BigsizeLen(v)
  OBVIOUS
<1>2. e \in Seq(Octet) /\ Len(e) = k /\ k \in Nat /\ k >= 1 /\ e[1] = BigsizePut(v)[1]
  BY <1>1, PutIs, TurnedIs
<1>3. PICK rest : rest = Ahead(c, n - c.p)
  OBVIOUS
<1>4. /\ rest \in Seq(Octet) /\ Len(rest) = n - c.p
      /\ c.p + Len(e) <= n => \E more \in Seq(Octet) : rest = e \o more
      /\ \A i \in 1..Len(e) : i <= Len(rest) => rest[i] = e[i]
  <2>1. Begins(c, n, e, rest)
    BY <1>2, <1>3, RestIs
  <2> QED BY <2>1 DEF Begins
<1>5. PICK res : res = VarintGet(rest)
  OBVIOUS
<1>6. End(c) = n /\ c.p \in 0..n
  BY CursorIs
<1>7. PullCompact(c) = IF res.n = 0 THEN Refuses(c) ELSE Gives(Moved(c, res.n), res.v)
  BY <1>3, <1>5, <1>6 DEF PullCompact
<1>8. CASE c.p + k <= n
  <2>1. PICK more \in Seq(Octet) : rest = e \o more
    BY <1>2, <1>4, <1>8
  <2>2. res = [n |-> k, v |-> v]
    BY <1>1, <1>5, <2>1, CompactBack
  <2>3. PullCompact(c) = Gives(Moved(c, k), v)
    BY <1>2, <1>7, <2>2
  <2>4. Moved(c, k) \in Cursors(n) /\ Moved(c, k).mem = c.mem /\ Moved(c, k).p = c.p + k
    BY <1>2, <1>8, MovedIs
  <2>5. ~(c.p + k > n)
    BY <1>2, <1>6, <1>8
  <2> QED BY <1>2, <1>8, <2>3, <2>4, <2>5 DEF Took, Gives
<1>9. CASE ~(c.p + k <= n)
  <2>1. c.p + k > n /\ Len(rest) < k
    BY <1>2, <1>4, <1>6, <1>9
  <2>2. res.n = 0
    <3>1. CASE rest = <<>>
      <4>1. TakenAt(rest) = 0
        BY <3>1 DEF TakenAt
      <4> QED BY <1>5, <4>1 DEF VarintGet
    <3>2. CASE rest # <<>>
      <4>1. Len(rest) >= 1
        <5>1. Len(rest) \in Nat /\ Len(rest) # 0
          BY <1>4, <3>2, EmptySeq, LenProperties
        <5> QED BY <5>1
      <4>2. rest[1] = e[1]
        <5>1. 1 \in 1..Len(e) /\ 1 <= Len(rest)
          BY <1>2, <4>1
        <5> QED BY <1>4, <5>1
      <4>3. TakenAt(rest) = k
        BY <1>1, <1>2, <3>2, <4>2, TakenIs
      <4>4. ~(TakenAt(rest) <= Len(rest))
        BY <1>2, <1>4, <1>6, <2>1, <4>3
      <4> QED BY <1>5, <4>4 DEF VarintGet
    <3> QED BY <3>1, <3>2
  <2>3. PullCompact(c) = Refuses(c)
    BY <1>7, <2>2
  <2> QED BY <1>2, <1>9, <2>1, <2>3 DEF Took, Refuses
<1> QED BY <1>8, <1>9

\* Division by powers of 128.
LEMMA By128 ==
  ASSUME NEW x \in Nat, NEW q, q = x \div 128, NEW t, t = x % 128
  PROVE  q \in Nat /\ x = 128 * q + t /\ t \in 0..127
OBVIOUS

LEMMA ByPowers ==
  ASSUME NEW q \in Nat, NEW t \in Nat
  PROVE  /\ t < 16384 => (16384 * q + t) \div 16384 = q
         /\ t < 2097152 => (2097152 * q + t) \div 2097152 = q
         /\ t < 268435456 => (268435456 * q + t) \div 268435456 = q
BY SMT

\* The groups of a number make up the number.
LEMMA GroupIs ==
  ASSUME NEW x \in Small, NEW g, Sized(x, g)
  PROVE  /\ \A i \in 1..5 : Group(x, i) \in 0..127
         /\ \A i \in 1..5 : i > g => Group(x, i) = 0
         /\ Group(x, 1) * Sevens[1] + Group(x, 2) * Sevens[2] + Group(x, 3) * Sevens[3]
              + Group(x, 4) * Sevens[4] + Group(x, 5) * Sevens[5] = x
<1>1. x \in Nat /\ x <= 2147483647
  BY SMT DEF Small, UpTo
<1>2. PICK a, b, c, d : a = x \div 128 /\ b = a \div 128 /\ c = b \div 128 /\ d = c \div 128
  OBVIOUS
<1>7. PICK r1, r2, r3, r4 : r1 = x % 128 /\ r2 = a % 128 /\ r3 = b % 128 /\ r4 = c % 128
  OBVIOUS
<1>3. a \in Nat /\ x = 128 * a + r1 /\ r1 \in 0..127
  <2>1. PICK y \in Nat : y = x
    BY <1>1, SMT
  <2>2. a = y \div 128 /\ r1 = y % 128
    BY <1>2, <1>7, <2>1
  <2>3. a \in Nat /\ y = 128 * a + r1 /\ r1 \in 0..127
    BY <2>2, By128
  <2> QED BY <2>1, <2>3
<1>4. b \in Nat /\ a = 128 * b + r2 /\ r2 \in 0..127
  <2>1. a \in Nat /\ b = a \div 128 /\ r2 = a % 128
    BY <1>2, <1>3, <1>7
  <2> QED BY <2>1, By128
<1>5. c \in Nat /\ b = 128 * c + r3 /\ r3 \in 0..127
  <2>1. b \in Nat /\ c = b \div 128 /\ r3 = b % 128
    BY <1>2, <1>4, <1>7
  <2> QED BY <2>1, By128
<1>6. d \in Nat /\ c = 128 * d + r4 /\ r4 \in 0..127
  <2>1. c \in Nat /\ d = c \div 128 /\ r4 = c % 128
    BY <1>2, <1>5, <1>7
  <2> QED BY <2>1, By128
<1>8. /\ r1 \in 0..127 /\ r2 \in 0..127 /\ r3 \in 0..127 /\ r4 \in 0..127
      /\ x = 128 * a + r1 /\ a = 128 * b + r2 /\ b = 128 * c + r3 /\ c = 128 * d + r4
  BY <1>3, <1>4, <1>5, <1>6
<1>a. PICK t2, t3, t4 : /\ t2 = 128 * r2 + r1 /\ t3 = 16384 * r3 + t2
                        /\ t4 = 2097152 * r4 + t3
  BY SMT
<1>9. x = 16384 * b + t2 /\ t2 \in Nat /\ t2 < 16384
  BY <1>3, <1>4, <1>a, SMT
<1>10. x = 2097152 * c + t3 /\ t3 \in Nat /\ t3 < 2097152
  BY <1>5, <1>9, <1>a, SMT
<1>11. x = 268435456 * d + t4 /\ t4 \in Nat /\ t4 < 268435456
  BY <1>6, <1>10, <1>a, SMT
<1>12. x \div 1 = x /\ x \div 128 = a
  BY <1>1, <1>2, SMT
<1>13. x \div 16384 = b
  BY <1>4, <1>9, ByPowers, SMT
<1>14. x \div 2097152 = c
  BY <1>5, <1>10, ByPowers, SMT
<1>15. x \div 268435456 = d
  BY <1>6, <1>11, ByPowers, SMT
<1>16. d \in 0..7 /\ d % 128 = d
  BY <1>1, <1>6, <1>11, SMT
<1>17. /\ Group(x, 1) = r1 /\ Group(x, 2) = r2 /\ Group(x, 3) = r3 /\ Group(x, 4) = r4
       /\ Group(x, 5) = d
  BY <1>7, <1>12, <1>13, <1>14, <1>15, <1>16, SevensAre, SMT DEF Group
<1>18. r1 * 1 + r2 * 128 + r3 * 16384 + r4 * 2097152 + d * 268435456 = x
  BY <1>6, <1>8, <1>11, <1>a, SMT
<1>19. ASSUME NEW i \in 1..5 PROVE Group(x, i) \in 0..127
  <2>1. i = 1 \/ i = 2 \/ i = 3 \/ i = 4 \/ i = 5
    OBVIOUS
  <2>2. d \in 0..127
    BY <1>16
  <2> QED BY <1>8, <1>17, <2>1, <2>2
<1>20. ASSUME NEW i \in 1..5, i > g PROVE Group(x, i) = 0
  <2>1. g \in 1..4 /\ (g = 1 \/ g = 2 \/ g = 3 \/ g = 4) /\ x < Sevens[g + 1]
    BY <1>20, SMT DEF Sized
  <2>2. i = 2 \/ i = 3 \/ i = 4 \/ i = 5
    BY <1>20, <2>1
  <2>a. /\ g = 1 => x < 128
        /\ g = 2 => x < 16384
        /\ g = 3 => x < 2097152
        /\ g = 4 => x < 268435456
    BY <2>1, SevensAre, SMT
  <2>3. g = 1 => a = 0
    BY <1>3, <2>a, SMT
  <2>4. g = 2 => b = 0
    BY <1>4, <1>9, <2>a, SMT
  <2>5. g = 3 => c = 0
    BY <1>5, <1>10, <2>a, SMT
  <2>6. g = 4 => d = 0
    BY <1>6, <1>11, <2>a, SMT
  <2>7. (a = 0 => b = 0 /\ r2 = 0) /\ (b = 0 => c = 0 /\ r3 = 0) /\ (c = 0 => d = 0 /\ r4 = 0)
    BY <1>4, <1>5, <1>6, <1>8, SMT
  <2> QED BY <1>17, <1>20, <2>1, <2>2, <2>3, <2>4, <2>5, <2>6, <2>7
<1>21. Group(x, 1) * Sevens[1] + Group(x, 2) * Sevens[2] + Group(x, 3) * Sevens[3]
         + Group(x, 4) * Sevens[4] + Group(x, 5) * Sevens[5] = x
  BY <1>17, <1>18, SevensAre, SMT
<1> QED BY <1>19, <1>20, <1>21

\* What pull_varint makes of each byte.
Part(rest, first, i) == IF i > first THEN 0 ELSE (rest[i] % 128) * Sevens[i]

LEMMA PullVarintIs ==
  ASSUME NEW c, NEW rest, rest = Ahead(c, End(c) - c.p),
         NEW lasts, lasts = {i \in 1..5 : i <= Len(rest) /\ rest[i] < 128}, lasts # {},
         NEW first, first = CHOOSE i \in lasts : \A j \in lasts : i <= j,
         NEW sum, sum = Part(rest, first, 1) + Part(rest, first, 2) + Part(rest, first, 3)
                        + Part(rest, first, 4) + Part(rest, first, 5)
  PROVE  PullVarint(c) = Gives(Moved(c, first), <<sum>>)
BY DEF PullVarint, Part

LEMMA PullVarintTook ==
  ASSUME NEW n \in Nat, NEW c \in Cursors(n), NEW x \in Small, NEW e, e = VarintBytes(x),
         Shows(c, n, e)
  PROVE  Took(c, n, e, <<x>>, PullVarint(c))
<1>1. PICK g : /\ Sized(x, g) /\ e \in Seq(Octet) /\ Len(e) = g
               /\ \A i \in 1..g : e[i] = Group(x, i) + (IF i < g THEN 128 ELSE 0)
  BY VarintIs
<1>2. g \in 1..5
  BY <1>1 DEF Sized
<1>3. PICK rest : rest = Ahead(c, n - c.p)
  OBVIOUS
<1>4. PICK p \in 0..n : p = c.p
  BY CursorIs
<1>5. PICK len \in Nat : len = n - p
  OBVIOUS
<1>6. rest \in Seq(Octet) /\ Len(rest) = len /\ \A i \in 1..g : i <= len => rest[i] = e[i]
  <2>1. Begins(c, n, e, rest)
    BY <1>1, <1>3, RestIs
  <2> QED BY <1>1, <1>4, <1>5, <2>1 DEF Begins
<1>7. \A i \in 1..5 : Group(x, i) \in 0..127
  BY <1>1, GroupIs
<1>8. ASSUME NEW i \in 1..g, i <= len
      PROVE  (rest[i] < 128 <=> i = g) /\ rest[i] % 128 = Group(x, i)
  <2>1. PICK q \in 0..127 : q = Group(x, i)
    <3>1. i \in 1..5
      BY <1>2
    <3> QED BY <1>7, <3>1
  <2>2. rest[i] = q + (IF i < g THEN 128 ELSE 0)
    BY <1>1, <1>6, <1>8, <2>1
  <2>3. CASE i < g
    BY <1>2, <2>1, <2>2, <2>3
  <2>4. CASE ~(i < g)
    BY <1>2, <2>1, <2>2, <2>4
  <2> QED BY <2>3, <2>4
<1>9. PICK lasts : lasts = {i \in 1..5 : i <= len /\ rest[i] < 128}
  OBVIOUS
<1>10. End(c) = n
  BY CursorIs
<1>11. CASE p + g > n
  <2>1. lasts = {}
    <3>1. \A i \in lasts : FALSE
      <4> TAKE i \in lasts
      <4>1. i \in 1..5 /\ i <= len /\ rest[i] < 128
        BY <1>9
      <4>2. i \in 1..g /\ i # g
        BY <1>2, <1>5, <1>11, <4>1
      <4> QED BY <1>8, <4>1, <4>2
    <3> QED BY <3>1
  <2>2. PICK k : k = IF len < 5 THEN len ELSE 5
    OBVIOUS
  <2>3. PullVarint(c) = Refuses(Moved(c, k))
    BY <1>3, <1>4, <1>5, <1>6, <1>9, <1>10, <2>1, <2>2 DEF PullVarint
  <2>4. k \in Nat /\ p + k <= n
    BY <1>5, <2>2
  <2>5. Moved(c, k) \in Cursors(n) /\ Moved(c, k).mem = c.mem
    BY <1>4, <2>4, MovedIs
  <2>6. ~(p + g <= n)
    BY <1>2, <1>11
  <2> QED BY <1>1, <1>4, <1>11, <2>3, <2>5, <2>6 DEF Took, Refuses
<1>12. CASE ~(p + g > n)
  <2>1. g <= len /\ p + g <= n /\ g \in 1..g /\ g \in Nat
    BY <1>2, <1>5, <1>12
  <2>2. g \in lasts /\ lasts # {}
    BY <1>2, <1>8, <1>9, <2>1
  <2>3. \A i \in lasts : g <= i /\ i \in 1..5
    <3> TAKE i \in lasts
    <3>1. i \in 1..5 /\ i <= len /\ rest[i] < 128
      BY <1>9
    <3>2. CASE i < g
      <4>1. i \in 1..g /\ i # g
        BY <1>2, <3>1, <3>2
      <4> QED BY <1>8, <3>1, <4>1
    <3>3. CASE ~(i < g)
      BY <1>2, <3>1, <3>3
    <3> QED BY <3>2, <3>3
  <2>4. PICK first : first = CHOOSE i \in lasts : \A j \in lasts : i <= j
    OBVIOUS
  <2>5. first = g
    <3>1. first \in lasts /\ \A j \in lasts : first <= j
      BY <2>2, <2>3, <2>4
    <3>2. first <= g /\ g <= first /\ first \in 1..5
      BY <2>2, <2>3, <3>1
    <3> QED BY <1>2, <3>2
  <2>6. ASSUME NEW i \in 1..5 PROVE Part(rest, g, i) = Group(x, i) * Sevens[i]
    <3>1. CASE i > g
      <4>1. Group(x, i) = 0
        BY <1>1, <3>1, GroupIs
      <4>2. PICK s \in Nat : s = Sevens[i]
        <5>1. i = 1 \/ i = 2 \/ i = 3 \/ i = 4 \/ i = 5
          OBVIOUS
        <5> QED BY <5>1, SevensAre, SMT
      <4> QED BY <3>1, <4>1, <4>2 DEF Part
    <3>2. CASE ~(i > g)
      <4>1. i \in 1..g /\ i <= len
        BY <1>2, <2>1, <3>2
      <4>2. rest[i] % 128 = Group(x, i)
        BY <1>8, <4>1
      <4> QED BY <3>2, <4>2 DEF Part
    <3> QED BY <3>1, <3>2
  <2>7. PICK sum : sum = Part(rest, g, 1) + Part(rest, g, 2) + Part(rest, g, 3) + Part(rest, g, 4) + Part(rest, g, 5)
    OBVIOUS
  <2>8. sum = x
    <3>1. /\ Part(rest, g, 1) = Group(x, 1) * Sevens[1] /\ Part(rest, g, 2) = Group(x, 2) * Sevens[2]
          /\ Part(rest, g, 3) = Group(x, 3) * Sevens[3] /\ Part(rest, g, 4) = Group(x, 4) * Sevens[4]
          /\ Part(rest, g, 5) = Group(x, 5) * Sevens[5]
      <4>1. 1 \in 1..5 /\ 2 \in 1..5 /\ 3 \in 1..5 /\ 4 \in 1..5 /\ 5 \in 1..5
        OBVIOUS
      <4> QED BY <2>6, <4>1
    <3>2. Group(x, 1) * Sevens[1] + Group(x, 2) * Sevens[2] + Group(x, 3) * Sevens[3]
            + Group(x, 4) * Sevens[4] + Group(x, 5) * Sevens[5] = x
      BY <1>1, GroupIs
    <3> QED BY <2>7, <3>1, <3>2, Zenon
  <2>9. PullVarint(c) = Gives(Moved(c, g), <<sum>>)
    <3>1. rest = Ahead(c, End(c) - c.p)
      BY <1>3, <1>10
    <3>2. lasts = {i \in 1..5 : i <= Len(rest) /\ rest[i] < 128}
      BY <1>6, <1>9
    <3>3. sum = Part(rest, first, 1) + Part(rest, first, 2) + Part(rest, first, 3)
                + Part(rest, first, 4) + Part(rest, first, 5)
      BY <2>5, <2>7
    <3>4. PullVarint(c) = Gives(Moved(c, first), <<sum>>)
      BY <2>2, <2>4, <3>1, <3>2, <3>3, PullVarintIs, Zenon
    <3> QED BY <2>5, <3>4
  <2>10. Moved(c, g) \in Cursors(n) /\ Moved(c, g).mem = c.mem /\ Moved(c, g).p = c.p + g
    BY <1>4, <2>1, MovedIs
  <2>11. PICK one : one = <<x>>
    OBVIOUS
  <2>12. PullVarint(c) = Gives(Moved(c, g), one)
    BY <2>8, <2>9, <2>11
  <2>13. p + Len(e) <= n /\ ~(p + Len(e) > n) /\ Len(e) = g
    BY <1>1, <1>12, <2>1
  <2>14. Took(c, n, e, one, PullVarint(c))
    BY <1>4, <2>10, <2>12, <2>13 DEF Took, Gives
  <2> QED BY <2>11, <2>14
<1> QED BY <1>11, <1>12

\* The first part of what is shown, and the second, behind it.
LEMMA ShowsParts ==
  ASSUME NEW n \in Nat, NEW c \in Cursors(n), NEW x \in Seq(Octet), NEW y \in Seq(Octet),
         NEW e, e = x \o y, Shows(c, n, e)
  PROVE  /\ Shows(c, n, x)
         /\ \A d : d.mem = c.mem /\ d.p = c.p + Len(x) => Shows(d, n, y)
<1>1. PICK k \in Nat, m \in Nat : k = Len(x) /\ m = Len(y)
  BY LenProperties
<1>2. /\ Len(e) = k + m /\ \A i \in 1..k : e[i] = x[i]
      /\ \A i \in 1..m : e[k + i] = y[i]
  BY <1>1, BytesJoin
<1>3. PICK p \in 0..n : p = c.p
  BY CursorIs
<1>4. \A i \in 1..(k + m) : p + i <= n => c.mem[p + i] = e[i]
  BY <1>2, <1>3 DEF Shows
<1>5. Shows(c, n, x)
  <2>1. ASSUME NEW i \in 1..k, p + i <= n PROVE c.mem[p + i] = x[i]
    <3>1. i \in 1..(k + m)
      OBVIOUS
    <3> QED BY <1>2, <1>4, <2>1, <3>1
  <2> QED BY <1>1, <1>3, <2>1 DEF Shows
<1>6. ASSUME NEW d, d.mem = c.mem, d.p = c.p + Len(x) PROVE Shows(d, n, y)
  <2>1. d.p = p + k
    BY <1>1, <1>3, <1>6
  <2>2. ASSUME NEW i \in 1..m, (p + k) + i <= n PROVE d.mem[(p + k) + i] = y[i]
    <3>1. PICK j : j = k + i
      OBVIOUS
    <3>2. j \in 1..(k + m) /\ p + j <= n /\ p + j = (p + k) + i
      BY <2>2, <3>1
    <3>3. c.mem[p + j] = e[j] /\ e[j] = y[i]
      BY <1>2, <1>4, <3>1, <3>2
    <3> QED BY <1>6, <3>2, <3>3
  <2> QED BY <1>1, <2>1, <2>2 DEF Shows
<1> QED BY <1>5, <1>6

LEMMA ZerosAre ==
  ASSUME NEW n \in Nat, NEW b, b = Zeros(n)
  PROVE  b \in Seq(Octet) /\ Len(b) = n
<1>1. b = [i \in 1..n |-> 0]
  BY DEF Zeros
<1>2. PICK z : z = 0
  OBVIOUS
<1>3. PICK S : S = Octet
  OBVIOUS
<1>4. z \in S
  BY <1>2, <1>3 DEF Octet
<1>5. b \in [1..n -> S]
  BY <1>1, <1>2, <1>4
<1>6. b \in Seq(S)
  BY <1>5, SeqDef
<1>7. DOMAIN b = 1..n
  BY <1>1
<1>8. Len(b) = n
  BY <1>6, <1>7, LenProperties
<1> QED BY <1>3, <1>6, <1>8

\* The buffer of a reader of strings holds the string, whatever becomes of the
\* zero behind it.
LEMMA StrBufIs ==
  ASSUME NEW v \in Seq(Octet), NEW m, m = Len(v), m <= StrRoom
  PROVE  /\ StrBuf.p + m <= End(StrBuf)
         /\ SubSeq(CursorPushByte(Write(StrBuf, v), 0).c.mem, 1, m) = v
<1>1. PICK N \in Nat : N = StrRoom
  BY RoomIs, SMT DEF Small, UpTo
<1>2. PICK c : c = StrBuf
  OBVIOUS
<1>3. c = [mem |-> Zeros(N), p |-> 0]
  BY <1>1, <1>2 DEF StrBuf, MakeCursor
<1>4. Zeros(N) \in Seq(Octet) /\ Len(Zeros(N)) = N
  BY ZerosAre
<1>5. c \in Cursors(N) /\ c.p = 0 /\ End(c) = N
  BY <1>3, <1>4 DEF Cursors, End
<1>6. m \in Nat /\ c.p + m <= N
  BY <1>1, <1>5, LenProperties
<1>7. PICK x : x = Yes(Write(c, v))
  OBVIOUS
<1>8. Gave(c, N, v, x)
  BY <1>5, <1>6, <1>7, WriteGives
<1>9. PICK d : d = Write(c, v)
  OBVIOUS
<1>10. d \in Cursors(N) /\ d.p = m /\ \A i \in 1..m : d.mem[i] = v[i]
  <2>1. x.ok /\ x.c = d
    BY <1>7, <1>9 DEF Yes
  <2>2. x \in PushSet(N) /\ Put(c, v, d)
    BY <1>8, <2>1 DEF Gave
  <2>3. d.p = c.p + m /\ \A i \in 1..m : d.mem[c.p + i] = v[i]
    BY <2>2 DEF Put
  <2>4. d \in Cursors(N)
    BY <2>1, <2>2 DEF PushSet
  <2> QED BY <1>5, <1>6, <2>3, <2>4
<1>11. PICK f : f = CursorPushByte(d, 0).c
  OBVIOUS
<1>12. f \in Cursors(N) /\ \A i \in 1..m : f.mem[i] = v[i]
  <2>1. End(d) = N
    BY <1>10, CursorIs
  <2>2. CASE m + 1 > N
    <3>1. CursorPushByte(d, 0) = No(d)
      BY <1>10, <2>1, <2>2 DEF CursorPushByte
    <3> QED BY <1>10, <1>11, <3>1 DEF No
  <2>3. CASE ~(m + 1 > N)
    <3>1. 0 \in Octet
      BY DEF Octet
    <3>2. PICK y : y = CursorPushByte(d, 0)
      OBVIOUS
    <3>3. PICK one : one = <<0>>
      OBVIOUS
    <3>4. Gave(d, N, one, y)
      BY <1>10, <3>1, <3>2, <3>3, PushByteGives
    <3>5. y.ok
      BY <1>10, <2>1, <2>3, <3>2 DEF CursorPushByte, Yes
    <3>6. y \in PushSet(N) /\ Put(d, one, y.c)
      BY <3>4, <3>5 DEF Gave
    <3>7. \A i \in 1..m : f.mem[i] = d.mem[i]
      BY <1>10, <1>11, <3>2, <3>6 DEF Put
    <3>8. f \in Cursors(N)
      BY <1>11, <3>2, <3>6 DEF PushSet
    <3> QED BY <1>10, <3>7, <3>8
  <2> QED BY <2>2, <2>3
<1>13. SubSeq(f.mem, 1, m) = v
  <2>1. PICK mem : mem = f.mem
    OBVIOUS
  <2>2. mem \in Seq(Octet) /\ Len(mem) = N /\ m <= N
    BY <1>1, <1>12, <2>1, CursorIs
  <2>3. PICK s : s = SubSeq(mem, 1, m)
    OBVIOUS
  <2>4. s \in Seq(Octet) /\ Len(s) = m /\ \A i \in 1..m : s[i] = mem[i]
    BY <1>6, <2>2, <2>3, FirstBytes
  <2>5. \A i \in 1..m : s[i] = v[i]
    BY <1>12, <2>1, <2>4
  <2> QED BY <2>1, <2>3, <2>4, <2>5, SameBytes
<1> QED BY <1>1, <1>2, <1>5, <1>9, <1>11, <1>13

LEMMA PullStrTook ==
  ASSUME NEW n \in Nat, NEW c \in Cursors(n), NEW v \in Seq(Octet), Len(v) \in Small,
         Len(v) <= StrRoom, NEW e, e = VarintBytes(Len(v)) \o v, Shows(c, n, e)
  PROVE  Took(c, n, e, v, PullPrefixedStr(c))
<1>1. PICK m : m = Len(v)
  OBVIOUS
<1>2. PICK a : a = VarintBytes(m)
  OBVIOUS
<1>3. a \in Seq(Octet)
  BY <1>1, <1>2, VarintIs
<1>4. PICK k \in Nat : k = Len(a)
  BY <1>3, LenProperties
<1>5. e \in Seq(Octet) /\ Len(e) = k + m /\ m \in Nat
  BY <1>1, <1>2, <1>3, <1>4, BytesJoin
<1>6. /\ Shows(c, n, a)
      /\ \A d : d.mem = c.mem /\ d.p = c.p + k => Shows(d, n, v)
  BY <1>1, <1>2, <1>3, <1>4, ShowsParts
<1>7. PICK p \in 0..n : p = c.p
  BY CursorIs
<1>8. PICK length : length = PullVarint(c)
  OBVIOUS
<1>9. Took(c, n, a, <<m>>, length)
  BY <1>1, <1>2, <1>6, <1>8, PullVarintTook
<1>10. PICK d : d = length.c
  OBVIOUS
<1>11. /\ length.ok \in BOOLEAN /\ d \in Cursors(n) /\ d.mem = c.mem
       /\ p + k <= n => length.ok /\ length.v = <<m>> /\ d.p = p + k
       /\ p + k > n => ~length.ok
  BY <1>4, <1>7, <1>9, <1>10 DEF Took
<1>12. CASE p + k > n
  <2>1. PullPrefixedStr(c) = length
    BY <1>8, <1>11, <1>12 DEF PullPrefixedStr
  <2>2. ~length.ok /\ ~(p + (k + m) <= n)
    BY <1>5, <1>11, <1>12
  <2> QED BY <1>5, <1>7, <1>10, <1>11, <2>1, <2>2 DEF Took
<1>13. CASE ~(p + k > n)
  <2>1. length.ok /\ length.v = <<m>> /\ d.p = p + k
    BY <1>11, <1>13
  <2>2. length.v[1] = m
    BY <2>1
  <2>3. Shows(d, n, v)
    BY <1>6, <1>7, <1>11, <2>1
  <2>4. PICK x : x = CursorPull(d, m)
    OBVIOUS
  <2>5. Took(d, n, v, v, x)
    BY <1>1, <1>11, <2>3, <2>4, PullTook
  <2>6. /\ x.ok \in BOOLEAN /\ x.c \in Cursors(n)
        /\ (p + k) + m <= n => x.ok
        /\ (p + k) + m > n => ~x.ok
    BY <1>1, <2>1, <2>5 DEF Took
  <2>7. PICK pulled : pulled = PullDataInto(d, StrBuf, m)
    OBVIOUS
  <2>8. PullPrefixedStr(c) = IF ~pulled.ok THEN Refuses(d)
          ELSE Gives(pulled.c, SubSeq(CursorPushByte(pulled.v, 0).c.mem, 1, m))
    BY <1>8, <1>10, <2>1, <2>2, <2>7 DEF PullPrefixedStr
  <2>9. /\ StrBuf.p + m <= End(StrBuf)
        /\ SubSeq(CursorPushByte(Write(StrBuf, v), 0).c.mem, 1, m) = v
    BY <1>1, StrBufIs
  <2>10. CASE (p + k) + m > n
    <3>1. ~x.ok /\ ~(p + (k + m) <= n)
      BY <1>5, <2>6, <2>10
    <3>2. pulled = Refuses(d)
      BY <2>4, <2>7, <3>1 DEF PullDataInto
    <3>3. PullPrefixedStr(c) = Refuses(d)
      BY <2>8, <3>2 DEF Refuses
    <3> QED BY <1>5, <1>7, <1>11, <3>1, <3>3 DEF Took, Refuses
  <2>11. CASE ~((p + k) + m > n)
    <3>1. (p + k) + m <= n /\ p + (k + m) <= n /\ p + (k + m) = (p + k) + m /\ ~(p + (k + m) > n)
      BY <1>5, <2>11
    <3>2. x.ok
      BY <2>6, <3>1
    <3>3. pulled = Gives(Moved(d, m), Write(StrBuf, Ahead(d, m)))
      BY <2>4, <2>7, <2>9, <3>2 DEF PullDataInto
    <3>4. Ahead(d, m) = v
      BY <1>1, <1>11, <2>1, <2>3, <3>1, AheadShown
    <3>5. PullPrefixedStr(c) = Gives(Moved(d, m), v)
      BY <2>8, <2>9, <3>3, <3>4 DEF Gives
    <3>6. Moved(d, m) \in Cursors(n) /\ Moved(d, m).mem = d.mem /\ Moved(d, m).p = d.p + m
      BY <1>5, <1>11, <2>1, <3>1, MovedIs
    <3> QED BY <1>5, <1>7, <1>11, <2>1, <3>1, <3>5, <3>6 DEF Took, Gives
  <2> QED BY <2>10, <2>11
<1> QED BY <1>12, <1>13

LEMMA PullTlvTook ==
  ASSUME NEW n \in Nat, NEW c \in Cursors(n), NEW type \in Number, NEW value \in Seq(Octet),
         NEW m, m = Len(value), m \in Word, NEW a, a = BigsizePut(type),
         NEW b, b = BigsizePut(U64(m)), NEW ab, ab = a \o b, NEW e, e = ab \o value,
         Shows(c, n, e)
  PROVE  Took(c, n, e, type \o value, PullTlv(c))
<1>1. PICK u : u = U64(m)
  OBVIOUS
<1>2. u \in Number /\ FromBe16(Low(u, 2)) = m
  BY <1>1, U64Is
<1>3. a \in Seq(Octet) /\ b \in Seq(Octet)
  BY <1>1, <1>2, PutIs
<1>4. PICK i \in Nat, j \in Nat : i = Len(a) /\ j = Len(b)
  BY <1>3, LenProperties
<1>5. ab \in Seq(Octet) /\ Len(ab) = i + j
  BY <1>3, <1>4, BytesJoin
<1>6. e \in Seq(Octet) /\ Len(e) = (i + j) + m /\ m \in Nat
  <2>1. m \in Nat
    BY LenProperties
  <2>2. ab \o value \in Seq(Octet)
    BY <1>5, BytesJoin
  <2>3. Len(ab \o value) = Len(ab) + Len(value)
    BY <1>5, BytesJoin
  <2>4. Len(ab \o value) = (i + j) + m
    BY <1>5, <2>3
  <2> QED BY <2>1, <2>2, <2>4
<1>7. PICK p \in 0..n : p = c.p
  BY CursorIs
<1>8. /\ Shows(c, n, ab)
      /\ \A d : d.mem = c.mem /\ d.p = c.p + (i + j) => Shows(d, n, value)
  BY <1>5, ShowsParts
<1>9. /\ Shows(c, n, a)
      /\ \A d : d.mem = c.mem /\ d.p = c.p + i => Shows(d, n, b)
  BY <1>3, <1>4, <1>8, ShowsParts
<1>10. PICK x : x = PullBigsize(c)
  OBVIOUS
<1>11. PICK y : y = PullBigsize(x.c)
  OBVIOUS
<1>12. PICK z : z = CursorPull(y.c, FromBe16(Low(y.v, 2)))
  OBVIOUS
<1>13. PullTlv(c) = IF x.ok /\ y.ok /\ z.ok THEN Gives(z.c, x.v \o z.v) ELSE Refuses(c)
  BY <1>10, <1>11, <1>12 DEF PullTlv
<1>14. Took(c, n, a, type, x)
  BY <1>9, <1>10, PullBigsizeTook
<1>15. /\ x.ok \in BOOLEAN /\ x.c \in Cursors(n) /\ x.c.mem = c.mem
       /\ p + i <= n => x.ok /\ x.v = type /\ x.c.p = p + i
       /\ p + i > n => ~x.ok
  BY <1>4, <1>7, <1>14 DEF Took
<1>16. ASSUME PullTlv(c) = Refuses(c), p + ((i + j) + m) > n
       PROVE  Took(c, n, e, type \o value, PullTlv(c))
  <2>1. ~(p + ((i + j) + m) <= n)
    BY <1>6, <1>16
  <2> QED BY <1>6, <1>7, <1>16, <2>1 DEF Took, Refuses
<1>17. CASE p + i > n
  <2>1. ~x.ok /\ p + ((i + j) + m) > n
    BY <1>6, <1>15, <1>17
  <2> QED BY <1>13, <1>16, <2>1
<1>18. CASE ~(p + i > n)
  <2>1. x.ok /\ x.v = type /\ x.c.p = p + i
    BY <1>15, <1>18
  <2>2. PICK d : d = x.c
    OBVIOUS
  <2>3. d \in Cursors(n) /\ d.mem = c.mem /\ d.p = p + i /\ Shows(d, n, b)
    BY <1>7, <1>9, <1>15, <2>1, <2>2
  <2>4. y = PullBigsize(d)
    BY <1>11, <2>2
  <2>5. Took(d, n, b, u, y)
    BY <1>1, <1>2, <2>3, <2>4, PullBigsizeTook
  <2>6. /\ y.ok \in BOOLEAN /\ y.c \in Cursors(n) /\ y.c.mem = c.mem
        /\ (p + i) + j <= n => y.ok /\ y.v = u /\ y.c.p = (p + i) + j
        /\ (p + i) + j > n => ~y.ok
    BY <1>4, <2>3, <2>5 DEF Took
  <2>7. CASE (p + i) + j > n
    <3>1. ~y.ok /\ p + ((i + j) + m) > n
      BY <1>6, <2>6, <2>7
    <3> QED BY <1>13, <1>16, <3>1
  <2>8. CASE ~((p + i) + j > n)
    <3>1. y.ok /\ y.v = u /\ y.c.p = (p + i) + j
      BY <2>6, <2>8
    <3>2. PICK f : f = y.c
      OBVIOUS
    <3>3. f \in Cursors(n) /\ f.mem = c.mem /\ f.p = p + (i + j)
      BY <2>6, <3>1, <3>2
    <3>4. Shows(f, n, value)
      BY <1>7, <1>8, <3>3
    <3>5. z = CursorPull(f, m)
      BY <1>2, <1>12, <3>1, <3>2
    <3>6. Took(f, n, value, value, z)
      BY <3>3, <3>4, <3>5, PullTook
    <3>7. /\ z.ok \in BOOLEAN /\ z.c \in Cursors(n) /\ z.c.mem = c.mem
          /\ (p + (i + j)) + m <= n => z.ok /\ z.v = value /\ z.c.p = (p + (i + j)) + m
          /\ (p + (i + j)) + m > n => ~z.ok
      BY <3>3, <3>6 DEF Took
    <3>8. (p + (i + j)) + m = p + ((i + j) + m)
      BY <1>6
    <3>9. CASE (p + (i + j)) + m > n
      <4>1. ~z.ok /\ p + ((i + j) + m) > n
        BY <3>7, <3>8, <3>9
      <4> QED BY <1>13, <1>16, <4>1
    <3>10. CASE ~((p + (i + j)) + m > n)
      <4>1. (p + (i + j)) + m <= n
        BY <1>6, <3>10
      <4>2. z.ok /\ z.v = value /\ z.c.p = p + ((i + j) + m)
        BY <3>7, <3>8, <4>1
      <4>3. PullTlv(c) = Gives(z.c, type \o value)
        BY <1>13, <2>1, <3>1, <4>2
      <4>4. ~(p + ((i + j) + m) > n)
        BY <3>8, <3>10
      <4> QED BY <1>6, <1>7, <3>7, <4>2, <4>3, <4>4 DEF Took, Gives
    <3> QED BY <3>9, <3>10
  <2> QED BY <2>7, <2>8
<1> QED BY <1>17, <1>18

Agrees(x, u, made, v) == x.ok /\ x.v = u => made = v
Remade(x, made) == IF x.ok THEN Gives(x.c, made) ELSE x

\* A pull whose value is made of what another pull gave.
LEMMA TookOther ==
  ASSUME NEW n \in Nat, NEW c \in Cursors(n), NEW e \in Seq(Octet), NEW u, NEW v, NEW x, NEW made,
         Took(c, n, e, u, x), NEW y, y = Remade(x, made), Agrees(x, u, made, v)
  PROVE  Took(c, n, e, v, y)
<1>1. PICK p \in 0..n, l \in Nat : p = c.p /\ l = Len(e)
  BY CursorIs, LenProperties
<1>2. /\ x.ok \in BOOLEAN /\ x.c \in Cursors(n) /\ x.c.mem = c.mem
      /\ p + l <= n => x.ok /\ x.v = u /\ x.c.p = p + l
      /\ p + l > n => ~x.ok
  BY <1>1 DEF Took
<1>3. CASE p + l <= n
  <2>1. ~(p + l > n)
    BY <1>3
  <2>2. x.ok /\ x.v = u /\ x.c.p = p + l
    BY <1>2, <1>3
  <2>3. y = Gives(x.c, v)
    BY <2>2 DEF Agrees, Remade
  <2>4. y.ok /\ y.c = x.c /\ y.v = v
    BY <2>3 DEF Gives
  <2>5. Took(c, n, e, v, y) = (/\ p + l <= n => y.ok /\ y.v = v /\ y.c.p = p + l
                              /\ p + l > n => ~y.ok)
    BY <1>1, <1>2, <2>4 DEF Took
  <2> QED BY <2>1, <2>2, <2>4, <2>5
<1>4. CASE ~(p + l <= n)
  <2>1. p + l > n
    BY <1>4
  <2>2. y = x
    BY <1>2, <2>1 DEF Remade
  <2> QED BY <1>1, <1>2, <1>4, <2>1, <2>2 DEF Took
<1> QED BY <1>3, <1>4

\* A value comes back from its bytes, when they are there as a whole.
LEMMA PullIs ==
  ASSUME NEW n \in Nat, NEW c \in Cursors(n), NEW item, Allowed(item), Shows(c, n, Enc(item))
  PROVE  Took(c, n, Enc(item), item.v, Pull(c, item))
<1>1. PICK k, v, e : k = item.kind /\ v = item.v /\ e = Enc(item)
  OBVIOUS
<1>2. Shows(c, n, e)
  BY <1>1
<1>3. CASE k = "byte"
  <2>1. Len(v) = 1 /\ v \in Seq(Octet) /\ e = v
    BY <1>1, <1>3, AllowedIs DEF Enc
  <2>2. PICK x : x = PullByte(c)
    OBVIOUS
  <2>3. Took(c, n, e, e[1], x)
    BY <1>2, <2>1, <2>2, PullByteTook
  <2>4. Pull(c, item) = IF x.ok THEN Gives(x.c, <<x.v>>) ELSE x
    BY <1>1, <1>3, <2>2 DEF Pull
  <2>5. PICK h : h = e[1]
    OBVIOUS
  <2>6. v = <<h>>
    BY <2>1, <2>5
  <2>7. PICK made, y : made = <<x.v>> /\ y = Pull(c, item)
    OBVIOUS
  <2>8. y = Remade(x, made)
    BY <2>4, <2>7 DEF Remade
  <2>9. Agrees(x, h, made, v)
    BY <2>6, <2>7 DEF Agrees
  <2>10. Took(c, n, e, v, y)
    BY <2>1, <2>3, <2>5, <2>8, <2>9, TookOther
  <2> QED BY <1>1, <2>7, <2>10
<1>4. CASE k = "u16"
  <2>1. Len(v) = 1 /\ v[1] \in Word /\ e = Be16(v[1])
    BY <1>1, <1>4, AllowedIs DEF Enc
  <2>2. e \in Seq(Octet) /\ Len(e) = 2 /\ FromBe16(e) = v[1]
    BY <2>1, Be16Is
  <2>3. PICK x : x = CursorPull(c, 2)
    OBVIOUS
  <2>4. Took(c, n, e, e, x)
    BY <1>2, <2>2, <2>3, PullTook
  <2>5. Pull(c, item) = IF x.ok THEN Gives(x.c, <<FromBe16(x.v)>>) ELSE x
    BY <1>1, <1>4, <2>3 DEF Pull
  <2>6. PICK h : h = v[1]
    OBVIOUS
  <2>7. v = <<h>>
    <3>1. v \in Seq(UpTo(65535))
      BY <1>1, <1>4, SMT DEF Allowed
    <3> QED BY <2>1, <2>6, <3>1, SMT
  <2>8. PICK made, y : made = <<FromBe16(x.v)>> /\ y = Pull(c, item)
    OBVIOUS
  <2>9. y = Remade(x, made)
    BY <2>5, <2>8 DEF Remade
  <2>10. Agrees(x, e, made, v)
    BY <2>2, <2>6, <2>7, <2>8 DEF Agrees
  <2>11. Took(c, n, e, v, y)
    BY <2>2, <2>4, <2>9, <2>10, TookOther
  <2> QED BY <1>1, <2>8, <2>11
<1>5. CASE k \in {"u64", "data"}
  <2>1. v \in Seq(Octet) /\ e = v
    BY <1>1, <1>5, AllowedIs, NumberIs DEF Enc
  <2>2. PICK h : h = Len(v)
    OBVIOUS
  <2>3. Pull(c, item) = CursorPull(c, h)
    <3>1. CASE k = "u64"
      <4>1. v \in Number
        BY <1>1, <3>1, AllowedIs
      <4>2. h = 8
        BY <2>2, <4>1 DEF Number
      <4> QED BY <1>1, <3>1, <4>2 DEF Pull
    <3>2. CASE k = "data"
      BY <1>1, <2>2, <3>2 DEF Pull
    <3> QED BY <1>5, <3>1, <3>2
  <2> QED BY <1>1, <1>2, <2>1, <2>2, <2>3, PullTook
<1>6. CASE k = "cstr"
  <2>1. v \in Seq(1..255)
    BY <1>1, <1>6, AllowedIs
  <2>2. PICK z : z = <<0>>
    OBVIOUS
  <2>3. e = v \o z /\ Pull(c, item) = CursorPullCStr(c)
    BY <1>1, <1>6, <2>2 DEF Enc, Pull
  <2>4. Took(c, n, e, v, CursorPullCStr(c))
    BY <1>2, <2>1, <2>2, <2>3, PullCStrTook
  <2> QED BY <1>1, <2>3, <2>4
<1>7. CASE k = "varint"
  <2>1. PICK h : h = v[1]
    OBVIOUS
  <2>2. Len(v) = 1 /\ h \in Small
    BY <1>1, <1>7, <2>1, AllowedIs
  <2>3. e = VarintBytes(h) /\ Pull(c, item) = PullVarint(c)
    BY <1>1, <1>7, <2>1 DEF Enc, Pull
  <2>4. v = <<h>>
    <3>1. v \in Seq(UpTo(2147483647))
      BY <1>1, <1>7, SMT DEF Allowed
    <3> QED BY <2>1, <2>2, <3>1, SMT
  <2>5. Took(c, n, e, <<h>>, PullVarint(c))
    BY <1>2, <2>2, <2>3, PullVarintTook
  <2> QED BY <1>1, <2>3, <2>4, <2>5
<1>8. CASE k = "bigsize"
  <2>1. v \in Number /\ e = BigsizePut(v) /\ Pull(c, item) = PullBigsize(c)
    BY <1>1, <1>8, AllowedIs DEF Enc, Pull
  <2> QED BY <1>1, <1>2, <2>1, PullBigsizeTook
<1>9. CASE k = "compact"
  <2>1. v \in Number /\ e = VarintPut(v) /\ Pull(c, item) = PullCompact(c)
    BY <1>1, <1>9, AllowedIs DEF Enc, Pull
  <2> QED BY <1>1, <1>2, <2>1, PullCompactTook
<1>10. CASE k = "pstr"
  <2>1. v \in Seq(Octet) /\ Len(v) <= StrRoom
    BY <1>1, <1>10, AllowedIs
  <2>2. Len(v) \in Small
    BY <2>1, LenProperties, RoomIs, SMT DEF Small, UpTo
  <2>3. e = VarintBytes(Len(v)) \o v /\ Pull(c, item) = PullPrefixedStr(c)
    BY <1>1, <1>10 DEF Enc, Pull
  <2>4. Took(c, n, e, v, PullPrefixedStr(c))
    BY <1>2, <2>1, <2>2, <2>3, PullStrTook
  <2> QED BY <1>1, <2>3, <2>4
<1>11. CASE k = "tlv"
  <2>1. v \in Seq(Octet) /\ Len(v) >= 8 /\ Len(v) - 8 \in Word
    BY <1>1, <1>11, AllowedIs
  <2>2. PICK type, value : type = SubSeq(v, 1, 8) /\ value = SubSeq(v, 9, Len(v))
    OBVIOUS
  <2>3. type \in Number /\ value \in Seq(Octet) /\ Len(value) = Len(v) - 8 /\ v = type \o value
    <3>1. type \in Number /\ value \in Seq(Octet) /\ Len(value) = Len(v) - 8
      BY <2>1, <2>2, TlvParts
    <3>2. v = type \o value
      BY <2>1, <2>2, TlvParts
    <3> QED BY <3>1, <3>2
  <2>4. PICK m : m = Len(value)
    OBVIOUS
  <2>5. PICK a, b : a = BigsizePut(type) /\ b = BigsizePut(U64(m))
    OBVIOUS
  <2>6. PICK ab : ab = a \o b
    OBVIOUS
  <2>7. e = ab \o value /\ Pull(c, item) = PullTlv(c) /\ m \in Word
    BY <1>1, <1>11, <2>1, <2>2, <2>3, <2>4, <2>5, <2>6 DEF Enc, Pull
  <2>8. Took(c, n, e, type \o value, PullTlv(c))
    BY <1>2, <2>3, <2>4, <2>5, <2>6, <2>7, PullTlvTook
  <2> QED BY <1>1, <2>3, <2>7, <2>8
<1> QED BY <1>1, <1>3, <1>4, <1>5, <1>6, <1>7, <1>8, <1>9, <1>10, <1>11, AllowedIs

-----------------------------------------------------------------------------
(* Bytes that no builder wrote *)

\* F[m] is what FlattenSeq gives, put together one by one.
Flattens(F, s, m) ==
  /\ FlattenSeq(s) = F[m]
  /\ \A i \in 1..m : F[i] = IF i = 1 THEN s[i] ELSE F[i - 1] \o s[i]

LEMMA FlattenIs ==
  ASSUME NEW s, NEW m \in Nat, m = Len(s), m # 0
  PROVE  \E F : Flattens(F, s, m)
<1>1. PICK F : F = CHOOSE f : Flat(f, s, m)
  OBVIOUS
<1>2. Flat(F, s, m)
  BY <1>1, FlatExists
<1>3. \A i \in 1..m : F[i] = IF i = 1 THEN s[i] ELSE F[i - 1] \o s[i]
  BY <1>2 DEF Flat
<1>4. FlattenSeq(s) = (CHOOSE f : f = [i \in 1..Len(s) |->
                         IF i = 1 THEN s[i] ELSE f[i - 1] \o s[i]])[Len(s)]
  <2>1. Len(s) # 0
    OBVIOUS
  <2> QED BY <2>1, Zenon DEF FlattenSeq
<1>5. FlattenSeq(s) = F[m]
  BY <1>1, <1>4 DEF Flat
<1> QED BY <1>3, <1>5 DEF Flattens

LEMMA FlattenNothing ==
  ASSUME NEW e, e = <<>>
  PROVE  FlattenSeq(e) = e
<1>1. Len(e) = 0
  OBVIOUS
<1> QED BY <1>1, Zenon DEF FlattenSeq

\* A sequence more is flattened behind the others.
LEMMA FlattenOneMore ==
  ASSUME NEW T, NEW s \in Seq(Seq(T)), NEW x \in Seq(T), NEW t, t = Append(s, x)
  PROVE  FlattenSeq(t) = FlattenSeq(s) \o x
<1>1. PICK m \in Nat : m = Len(s)
  BY LenProperties
<1>2. PICK j \in Nat : j = m + 1
  OBVIOUS
<1>3. j # 0 /\ j - 1 = m
  BY <1>2
<1>4. /\ Len(t) = j /\ t[j] = x /\ \A i \in 1..m : t[i] = s[i]
  <2>1. PICK R : R = Seq(T)
    OBVIOUS
  <2>2. s \in Seq(R) /\ x \in R
    BY <2>1
  <2>3. Len(t) = m + 1 /\ t[m + 1] = x /\ \A i \in 1..m : t[i] = s[i]
    BY <1>1, <2>2, AppendProperties
  <2>4. Len(t) = j
    BY <1>2, <2>3
  <2>5. t[j] = x
    BY <1>2, <2>3
  <2> QED BY <2>3, <2>4, <2>5
<1>5. PICK F : /\ FlattenSeq(t) = F[j]
               /\ \A i \in 1..j : F[i] = IF i = 1 THEN t[i] ELSE F[i - 1] \o t[i]
  <2>1. j = Len(t)
    BY <1>4
  <2>2. PICK F : Flattens(F, t, j)
    BY <1>3, <2>1, FlattenIs
  <2> QED BY <2>2 DEF Flattens
<1>6. CASE m = 0
  <2>1. s = <<>>
    BY <1>1, <1>6, EmptySeq
  <2>2. FlattenSeq(s) = s
    BY <2>1, FlattenNothing
  <2>3. j = 1 /\ 1 \in 1..j
    BY <1>2, <1>6
  <2>4. FlattenSeq(t) = x
    BY <1>4, <1>5, <2>3
  <2>5. s \o x = x
    <3>1. IsSeq(x)
      BY IsSeqOf
    <3> QED BY <2>1, <3>1, EmptyJoin
  <2> QED BY <2>2, <2>4, <2>5
<1>7. CASE m # 0
  <2>1. PICK G : /\ FlattenSeq(s) = G[m]
                 /\ \A i \in 1..m : G[i] = IF i = 1 THEN s[i] ELSE G[i - 1] \o s[i]
    <3>1. PICK G : Flattens(G, s, m)
      BY <1>1, <1>7, FlattenIs
    <3> QED BY <3>1 DEF Flattens
  <2> DEFINE I == {i \in 0..m : i = 0 \/ F[i] = G[i]}
  <2>2. 0 \in I
    OBVIOUS
  <2>3. ASSUME NEW k \in 0..(m - 1), k \in I PROVE k + 1 \in I
    <3>1. PICK i : i = k + 1
      OBVIOUS
    <3>2. i \in 1..m /\ i \in 1..j /\ i \in 0..m /\ i - 1 = k /\ (i = 1 <=> k = 0)
      BY <1>2, <3>1
    <3>3. t[i] = s[i]
      BY <1>4, <3>2
    <3>4. F[i] = (IF i = 1 THEN s[i] ELSE F[k] \o s[i]) /\ G[i] = (IF i = 1 THEN s[i] ELSE G[k] \o s[i])
      BY <1>5, <2>1, <3>2, <3>3
    <3>5. F[i] = G[i]
      BY <2>3, <3>2, <3>4
    <3> QED BY <3>1, <3>2, <3>5
  <2> HIDE DEF I
  <2>4. \A i \in 0..m : i \in I
    BY <2>2, <2>3, Induct
  <2>5. F[m] = G[m]
    BY <1>7, <2>4 DEF I
  <2>6. j \in 1..j /\ j # 1
    BY <1>2, <1>7
  <2>7. F[j] = F[m] \o t[j]
    BY <1>3, <1>5, <2>6
  <2> QED BY <1>4, <1>5, <2>1, <2>5, <2>7
<1> QED BY <1>6, <1>7

\* The bytes of numbers, each in its one encoding.
Spelled(vs) == FlattenSeq([i \in DOMAIN vs |-> BigsizePut(vs[i])])

LEMMA SpelledOneMore ==
  ASSUME NEW vs \in Seq(Number), NEW v \in Number, NEW ws, ws = Append(vs, v)
  PROVE  Spelled(ws) = Spelled(vs) \o BigsizePut(v)
<1>1. PICK m \in Nat : m = Len(vs)
  BY LenProperties
<1>2. PICK s, t, x : /\ s = [i \in DOMAIN vs |-> BigsizePut(vs[i])] /\ x = BigsizePut(v)
                     /\ t = [i \in DOMAIN ws |-> BigsizePut(ws[i])]
  OBVIOUS
<1>3. PICK S : S = Octet
  OBVIOUS
<1>4. x \in Seq(S) /\ \A i \in 1..m : BigsizePut(vs[i]) \in Seq(S)
  BY <1>1, <1>2, <1>3, PutIs, ElementOfSeq
<1>5. DOMAIN vs = 1..m /\ DOMAIN ws = 1..(m + 1) /\ ws[m + 1] = v /\ \A i \in 1..m : ws[i] = vs[i]
  BY <1>1, AppendProperties, LenProperties
<1>6. s \in Seq(Seq(S)) /\ Len(s) = m
  BY <1>2, <1>4, <1>5, SeqDef, LenProperties
<1>7. PICK u : u = Append(s, x)
  OBVIOUS
<1>8. /\ u \in Seq(Seq(S)) /\ Len(u) = m + 1 /\ u[m + 1] = x
      /\ \A i \in 1..m : u[i] = s[i]
  <2>1. PICK R : R = Seq(S)
    OBVIOUS
  <2>2. s \in Seq(R) /\ x \in R
    BY <1>4, <1>6, <2>1
  <2>3. u \in Seq(R)
    BY <1>7, <2>2, AppendProperties
  <2>4. Len(u) = m + 1 /\ u[m + 1] = x /\ \A i \in 1..m : u[i] = s[i]
    BY <1>6, <1>7, <2>2, AppendProperties
  <2> QED BY <2>1, <2>3, <2>4
<1>9. t = u
  <2>1. \A i \in 1..m : u[i] = BigsizePut(vs[i])
    BY <1>2, <1>5, <1>8
  <2>2. t = [i \in 1..(m + 1) |-> BigsizePut(ws[i])]
    BY <1>2, <1>5
  <2>3. IsSeq(t) /\ Len(t) = m + 1
    <3>1. DOMAIN t = 1..(m + 1)
      BY <2>2
    <3>2. Len(t) = m + 1
      BY <3>1
    <3>3. t = [i \in 1..(m + 1) |-> t[i]]
      BY <2>2
    <3> QED BY <3>2, <3>3 DEF IsSeq
  <2>4. IsSeq(u)
    BY <1>8, IsSeqOf
  <2>5. ASSUME NEW i \in 1..(m + 1) PROVE t[i] = u[i]
    <3>1. t[i] = BigsizePut(ws[i])
      BY <2>2
    <3>2. CASE i \in 1..m
      BY <1>5, <2>1, <3>1, <3>2
    <3>3. CASE i \notin 1..m
      <4>1. i = m + 1
        BY <3>3
      <4> QED BY <1>2, <1>5, <1>8, <3>1, <4>1
    <3> QED BY <3>2, <3>3
  <2> QED BY <1>8, <2>3, <2>4, <2>5, SameSeq
<1>10. FlattenSeq(u) = FlattenSeq(s) \o x
  BY <1>4, <1>6, <1>7, FlattenOneMore
<1> QED BY <1>2, <1>9, <1>10 DEF Spelled

\* What a read of a number does to bytes of any origin.
LEMMA PullBigsizeIs ==
  ASSUME NEW n \in Nat, NEW c \in Cursors(n), NEW x, x = PullBigsize(c)
  PROVE  /\ x.ok \in BOOLEAN /\ x.c \in Cursors(n) /\ x.c.mem = c.mem
         /\ ~x.ok => x.c = c
         /\ x.ok => /\ x.v \in Number
                    /\ SubSeq(c.mem, 1, x.c.p) = SubSeq(c.mem, 1, c.p) \o BigsizePut(x.v)
<1>0. PICK mem : mem = c.mem
  OBVIOUS
<1>1. PICK p \in 0..n : p = c.p
  BY CursorIs
<1>2. mem \in Seq(Octet) /\ Len(mem) = n /\ End(c) = n
  BY <1>0, <1>1, CursorIs
<1>3. PICK q \in Nat : q = n - p
  OBVIOUS
<1>4. PICK rest : rest = Ahead(c, q)
  OBVIOUS
<1>5. rest \in Seq(Octet) /\ Len(rest) = q /\ \A i \in 1..q : rest[i] = mem[p + i]
  <2>1. c.p + q <= n
    BY <1>0, <1>1, <1>3
  <2> QED BY <1>0, <1>1, <1>4, <2>1, AheadIs
<1>6. PICK k, v : k = BigsizeGet(rest).n /\ v = BigsizeGet(rest).v
  OBVIOUS
<1>7. x = IF k = 0 THEN Refuses(c) ELSE Gives(Moved(c, k), v)
  BY <1>0, <1>1, <1>2, <1>3, <1>4, <1>6 DEF PullBigsize
<1>8. k \in Nat /\ k <= q
  <2>1. TakenAt(rest) \in {0, 1, 3, 5, 9}
    BY DEF TakenAt
  <2>2. k = 0 \/ (k = TakenAt(rest) /\ TakenAt(rest) <= Len(rest))
    BY <1>6 DEF BigsizeGet
  <2> QED BY <1>5, <2>1, <2>2
<1>9. CASE k = 0
  BY <1>7, <1>9 DEF Refuses
<1>10. CASE k # 0
  <2>1. BigsizeGet(rest).n > 0
    BY <1>6, <1>8, <1>10
  <2>2. v \in Number /\ BigsizePut(v) = SubSeq(rest, 1, k)
    BY <1>5, <1>6, <2>1, BigsizeCanonical
  <2>3. PICK s \in Nat : s = p + k
    BY <1>8
  <2>4. s <= n
    BY <1>3, <1>8, <2>3
  <2>5. x.ok /\ x.c = Moved(c, k) /\ x.v = v
    BY <1>7, <1>10 DEF Gives
  <2>6. x.c \in Cursors(n) /\ x.c.mem = mem /\ x.c.p = s
    BY <1>0, <1>1, <1>8, <2>3, <2>4, <2>5, MovedIs
  <2>7. PICK a, e, u : a = SubSeq(mem, 1, p) /\ e = SubSeq(rest, 1, k) /\ u = SubSeq(mem, 1, s)
    OBVIOUS
  <2>8. a \in Seq(Octet) /\ Len(a) = p /\ \A i \in 1..p : a[i] = mem[i]
    BY <1>2, <2>7, FirstBytes
  <2>9. e \in Seq(Octet) /\ Len(e) = k /\ \A i \in 1..k : e[i] = rest[i]
    BY <1>5, <1>8, <2>7, FirstBytes
  <2>10. u \in Seq(Octet) /\ Len(u) = s /\ \A i \in 1..s : u[i] = mem[i]
    BY <1>2, <2>4, <2>7, FirstBytes
  <2>11. PICK w1 : w1 = a \o e
    OBVIOUS
  <2>12. IsSeq(a) /\ IsSeq(e) /\ IsSeq(u)
    BY <2>8, <2>9, <2>10, IsSeqOf
  <2>13. Joined(a, e, w1)
    BY <2>11, <2>12, Joins
  <2>14. /\ IsSeq(w1) /\ Len(w1) = s /\ \A i \in 1..p : w1[i] = a[i]
         /\ \A i \in 1..k : w1[p + i] = e[i]
    <3>1. IsSeq(w1)
      BY <2>11, <2>12, JoinIsSeq
    <3> QED BY <2>3, <2>8, <2>9, <2>13, <3>1 DEF Joined
  <2>15. ASSUME NEW i \in 1..s PROVE u[i] = w1[i]
    <3>1. u[i] = mem[i]
      BY <2>10
    <3>2. CASE i <= p
      <4>1. i \in 1..p
        BY <3>2
      <4> QED BY <2>8, <2>14, <3>1, <4>1
    <3>3. CASE ~(i <= p)
      <4>1. PICK j \in 1..k : i = p + j
        <5>1. i - p \in 1..k /\ i = p + (i - p)
          BY <1>8, <2>3, <3>3
        <5> QED BY <5>1
      <4>2. j \in 1..q
        BY <1>8
      <4> QED BY <1>5, <2>9, <2>14, <3>1, <4>1, <4>2
    <3> QED BY <3>2, <3>3
  <2>16. u = w1
    BY <2>10, <2>12, <2>14, <2>15, SameSeq
  <2>17. SubSeq(c.mem, 1, x.c.p) = SubSeq(c.mem, 1, c.p) \o BigsizePut(x.v)
    BY <1>0, <1>1, <2>2, <2>5, <2>6, <2>7, <2>11, <2>16
  <2> QED BY <1>0, <1>1, <2>2, <2>5, <2>6, <2>17
<1> QED BY <1>9, <1>10

-----------------------------------------------------------------------------
(* The inductive invariant of the codec *)

\* Where the writer stands, its buffer holds what it was asked to push.
Built == Spells(asked, SubSeq(w.mem, 1, w.p))

CodecType ==
  /\ phase \in {"writes", "refused", "reads", "stopped"}
  /\ End(w) \in Nat /\ w \in Cursors(End(w))
  /\ End(r) \in Nat /\ r \in Cursors(End(r))
  /\ asked \in Seq(Parts)

\* Nothing is read yet.
Fresh == got = <<>> /\ r = Unwritten

\* The bytes that were read from elsewhere are those of the numbers got.
ReadNumbers == got \in Seq(Number) /\ SubSeq(r.mem, 1, r.p) = Spelled(got)

\* The reader's bytes are the first of the writer's.
Same == End(r) <= w.p /\ \A i \in 1..End(r) : r.mem[i] = w.mem[i]

\* What was got are the first values asked for; the reader stands behind them,
\* or it was cut short in the next one.
ReadBack ==
  /\ IsSeq(got) /\ Len(got) <= Len(asked)
  /\ \A i \in 1..Len(got) : got[i] = asked[i].v
  /\ phase = "reads" => r.p = Ends(asked)[Len(got)]
  /\ phase = "stopped" =>
       /\ Ends(asked)[Len(got)] <= End(r)
       /\ Len(got) < Len(asked) => Ends(asked)[Len(got) + 1] > End(r)

Written ==
  /\ phase = "writes" => Fresh /\ Built
  /\ phase = "refused" => Fresh /\ Ends(asked)[Len(asked)] >= End(w)

Reading ==
  phase \in {"reads", "stopped"} =>
    IF w = Unwritten THEN ReadNumbers ELSE Built /\ Same /\ ReadBack

CodecInv == CodecType /\ Written /\ Reading

LEMMA MadeIs ==
  ASSUME NEW b \in Seq(Octet), NEW n, n = Len(b), NEW c, c = MakeCursor(b)
  PROVE  /\ n \in Nat /\ c \in Cursors(n) /\ End(c) = n /\ c.mem = b /\ c.p = 0
<1>1. n \in Nat /\ 0 \in 0..n
  BY LenProperties
<1>2. c = [mem |-> b, p |-> 0]
  BY DEF MakeCursor
<1>3. c \in Cursors(n)
  BY <1>1, <1>2 DEF Cursors
<1>4. End(c) = n
  BY <1>2 DEF End
<1> QED BY <1>1, <1>2, <1>3, <1>4

LEMMA UnwrittenIs ==
  /\ Unwritten \in Cursors(0) /\ End(Unwritten) = 0 /\ Unwritten.p = 0
  /\ Unwritten.mem = <<>>
<1>1. PICK b, n : b = <<>> /\ n = 0
  OBVIOUS
<1>2. b \in Seq(Octet) /\ n = Len(b)
  BY <1>1
<1>3. PICK c : c = MakeCursor(b)
  OBVIOUS
<1>4. c \in Cursors(n) /\ End(c) = n /\ c.mem = b /\ c.p = 0
  BY <1>2, <1>3, MadeIs
<1> QED BY <1>1, <1>3, <1>4 DEF Unwritten

LEMMA NoBytes ==
  ASSUME NEW b \in Seq(Octet)
  PROVE  SubSeq(b, 1, 0) = <<>>
<1>1. PICK e, n : e = SubSeq(b, 1, 0) /\ n = 0
  OBVIOUS
<1>2. n \in Nat /\ n <= Len(b)
  BY <1>1, LenProperties
<1>3. e \in Seq(Octet) /\ Len(e) = 0
  BY <1>1, <1>2, FirstBytes
<1> QED BY <1>1, <1>3, EmptySeq

\* Nothing is what was read, or written, at the start of any bytes.
LEMMA StartIs ==
  ASSUME NEW b \in Seq(Octet), NEW e, e = <<>>
  PROVE  /\ e \in Seq(Parts) /\ Spells(e, SubSeq(b, 1, 0)) /\ Ends(e)[0] = 0 /\ Len(e) = 0
         /\ e \in Seq(Number) /\ SubSeq(b, 1, 0) = Spelled(e)
<1>1. SubSeq(b, 1, 0) = e
  BY NoBytes
<1>2. e \in Seq(Parts) /\ Spells(e, e)
  BY SpellsNothing
<1>3. Len(e) = 0 /\ e \in Seq(Number) /\ DOMAIN e = {}
  OBVIOUS
<1>4. Ends(e)[0] = 0
  BY <1>2, EndsAre
<1>5. Spelled(e) = e
  <2>1. [i \in DOMAIN e |-> BigsizePut(e[i])] = e
    BY <1>3
  <2> QED BY <2>1, FlattenNothing DEF Spelled
<1> QED BY <1>1, <1>2, <1>3, <1>4, <1>5

\* The first bytes of a buffer, as another one.
LEMMA HandedOver ==
  ASSUME NEW n \in Nat, NEW c \in Cursors(n), NEW k \in 0..c.p,
         NEW d, d = MakeCursor(SubSeq(c.mem, 1, k))
  PROVE  /\ d \in Cursors(k) /\ End(d) = k /\ d.p = 0
         /\ \A i \in 1..k : d.mem[i] = c.mem[i]
<1>1. PICK p \in 0..n : p = c.p
  BY CursorIs
<1>2. PICK mem : mem = c.mem
  OBVIOUS
<1>3. mem \in Seq(Octet) /\ Len(mem) = n /\ k \in Nat /\ k <= n
  BY <1>1, <1>2, CursorIs
<1>4. PICK b : b = SubSeq(mem, 1, k)
  OBVIOUS
<1>5. b \in Seq(Octet) /\ Len(b) = k /\ \A i \in 1..k : b[i] = mem[i]
  BY <1>3, <1>4, FirstBytes
<1>6. d \in Cursors(k) /\ End(d) = k /\ d.mem = b /\ d.p = 0
  BY <1>2, <1>4, <1>5, MadeIs
<1> QED BY <1>2, <1>5, <1>6

\* What was put stands behind what was there.
LEMMA PutBehind ==
  ASSUME NEW n \in Nat, NEW c \in Cursors(n), NEW d \in Cursors(n), NEW b \in Seq(Octet),
         Put(c, b, d)
  PROVE  SubSeq(d.mem, 1, d.p) = SubSeq(c.mem, 1, c.p) \o b
<1>1. PICK p \in 0..n : p = c.p
  BY CursorIs
<1>2. PICK q \in 0..n : q = d.p
  BY CursorIs
<1>3. PICK m \in Nat : m = Len(b)
  BY LenProperties
<1>4. q = p + m /\ (\A i \in 1..p : d.mem[i] = c.mem[i]) /\ \A i \in 1..m : d.mem[p + i] = b[i]
  BY <1>1, <1>2, <1>3 DEF Put
<1>5. PICK x, y, xb : x = SubSeq(c.mem, 1, p) /\ y = SubSeq(d.mem, 1, q) /\ xb = x \o b
  OBVIOUS
<1>6. x \in Seq(Octet) /\ Len(x) = p /\ \A i \in 1..p : x[i] = c.mem[i]
  <2>1. c.mem \in Seq(Octet) /\ p \in Nat /\ p <= Len(c.mem)
    BY CursorIs
  <2> QED BY <1>5, <2>1, FirstBytes
<1>7. y \in Seq(Octet) /\ Len(y) = q /\ \A i \in 1..q : y[i] = d.mem[i]
  <2>1. d.mem \in Seq(Octet) /\ q \in Nat /\ q <= Len(d.mem)
    BY CursorIs
  <2> QED BY <1>5, <2>1, FirstBytes
<1>8. IsSeq(x) /\ IsSeq(b) /\ IsSeq(y)
  BY <1>6, <1>7, IsSeqOf
<1>9. IsSeq(xb) /\ Joined(x, b, xb)
  BY <1>5, <1>8, Joins, JoinIsSeq
<1>10. /\ Len(xb) = q /\ \A i \in 1..p : xb[i] = x[i]
       /\ \A i \in 1..m : xb[p + i] = b[i]
  BY <1>3, <1>4, <1>6, <1>9 DEF Joined
<1>11. ASSUME NEW i \in 1..q PROVE y[i] = xb[i]
  <2>1. CASE i <= p
    <3>1. i \in 1..p
      BY <2>1
    <3> QED BY <1>4, <1>6, <1>7, <1>10, <3>1
  <2>2. CASE ~(i <= p)
    <3>1. PICK j \in 1..m : i = p + j
      <4>1. i - p \in 1..m /\ i = p + (i - p)
        BY <1>4, <2>2
      <4> QED BY <4>1
    <3> QED BY <1>4, <1>7, <1>10, <3>1
  <2> QED BY <2>1, <2>2
<1>12. y = xb
  BY <1>7, <1>8, <1>9, <1>10, <1>11, SameSeq
<1> QED BY <1>1, <1>2, <1>5, <1>12

\* A reader of a writer's first bytes that stands behind k items is shown the
\* next one.
LEMMA ShowsNext ==
  ASSUME NEW items \in Seq(Parts), NEW k \in Nat, NEW j, j = k + 1, j <= Len(items),
         NEW N \in Nat, NEW d \in Cursors(N), Spells(items, SubSeq(d.mem, 1, d.p)),
         NEW n \in Nat, NEW c \in Cursors(n), n <= d.p,
         \A i \in 1..n : c.mem[i] = d.mem[i], c.p = Ends(items)[k],
         NEW item, item = items[j]
  PROVE  Allowed(item) /\ Shows(c, n, Enc(item))
<1>1. PICK m \in Nat : m = Len(items)
  BY LenProperties
<1>2. j \in 1..m /\ j - 1 = k
  BY <1>1
<1>3. item \in Parts /\ Allowed(item)
  BY <1>1, <1>2, ElementOfSeq, PartsAllowed
<1>4. PICK p \in 0..n : p = c.p
  BY CursorIs
<1>5. PICK q \in 0..N : q = d.p
  BY CursorIs
<1>6. PICK b : b = SubSeq(d.mem, 1, q)
  OBVIOUS
<1>7. b \in Seq(Octet) /\ Len(b) = q /\ \A i \in 1..q : b[i] = d.mem[i]
  <2>1. d.mem \in Seq(Octet) /\ q \in Nat /\ q <= Len(d.mem)
    BY CursorIs
  <2> QED BY <1>6, <2>1, FirstBytes
<1>8. PICK e, l : e = Enc(item) /\ l = Len(e)
  OBVIOUS
<1>9. l \in Nat
  BY <1>3, <1>8, SizeIs
<1>10. \A i \in 1..l : b[p + i] = e[i]
  <2>1. Holds(b, items)
    BY <1>5, <1>6 DEF Spells
  <2>2. HoldsAt(b, items[j], Ends(items)[j - 1])
    BY <1>1, <1>2, <2>1 DEF Holds
  <2>3. HoldsAt(b, item, p)
    BY <1>2, <1>4, <2>2
  <2> QED BY <1>8, <2>3 DEF HoldsAt
<1>11. ASSUME NEW i \in 1..l, p + i <= n PROVE c.mem[p + i] = e[i]
  <2>1. PICK h : h = p + i
    OBVIOUS
  <2>2. h \in 1..n /\ h \in 1..q
    BY <1>5, <1>9, <1>11, <2>1
  <2>3. c.mem[h] = d.mem[h] /\ b[h] = d.mem[h] /\ b[h] = e[i]
    BY <1>7, <1>10, <2>1, <2>2
  <2> QED BY <2>1, <2>3
<1>12. Shows(c, n, e)
  BY <1>4, <1>8, <1>11 DEF Shows
<1> QED BY <1>3, <1>8, <1>12

LEMMA OneMoreIs ==
  ASSUME NEW s, IsSeq(s), NEW x, NEW t, t = Append(s, x)
  PROVE  /\ IsSeq(t) /\ Len(t) = Len(s) + 1 /\ t[Len(s) + 1] = x
         /\ \A i \in 1..Len(s) : t[i] = s[i]
<1>1. PICK R : s \in Seq(R)
  BY SeqIs
<1>2. PICK S : S = R \cup {x}
  OBVIOUS
<1>3. s \in Seq(S) /\ x \in S
  <2>1. R \subseteq S
    BY <1>2
  <2> QED BY <1>1, <1>2, <2>1, SeqDef, LenProperties, ElementOfSeq
<1>4. t \in Seq(S)
  BY <1>3, AppendProperties
<1> QED BY <1>3, <1>4, IsSeqOf, AppendProperties

LEMMA CodecBegins == CodecInit => CodecInv
<1> SUFFICES ASSUME CodecInit PROVE CodecInv
  OBVIOUS
<1>1. PICK e : e = <<>>
  OBVIOUS
<1>2. asked = e /\ got = e
  BY <1>1 DEF CodecInit
<1>3. e \in Seq(Parts) /\ Len(e) = 0
  BY <1>1, SpellsNothing
<1>4. CASE phase = "writes"
  <2>1. w \in {MakeCursor(Zeros(cap)) : cap \in Caps} /\ r = Unwritten
    BY <1>4 DEF CodecInit
  <2>2. PICK cap \in Caps : w = MakeCursor(Zeros(cap))
    BY <2>1
  <2>3. cap \in Nat
    BY CodecAssumption, SMT
  <2>4. PICK b : b = Zeros(cap)
    OBVIOUS
  <2>5. b \in Seq(Octet) /\ Len(b) = cap
    BY <2>3, <2>4, ZerosAre
  <2>6. w \in Cursors(cap) /\ End(w) = cap /\ w.mem = b /\ w.p = 0
    BY <2>2, <2>4, <2>5, MadeIs
  <2>7. CodecType
    BY <1>2, <1>3, <1>4, <2>1, <2>3, <2>6, UnwrittenIs DEF CodecType
  <2>8. Fresh
    BY <1>1, <1>2, <2>1 DEF Fresh
  <2>9. Built
    BY <1>1, <1>2, <2>5, <2>6, StartIs DEF Built
  <2> QED BY <1>4, <2>7, <2>8, <2>9 DEF CodecInv, Written, Reading
<1>5. CASE phase = "reads"
  <2>1. w = Unwritten /\ r \in {MakeCursor(b) : b \in Foreign}
    BY <1>5 DEF CodecInit
  <2>2. PICK b \in Foreign : r = MakeCursor(b)
    BY <2>1
  <2>3. b \in Seq(Octet)
    BY CodecAssumption, SMT DEF Octet
  <2>4. PICK n : n = Len(b)
    OBVIOUS
  <2>5. n \in Nat /\ r \in Cursors(n) /\ End(r) = n /\ r.mem = b /\ r.p = 0
    BY <2>2, <2>3, <2>4, MadeIs
  <2>6. CodecType
    BY <1>2, <1>3, <1>5, <2>1, <2>5, UnwrittenIs DEF CodecType
  <2>7. ReadNumbers
    BY <1>1, <1>2, <2>3, <2>5, StartIs DEF ReadNumbers
  <2> QED BY <1>5, <2>1, <2>6, <2>7 DEF CodecInv, Written, Reading
<1> QED BY <1>4, <1>5 DEF CodecInit

LEMMA PushesKeep ==
  ASSUME CodecInv, NEW items \in Seq(Parts), Pushes(items)
  PROVE  CodecInv'
<1>1. phase = "writes" /\ Fresh /\ Built /\ CodecType
  BY DEF Pushes, CodecInv, Written
<1>2. PICK n \in Nat : n = End(w)
  BY <1>1 DEF CodecType
<1>3. w \in Cursors(n) /\ End(r) \in Nat /\ r \in Cursors(End(r)) /\ asked \in Seq(Parts)
  BY <1>1, <1>2 DEF CodecType
<1>4. PICK x : x = PushAll(w, items)
  OBVIOUS
<1>5. /\ w' = x.c /\ phase' = (IF x.ok THEN "writes" ELSE "refused")
      /\ asked' = asked \o items /\ r' = r /\ got' = got
  BY <1>4 DEF Pushes
<1>6. PICK b : Spells(items, b) /\ Gave(w, n, b, x)
  BY <1>3, <1>4, PushAllGives
<1>7. x.ok \in BOOLEAN /\ x.c \in Cursors(n)
  BY <1>6, PushedIs DEF Gave
<1>8. PICK both : both = asked \o items
  OBVIOUS
<1>9. both \in Seq(Parts) /\ EndsJoined(asked, items, both) /\ Joined(asked, items, both)
  BY <1>3, <1>8, EndsJoin
<1>10. w' \in Cursors(n) /\ End(w') = n
  BY <1>5, <1>7, CursorIs
<1>11. CodecType'
  <2>1. phase' \in {"writes", "refused", "reads", "stopped"}
    BY <1>5
  <2>2. End(r') \in Nat /\ r' \in Cursors(End(r'))
    BY <1>3, <1>5
  <2>3. End(w)' \in Nat /\ w' \in Cursors(End(w)')
    <3>1. End(w)' = End(w')
      BY DEF End
    <3> QED BY <1>2, <1>10, <3>1
  <2>4. End(r)' \in Nat /\ r' \in Cursors(End(r)')
    <3>1. End(r)' = End(r')
      BY DEF End
    <3> QED BY <2>2, <3>1
  <2>5. asked' \in Seq(Parts)
    BY <1>5, <1>8, <1>9
  <2> QED BY <2>1, <2>3, <2>4, <2>5 DEF CodecType
<1>12. Fresh'
  BY <1>1, <1>5 DEF Fresh
<1>13. PICK a : a = SubSeq(w.mem, 1, w.p)
  OBVIOUS
<1>14. Spells(asked, a)
  BY <1>1, <1>13 DEF Built
<1>15. CASE x.ok
  <2>1. Put(w, b, x.c) /\ b \in Seq(Octet)
    BY <1>6, <1>15 DEF Gave, Spells
  <2>2. PICK y : y = x.c
    OBVIOUS
  <2>3. SubSeq(y.mem, 1, y.p) = a \o b
    BY <1>3, <1>7, <1>13, <2>1, <2>2, PutBehind
  <2>4. PICK ab : ab = a \o b
    OBVIOUS
  <2>5. Spells(both, ab)
    BY <1>3, <1>6, <1>8, <1>14, <2>4, SpellsJoin
  <2>6. asked' = both /\ w' = y
    BY <1>5, <1>8, <2>2
  <2>7. Built'
    BY <2>3, <2>4, <2>5, <2>6 DEF Built
  <2>8. phase' = "writes"
    BY <1>5, <1>15
  <2> QED BY <1>11, <1>12, <2>7, <2>8 DEF CodecInv, Written, Reading
<1>16. CASE ~x.ok
  <2>1. PICK p \in 0..n : p = w.p
    BY <1>3, CursorIs
  <2>2. PICK k \in Nat, m \in Nat : k = Len(asked) /\ m = Len(items)
    BY <1>3, LenProperties
  <2>3. p + Len(b) >= n /\ Len(b) = Ends(items)[m]
    BY <1>6, <1>16, <2>1, <2>2 DEF Gave, Spells
  <2>4. Len(a) = Ends(asked)[k]
    BY <1>14, <2>2 DEF Spells
  <2>5. Len(a) = p
    <3>1. w.mem \in Seq(Octet) /\ p \in Nat /\ p <= Len(w.mem)
      BY <1>3, CursorIs
    <3> QED BY <1>13, <2>1, <3>1, FirstBytes
  <2>6. Len(both) = k + m
    BY <1>9, <2>2 DEF Joined
  <2>7. Ends(both)[k + m] = Ends(asked)[k] + Ends(items)[m]
    BY <1>9, <2>2 DEF EndsJoined
  <2>8. Ends(both)[Len(both)] >= n
    BY <2>3, <2>4, <2>5, <2>6, <2>7
  <2>9. asked' = both /\ End(w)' = n
    <3>1. End(w)' = End(w')
      BY DEF End
    <3> QED BY <1>5, <1>8, <1>10, <3>1
  <2>10. (Ends(asked)[Len(asked)] >= End(w))'
    BY <2>8, <2>9
  <2>11. phase' = "refused"
    BY <1>5, <1>16
  <2> QED BY <1>11, <1>12, <2>10, <2>11 DEF CodecInv, Written, Reading
<1> QED BY <1>7, <1>15, <1>16

LEMMA HandedKeeps ==
  ASSUME CodecInv, Handed
  PROVE  CodecInv'
<1>1. phase = "writes" /\ Fresh /\ Built /\ CodecType
  BY DEF Handed, CodecInv, Written
<1>2. PICK n \in Nat : n = End(w)
  BY <1>1 DEF CodecType
<1>3. w \in Cursors(n) /\ asked \in Seq(Parts) /\ got = <<>>
  BY <1>1, <1>2 DEF CodecType, Fresh
<1>4. phase' = "reads" /\ w' = w /\ asked' = asked /\ got' = got
  BY DEF Handed
<1>5. PICK k \in 0..w.p : r' = MakeCursor(SubSeq(w.mem, 1, k))
  BY DEF Handed
<1>6. w.p \in 0..n /\ w.mem \in Seq(Octet) /\ Len(w.mem) = n
  BY <1>3, CursorIs
<1>7. PICK d : d = r'
  OBVIOUS
<1>8. d \in Cursors(k) /\ End(d) = k /\ d.p = 0 /\ \A i \in 1..k : d.mem[i] = w.mem[i]
  BY <1>3, <1>5, <1>7, HandedOver
<1>9. k \in Nat /\ d.mem \in Seq(Octet)
  BY <1>6, <1>8, CursorIs
<1>10. End(r)' = k /\ End(w)' = n
  <2>1. End(r)' = End(r') /\ End(w)' = End(w')
    BY DEF End
  <2> QED BY <1>2, <1>4, <1>7, <1>8, <2>1
<1>11. CodecType'
  BY <1>3, <1>4, <1>7, <1>8, <1>9, <1>10 DEF CodecType
<1>12. CASE w = Unwritten
  <2>1. ReadNumbers'
    <3>1. PICK e : e = <<>>
      OBVIOUS
    <3>2. e \in Seq(Number) /\ SubSeq(d.mem, 1, 0) = Spelled(e)
      BY <1>9, <3>1, StartIs
    <3> QED BY <1>3, <1>4, <1>7, <1>8, <3>1, <3>2 DEF ReadNumbers
  <2>2. w' = Unwritten
    BY <1>4, <1>12
  <2> QED BY <1>4, <1>11, <2>1, <2>2 DEF CodecInv, Written, Reading, Unwritten
<1>13. CASE w # Unwritten
  <2>1. Built'
    BY <1>1, <1>4 DEF Built
  <2>2. Same'
    BY <1>4, <1>7, <1>8, <1>10 DEF Same
  <2>3. ReadBack'
    <3>1. PICK e : e = <<>>
      OBVIOUS
    <3>2. IsSeq(e) /\ Len(e) = 0
      <4>1. e \in Seq(Octet) /\ Len(e) = 0
        BY <3>1
      <4> QED BY <4>1, IsSeqOf
    <3>3. Ends(asked)[0] = 0 /\ Len(asked) \in Nat
      BY <1>3, EndsAre, LenProperties
    <3> QED BY <1>3, <1>4, <1>7, <1>8, <3>1, <3>2, <3>3 DEF ReadBack
  <2>4. w' # Unwritten
    BY <1>4, <1>13
  <2> QED BY <1>4, <1>11, <2>1, <2>2, <2>3, <2>4 DEF CodecInv, Written, Reading, Unwritten
<1> QED BY <1>12, <1>13

\* A read of bytes from elsewhere.
LEMMA NumberKeeps ==
  ASSUME CodecInv, PullItem, w = Unwritten
  PROVE  CodecInv'
<1>1. phase = "reads" /\ CodecType /\ ReadNumbers
  BY DEF PullItem, CodecInv, Reading
<1>2. PICK n \in Nat : n = End(r)
  BY <1>1 DEF CodecType
<1>3. r \in Cursors(n) /\ got \in Seq(Number) /\ SubSeq(r.mem, 1, r.p) = Spelled(got)
  BY <1>1, <1>2 DEF CodecType, ReadNumbers
<1>4. PICK x : x = PullBigsize(r)
  OBVIOUS
<1>5. Pull(r, Expected) = x
  <2>1. Expected.kind = "bigsize"
    BY DEF Expected, Item
  <2> QED BY <1>4, <2>1 DEF Pull
<1>6. /\ r' = x.c /\ w' = w /\ asked' = asked
      /\ \/ x.ok /\ got' = Append(got, x.v) /\ phase' = phase
         \/ ~x.ok /\ phase' = "stopped" /\ got' = got
  BY <1>5 DEF PullItem
<1>7. /\ x.ok \in BOOLEAN /\ x.c \in Cursors(n) /\ x.c.mem = r.mem
      /\ ~x.ok => x.c = r
      /\ x.ok => /\ x.v \in Number
                 /\ SubSeq(r.mem, 1, x.c.p) = SubSeq(r.mem, 1, r.p) \o BigsizePut(x.v)
  BY <1>3, <1>4, PullBigsizeIs
<1>8. PICK d : d = r'
  OBVIOUS
<1>9. d \in Cursors(n) /\ End(d) = n /\ d = x.c
  BY <1>6, <1>7, <1>8, CursorIs
<1>10. End(r)' = n /\ End(w)' = End(w)
  <2>1. End(r)' = End(r') /\ End(w)' = End(w')
    BY DEF End
  <2> QED BY <1>6, <1>8, <1>9, <2>1
<1>11. phase' \in {"reads", "stopped"}
  BY <1>1, <1>6
<1>12. CodecType'
  BY <1>1, <1>6, <1>8, <1>9, <1>10, <1>11 DEF CodecType
<1>13. ReadNumbers'
  <2>1. CASE x.ok
    <3>1. PICK v, ws : v = x.v /\ ws = got'
      OBVIOUS
    <3>2. ws = Append(got, v) /\ v \in Number
      BY <1>6, <1>7, <2>1, <3>1
    <3>3. ws \in Seq(Number) /\ Spelled(ws) = Spelled(got) \o BigsizePut(v)
      BY <1>3, <3>2, AppendProperties, SpelledOneMore
    <3>4. SubSeq(d.mem, 1, d.p) = Spelled(ws)
      BY <1>3, <1>7, <1>9, <2>1, <3>1, <3>3
    <3> QED BY <1>8, <3>1, <3>3, <3>4 DEF ReadNumbers
  <2>2. CASE ~x.ok
    <3>1. r' = r /\ got' = got
      BY <1>6, <1>7, <2>2
    <3> QED BY <1>1, <3>1 DEF ReadNumbers
  <2> QED BY <1>7, <2>1, <2>2
<1>14. w' = Unwritten
  BY <1>6
<1> QED BY <1>11, <1>12, <1>13, <1>14 DEF CodecInv, Written, Reading, Unwritten

\* A read of what the writer wrote.
LEMMA ValueKeeps ==
  ASSUME CodecInv, PullItem, w # Unwritten
  PROVE  CodecInv'
<1>1. phase = "reads" /\ CodecType /\ Built /\ Same /\ ReadBack
  BY DEF PullItem, CodecInv, Reading
<1>2. PICK n \in Nat : n = End(r)
  BY <1>1 DEF CodecType
<1>3. PICK N \in Nat : N = End(w)
  BY <1>1 DEF CodecType
<1>4. r \in Cursors(n) /\ w \in Cursors(N) /\ asked \in Seq(Parts)
  BY <1>1, <1>2, <1>3 DEF CodecType
<1>5. PICK k : k = Len(got)
  OBVIOUS
<1>6. IsSeq(got) /\ k \in Nat /\ \A i \in 1..k : got[i] = asked[i].v
  BY <1>1, <1>5 DEF ReadBack, IsSeq
<1>7. r.p = Ends(asked)[k]
  BY <1>1, <1>5 DEF ReadBack
<1>8. PICK m \in Nat : m = Len(asked)
  BY <1>4, LenProperties
<1>9. PICK j \in Nat : j = k + 1
  BY <1>6
<1>10. k < m /\ j <= m /\ j \in 1..m /\ k \in 0..m /\ j \in k..m /\ k \in 0..(m - 1)
  <2>1. k < m
    BY <1>5, <1>8 DEF PullItem, Expects
  <2> QED BY <1>6, <1>9, <2>1
<1>11. PICK item : item = asked[j]
  OBVIOUS
<1>12. Expected = item
  BY <1>5, <1>9, <1>11 DEF Expected
<1>13. n <= w.p /\ \A i \in 1..n : r.mem[i] = w.mem[i]
  BY <1>1, <1>2 DEF Same
<1>14. Allowed(item) /\ Shows(r, n, Enc(item))
  <2>1. Spells(asked, SubSeq(w.mem, 1, w.p))
    BY <1>1 DEF Built
  <2> QED BY <1>4, <1>6, <1>7, <1>8, <1>9, <1>10, <1>11, <1>13, <2>1, ShowsNext
<1>15. PICK x : x = Pull(r, item)
  OBVIOUS
<1>16. Took(r, n, Enc(item), item.v, x)
  BY <1>4, <1>14, <1>15, PullIs
<1>17. PICK p \in Nat : p = Ends(asked)[k]
  <2>1. Ends(asked)[k] \in Nat
    BY <1>4, <1>8, <1>10, EndsGrow
  <2> QED BY <2>1
<1>18. PICK s \in Nat : s = SizeOf(item) /\ Len(Enc(item)) = s
  <2>1. SizeOf(item) \in Nat /\ Len(Enc(item)) = SizeOf(item)
    BY <1>14, SizeIs
  <2> QED BY <2>1
<1>19. Ends(asked)[j] = p + s
  <2>1. PICK f : /\ Ends(asked) = f
                 /\ \A i \in 1..m : f[i] = f[i - 1] + SizeOf(asked[i])
    BY <1>4, <1>8, EndsAre
  <2>2. j - 1 = k
    BY <1>6, <1>9
  <2>3. f[j] = f[k] + SizeOf(asked[j])
    BY <1>10, <2>1, <2>2
  <2> QED BY <1>11, <1>17, <1>18, <2>1, <2>3
<1>20. /\ x.ok \in BOOLEAN /\ x.c \in Cursors(n) /\ x.c.mem = r.mem
       /\ p + s <= n => x.ok /\ x.v = item.v /\ x.c.p = p + s
       /\ p + s > n => ~x.ok
  BY <1>7, <1>16, <1>17, <1>18 DEF Took
<1>21. /\ r' = x.c /\ w' = w /\ asked' = asked
       /\ \/ x.ok /\ got' = Append(got, x.v) /\ phase' = phase
          \/ ~x.ok /\ phase' = "stopped" /\ got' = got
  BY <1>12, <1>15 DEF PullItem
<1>22. PICK d : d = r'
  OBVIOUS
<1>23. d \in Cursors(n) /\ End(d) = n /\ d = x.c /\ d.mem = r.mem
  BY <1>20, <1>21, <1>22, CursorIs
<1>24. End(r)' = n /\ End(w)' = N
  <2>1. End(r)' = End(r') /\ End(w)' = End(w')
    BY DEF End
  <2> QED BY <1>3, <1>21, <1>22, <1>23, <2>1
<1>25. phase' \in {"reads", "stopped"}
  BY <1>1, <1>21
<1>26. CodecType'
  BY <1>4, <1>21, <1>22, <1>23, <1>24, <1>25 DEF CodecType
<1>27. Built' /\ Same'
  <2>1. Built'
    BY <1>1, <1>21 DEF Built
  <2>2. Same'
    BY <1>13, <1>21, <1>22, <1>23, <1>24 DEF Same
  <2> QED BY <2>1, <2>2
<1>28. ReadBack'
  <2>1. CASE x.ok
    <3>1. p + s <= n
      BY <1>20, <2>1
    <3>2. x.v = item.v /\ d.p = p + s /\ got' = Append(got, x.v) /\ phase' = "reads"
      BY <1>1, <1>20, <1>21, <1>23, <2>1, <3>1
    <3>3. PICK g, v : g = got' /\ v = x.v
      OBVIOUS
    <3>4. g = Append(got, v)
      BY <3>2, <3>3
    <3>5. IsSeq(g) /\ Len(g) = j /\ g[j] = v /\ \A i \in 1..k : g[i] = got[i]
      <4>1. PICK t : t = got
        OBVIOUS
      <4>2. IsSeq(t) /\ Len(t) = k /\ g = Append(t, v)
        BY <1>5, <1>6, <3>4, <4>1
      <4>3. /\ IsSeq(g) /\ Len(g) = Len(t) + 1 /\ g[Len(t) + 1] = v
            /\ \A i \in 1..Len(t) : g[i] = t[i]
        <5>1. IsSeq(t) /\ g = Append(t, v)
          BY <4>2
        <5>2. IsSeq(g)
          BY <5>1, OneMoreIs
        <5>3. Len(g) = Len(t) + 1 /\ g[Len(t) + 1] = v
          BY <5>1, OneMoreIs
        <5>4. \A i \in 1..Len(t) : g[i] = t[i]
          BY <5>1, OneMoreIs
        <5> QED BY <5>2, <5>3, <5>4
      <4>4. Len(t) + 1 = j
        BY <1>9, <4>2
      <4> QED BY <4>1, <4>2, <4>3, <4>4
    <3>6. ASSUME NEW i \in 1..j PROVE g[i] = asked[i].v
      <4>1. CASE i = j
        BY <1>11, <3>2, <3>3, <3>5, <4>1
      <4>2. CASE i # j
        <5>1. i \in 1..k
          BY <1>6, <1>9, <4>2
        <5> QED BY <1>6, <3>5, <5>1
      <4> QED BY <4>1, <4>2
    <3>7. j <= Len(asked) /\ d.p = Ends(asked)[j]
      BY <1>8, <1>10, <1>19, <3>2
    <3> QED BY <1>21, <1>22, <3>2, <3>3, <3>5, <3>6, <3>7 DEF ReadBack
  <2>2. CASE ~x.ok
    <3>1. phase' = "stopped" /\ got' = got
      BY <1>21, <2>2
    <3>2. p <= n
      <4>1. r.p \in 0..n
        BY <1>4, CursorIs
      <4> QED BY <1>7, <1>17, <4>1
    <3>3. Ends(asked)[k + 1] > n
      <4>1. p + s > n
        BY <1>20, <2>2
      <4> QED BY <1>9, <1>19, <4>1
    <3>4. k <= Len(asked)
      BY <1>8, <1>10
    <3> QED BY <1>5, <1>6, <1>17, <1>21, <1>24, <3>1, <3>2, <3>3, <3>4 DEF ReadBack
  <2> QED BY <1>20, <2>1, <2>2
<1>29. w' # Unwritten
  BY <1>21
<1> QED BY <1>25, <1>26, <1>27, <1>28, <1>29 DEF CodecInv, Written, Reading, Unwritten

\* In every state of the codec the writer's buffer spells what was pushed, and
\* the reader is as far in it as what it got is long.
THEOREM CodecKeepsInv == CodecSpec => []CodecInv
<1>1. ASSUME CodecInv, [CodecNext]_codecVars PROVE CodecInv'
  <2>1. CASE PushItem
    <3>1. PICK item \in Items : Pushes(<<item>>)
      BY <2>1 DEF PushItem
    <3>2. PICK items : items = <<item>>
      OBVIOUS
    <3>3. item \in Parts
      BY PartsAre
    <3>4. items \in Seq(Parts)
      BY <3>2, <3>3
    <3>5. Pushes(items)
      BY <3>1, <3>2
    <3> QED BY <1>1, <3>4, <3>5, PushesKeep
  <2>2. CASE BuildMessage
    <3>1. PICK message \in Messages : Pushes(message)
      BY <2>2 DEF BuildMessage
    <3>2. message \in Seq(Parts)
      BY PartsAre
    <3> QED BY <1>1, <3>1, <3>2, PushesKeep
  <2>3. CASE Handed
    BY <1>1, <2>3, HandedKeeps
  <2>4. CASE PullItem
    <3>1. CASE w = Unwritten
      BY <1>1, <2>4, <3>1, NumberKeeps
    <3>2. CASE w # Unwritten
      BY <1>1, <2>4, <3>2, ValueKeeps
    <3> QED BY <3>1, <3>2
  <2>5. CASE UNCHANGED codecVars
    <3>1. phase' = phase /\ w' = w /\ asked' = asked /\ r' = r /\ got' = got
      BY <2>5 DEF codecVars
    <3>2. CodecType'
      BY <1>1, <3>1 DEF CodecInv, CodecType, End
    <3>3. Written'
      BY <1>1, <3>1 DEF CodecInv, Written, Fresh, Built, End, Unwritten
    <3>4. Reading'
      BY <1>1, <3>1 DEF CodecInv, Reading, ReadNumbers, Built, Same, ReadBack, End, Unwritten
    <3> QED BY <3>2, <3>3, <3>4 DEF CodecInv
  <2> QED BY <1>1, <2>1, <2>2, <2>3, <2>4, <2>5 DEF CodecNext
<1> QED BY <1>1, CodecBegins, PTL DEF CodecSpec

\* For any items, buffers and cuts: what is read is what was written, and the
\* reader stops at the first value that was cut.
THEOREM RoundTrips == CodecSpec => []RoundTrip
<1>1. ASSUME CodecInv PROVE RoundTrip
  <2>2. CASE phase \in {"writes", "refused"}
    <3>1. got = <<>> /\ phase # "stopped"
      BY <1>1, <2>2 DEF CodecInv, Written, Fresh
    <3> QED BY <3>1 DEF RoundTrip
  <2>3. CASE phase \in {"reads", "stopped"}
    <3>1. CASE w # Unwritten
      <4>1. ReadBack
        BY <1>1, <2>3, <3>1 DEF CodecInv, Reading
      <4>2. DOMAIN got = 1..Len(got)
        <5>1. got = [i \in 1..Len(got) |-> got[i]]
          BY <4>1 DEF ReadBack, IsSeq
        <5> QED BY <5>1
      <4>3. \A i \in DOMAIN got : got[i] = asked[i].v
        BY <4>1, <4>2 DEF ReadBack
      <4> QED BY <4>1, <4>3 DEF ReadBack, RoundTrip
    <3> QED BY <3>1 DEF RoundTrip
  <2> QED BY <1>1, <2>2, <2>3 DEF CodecInv, CodecType
<1> QED BY <1>1, CodecKeepsInv, PTL

\* For any items and buffers: a message is refused only when its buffer has no
\* byte more than it takes, and takes what its parts do in their shortest form.
THEOREM BuildsWhenItFits == CodecSpec => []BuiltWhenItFits
<1>1. ASSUME CodecInv PROVE BuiltWhenItFits
  <2>1. ASSUME phase = "writes" PROVE Ends(asked)[Len(asked)] = w.p
    <3>1. Built
      BY <1>1, <2>1 DEF CodecInv, Written
    <3>2. PICK n \in Nat : n = End(w) /\ w \in Cursors(n)
      BY <1>1 DEF CodecInv, CodecType
    <3>3. w.mem \in Seq(Octet) /\ Len(w.mem) = n /\ w.p \in 0..n
      BY <3>2, CursorIs
    <3>4. PICK mem, p : mem = w.mem /\ p = w.p
      OBVIOUS
    <3>5. Len(SubSeq(mem, 1, p)) = p
      <4>1. p \in Nat /\ p <= Len(mem) /\ mem \in Seq(Octet)
        BY <3>3, <3>4
      <4> QED BY <4>1, FirstBytes
    <3>6. Len(SubSeq(mem, 1, p)) = Ends(asked)[Len(asked)]
      BY <3>1, <3>4 DEF Built, Spells
    <3> QED BY <3>4, <3>5, <3>6
  <2>2. phase = "refused" => Ends(asked)[Len(asked)] >= End(w)
    BY <1>1 DEF CodecInv, Written
  <2> QED BY <2>1, <2>2 DEF BuiltWhenItFits
<1> QED BY <1>1, CodecKeepsInv, PTL

\* Of any bytes, those that are read as bigsizes are the ones that bigsize_put
\* makes of what was read.
THEOREM ReadsAreCanonical == CodecSpec => []Canonical
<1>1. ASSUME CodecInv PROVE Canonical
  <2>1. SUFFICES ASSUME w = Unwritten PROVE SubSeq(r.mem, 1, r.p) = Spelled(got)
    BY DEF Canonical, Spelled
  <2>2. CASE phase \in {"writes", "refused"}
    <3>1. got = <<>> /\ r = Unwritten
      BY <1>1, <2>2 DEF CodecInv, Written, Fresh
    <3>2. PICK e : e = <<>>
      OBVIOUS
    <3>3. e \in Seq(Octet)
      BY <3>2
    <3>4. SubSeq(e, 1, 0) = Spelled(e)
      BY <3>2, <3>3, StartIs
    <3> QED BY <3>1, <3>2, <3>4, UnwrittenIs
  <2>3. CASE phase \in {"reads", "stopped"}
    BY <1>1, <2>1, <2>3 DEF CodecInv, Reading, ReadNumbers
  <2> QED BY <1>1, <2>2, <2>3 DEF CodecInv, CodecType
<1> QED BY <1>1, CodecKeepsInv, PTL
=============================================================================
