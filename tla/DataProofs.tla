----------------------------- MODULE DataProofs ------------------------------
(***************************************************************************)
(* Facts about numbers and sequences that the proofs share: induction,     *)
(* stated of sets so that the provers can use it, and what a definition by *)
(* recursion on the length of a sequence computes.                         *)
(***************************************************************************)
EXTENDS Lists, WellFoundedInduction, SequenceTheorems, TLAPS

\* What CHOOSE finds when it looks for the least of some numbers.
LEMMA LeastExists ==
  ASSUME NEW S \in SUBSET Nat, S # {}
  PROVE  \E c \in S : \A d \in S : c <= d
<1> DEFINE R == {ss \in Nat \X Nat : ss[1] < ss[2]}
<1>1. IsWellFoundedOn(OpToRel(<, Nat), Nat)
  BY NatLessThanWellFounded
<1>2. OpToRel(<, Nat) = R
  BY DEF OpToRel
<1>3. IsWellFoundedOn(R, Nat)
  BY <1>1, <1>2
<1> HIDE DEF R
<1>4. \E x \in S : \A y \in S : ~(<<y, x>> \in R)
  BY <1>3, WFMin
<1>5. \A x, y \in Nat : ~(<<y, x>> \in R) => x <= y
  BY DEF R
<1> QED BY <1>4, <1>5

\* Induction up to a bound: every number that is not in S would have a least.
LEMMA Induct ==
  ASSUME NEW N \in Nat, NEW S, 0 \in S, \A n \in 0..(N - 1) : n \in S => n + 1 \in S
  PROVE  \A n \in 0..N : n \in S
<1> DEFINE Rest == {n \in 0..N : n \notin S}
<1> SUFFICES ASSUME Rest # {} PROVE FALSE
  OBVIOUS
<1>0. Rest \in SUBSET Nat /\ \A c \in Rest : c # 0 /\ c \in 0..N /\ c \notin S
  OBVIOUS
<1>a. \A c \in 0..N : c \notin S => c \in Rest
  OBVIOUS
<1> HIDE DEF Rest
<1>1. PICK c \in Rest : \A d \in Rest : c <= d
  BY <1>0, LeastExists
<1>2. c # 0 /\ c \in 0..N /\ c \notin S
  BY <1>0
<1>3. c - 1 \in 0..(N - 1) /\ c - 1 \in 0..N /\ ~(c <= c - 1)
  BY <1>2
<1>4. c - 1 \in S
  BY <1>1, <1>3, <1>a
<1> QED BY <1>2, <1>3, <1>4

\* A function defined by recursion from 0 to N exists.
Closed(step, N, V) == \A i \in 1..N : \A v \in V : step[<<i, v>>] \in V
Follows(f, step, N, V, base) ==
  f \in [0..N -> V] /\ f[0] = base /\ \A i \in 1..N : f[i] = step[<<i, f[i - 1]>>]

LEMMA Recursion ==
  ASSUME NEW N \in Nat, NEW V, NEW base \in V, NEW step, Closed(step, N, V)
  PROVE  \E f : Follows(f, step, N, V, base)
<1> USE DEF Closed, Follows
<1> DEFINE Upto(n, f) == f[0] = base /\ \A i \in 1..n : f[i] = step[<<i, f[i - 1]>>]
           S == {n \in 0..N : \E f \in [0..n -> V] : Upto(n, f)}
<1>1. 0 \in S
  <2> DEFINE f == [i \in 0..0 |-> base]
  <2>1. Upto(0, f) /\ f \in [0..0 -> V]
    OBVIOUS
  <2>2. 0 \in 0..N
    OBVIOUS
  <2> HIDE DEF f, Upto
  <2> QED BY <2>1, <2>2
<1>2. ASSUME NEW n \in 0..(N - 1), n \in S PROVE n + 1 \in S
  <2>1. PICK f \in [0..n -> V] : Upto(n, f)
    BY <1>2
  <2> DEFINE g == [i \in 0..(n + 1) |-> IF i = n + 1 THEN step[<<i, f[n]>>] ELSE f[i]]
  <2>2. step[<<n + 1, f[n]>>] \in V
    OBVIOUS
  <2>3. g \in [0..(n + 1) -> V]
    BY <2>2
  <2>4. ASSUME NEW i \in 1..(n + 1)
        PROVE  g[i] = step[<<i, g[i - 1]>>]
    <3>1. CASE i = n + 1
      <4>1. g[i] = step[<<i, f[n]>>] /\ g[n] = f[n] /\ i - 1 = n
        BY <3>1
      <4> QED BY <4>1
    <3>2. CASE i # n + 1
      <4>1. i \in 1..n /\ g[i] = f[i] /\ g[i - 1] = f[i - 1]
        BY <3>2
      <4>2. f[i] = step[<<i, f[i - 1]>>]
        BY <2>1, <4>1
      <4> QED BY <4>1, <4>2
    <3> QED BY <3>1, <3>2
  <2>5. Upto(n + 1, g)
    <3>1. g[0] = base
      BY <2>1
    <3> HIDE DEF g
    <3> QED BY <2>4, <3>1
  <2> HIDE DEF Upto, g
  <2> QED BY <2>3, <2>5
<1>3. N \in 0..N
  OBVIOUS
<1> HIDE DEF S
<1>4. N \in S
  BY <1>1, <1>2, <1>3, Induct
<1> USE DEF S
<1> QED BY <1>4

-----------------------------------------------------------------------------
(* The elements of a sequence that are in a set *)

\* Kept follows its definition.
LEMMA KeptIs ==
  ASSUME NEW T, NEW s \in Seq(T), NEW S
  PROVE  /\ Kept(s, S) \in [0..Len(s) -> Seq(T)]
         /\ Kept(s, S)[0] = <<>>
         /\ \A i \in 1..Len(s) :
              Kept(s, S)[i] = IF s[i] \in S THEN Append(Kept(s, S)[i - 1], s[i])
                              ELSE Kept(s, S)[i - 1]
<1> DEFINE N == Len(s)
           V == Seq(T)
           step == [p \in (1..N) \X V |-> IF s[p[1]] \in S THEN Append(p[2], s[p[1]]) ELSE p[2]]
           Is(f) == f = [i \in 0..N |-> IF i = 0 THEN <<>>
                                        ELSE IF s[i] \in S THEN Append(f[i - 1], s[i]) ELSE f[i - 1]]
<1>1. N \in Nat /\ <<>> \in V
  OBVIOUS
<1>2. \A i \in 1..N : \A v \in V :
        /\ step[<<i, v>>] = IF s[i] \in S THEN Append(v, s[i]) ELSE v
        /\ step[<<i, v>>] \in V
  <2> TAKE i \in 1..N
  <2> TAKE v \in V
  <2>1. step[<<i, v>>] = IF s[i] \in S THEN Append(v, s[i]) ELSE v
    OBVIOUS
  <2>2. s[i] \in T
    BY ElementOfSeq
  <2>3. s[i] \in S => Append(v, s[i]) \in V
    BY <2>2, AppendProperties
  <2> HIDE DEF step, V
  <2> QED BY <2>1, <2>3
<1> HIDE DEF step, V, N
<1>a. Closed(step, N, V)
  BY <1>2 DEF Closed
<1>b. PICK base : base = <<>> /\ base \in V
  BY <1>1
<1>c. PICK f : Follows(f, step, N, V, base)
  BY <1>1, <1>a, <1>b, Recursion
<1>3. f \in [0..N -> V] /\ f[0] = base /\ \A i \in 1..N : f[i] = step[<<i, f[i - 1]>>]
  BY <1>c DEF Follows
<1>4. \A i \in 0..N : f[i] = IF i = 0 THEN <<>>
                              ELSE IF s[i] \in S THEN Append(f[i - 1], s[i]) ELSE f[i - 1]
  <2> TAKE i \in 0..N
  <2> SUFFICES ASSUME i # 0
               PROVE  f[i] = IF s[i] \in S THEN Append(f[i - 1], s[i]) ELSE f[i - 1]
    BY <1>3, <1>b
  <2>1. i \in 1..N /\ i - 1 \in 0..N
    BY <1>1
  <2>2. f[i - 1] \in V
    BY <1>3, <2>1
  <2>3. step[<<i, f[i - 1]>>] = IF s[i] \in S THEN Append(f[i - 1], s[i]) ELSE f[i - 1]
    BY <1>2, <2>1, <2>2
  <2>4. f[i] = step[<<i, f[i - 1]>>]
    BY <1>3, <2>1
  <2> QED BY <2>3, <2>4
<1>5. Is(f)
  BY <1>3, <1>4
<1>6. Kept(s, S) = CHOOSE g : Is(g)
  BY DEF Kept, N
<1>7. Is(Kept(s, S))
  <2> HIDE DEF Is
  <2> QED BY <1>5, <1>6
<1>8. PICK k : k = Kept(s, S)
  OBVIOUS
<1>9. k = [i \in 0..N |-> IF i = 0 THEN <<>>
                          ELSE IF s[i] \in S THEN Append(k[i - 1], s[i]) ELSE k[i - 1]]
  BY <1>7, <1>8
<1>10. k[0] = <<>> /\ \A i \in 1..N : k[i] = IF s[i] \in S THEN Append(k[i - 1], s[i]) ELSE k[i - 1]
  <2>1. 0 \in 0..N /\ \A i \in 1..N : i \in 0..N /\ i # 0
    BY <1>1
  <2>2. \A i \in 0..N : k[i] = IF i = 0 THEN <<>>
                          ELSE IF s[i] \in S THEN Append(k[i - 1], s[i]) ELSE k[i - 1]
    BY <1>9, Zenon
  <2> QED BY <2>1, <2>2, Zenon
<1>11. \A i \in 0..N : k[i] \in V
  <2> DEFINE I == {i \in 0..N : k[i] \in V}
  <2>1. 0 \in I
    BY <1>1, <1>10
  <2>2. ASSUME NEW n \in 0..(N - 1), n \in I PROVE n + 1 \in I
    <3>1. n + 1 \in 1..N /\ n + 1 \in 0..N /\ (n + 1) - 1 = n
      BY <1>1
    <3>2. k[n + 1] = step[<<n + 1, k[n]>>]
      BY <1>2, <1>10, <2>2, <3>1
    <3> QED BY <1>2, <2>2, <3>1, <3>2
  <2> HIDE DEF I
  <2>3. \A n \in 0..N : n \in I
    BY <1>1, <2>1, <2>2, Induct
  <2> QED BY <2>3 DEF I
<1> QED BY <1>8, <1>9, <1>10, <1>11 DEF N, V

LEMMA OnlyEmpty == ASSUME NEW S PROVE Only(<<>>, S) = <<>>
<1>0. <<>> \in Seq({}) /\ Len(<<>>) = 0
  OBVIOUS
<1>a. PICK s : s = <<>>
  OBVIOUS
<1>b. PICK T : s \in Seq(T)
  BY <1>0, <1>a
<1>1. s = <<>> /\ Len(s) = 0
  BY <1>0, <1>a
<1>2. Kept(s, S)[0] = <<>>
  BY <1>b, KeptIs
<1>3. Only(s, S) = Kept(s, S)[0]
  BY <1>1 DEF Only
<1> QED BY <1>1, <1>2, <1>3

LEMMA OnlyType ==
  ASSUME NEW T, NEW s \in Seq(T), NEW S
  PROVE  Only(s, S) \in Seq(T)
<1>1. Len(s) \in 0..Len(s)
  OBVIOUS
<1> QED BY <1>1, KeptIs DEF Only

\* One element more.
LEMMA KeptAppend ==
  ASSUME NEW T, NEW s \in Seq(T), NEW e \in T, NEW S
  PROVE  /\ Append(s, e) \in Seq(T) /\ Len(Append(s, e)) = Len(s) + 1
         /\ \A i \in 0..Len(s) : Kept(Append(s, e), S)[i] = Kept(s, S)[i]
         /\ Kept(Append(s, e), S)[Len(s) + 1]
              = IF e \in S THEN Append(Only(s, S), e) ELSE Only(s, S)
<1> DEFINE N == Len(s)
           t == Append(s, e)
           k == Kept(s, S)
           l == Kept(t, S)
<1>1. t \in Seq(T) /\ N \in Nat /\ Len(t) = N + 1 /\ t[N + 1] = e /\ \A i \in 1..N : t[i] = s[i]
  BY AppendProperties
<1> DEFINE I == {i \in 0..N : l[i] = k[i]}
<1>2. /\ k[0] = <<>>
      /\ \A i \in 1..N : k[i] = IF s[i] \in S THEN Append(k[i - 1], s[i]) ELSE k[i - 1]
  BY KeptIs
<1> HIDE DEF t
<1>3. /\ l[0] = <<>>
      /\ \A i \in 1..(N + 1) : l[i] = IF t[i] \in S THEN Append(l[i - 1], t[i]) ELSE l[i - 1]
  <2>1. \A i \in 1..Len(t) : l[i] = IF t[i] \in S THEN Append(l[i - 1], t[i]) ELSE l[i - 1]
    BY <1>1, KeptIs
  <2>2. l[0] = <<>>
    BY <1>1, KeptIs
  <2> HIDE DEF l
  <2> QED BY <1>1, <2>1, <2>2, Zenon
<1> HIDE DEF N, k, l
<1>4. 0 \in I
  BY <1>1, <1>2, <1>3
<1>5. ASSUME NEW n \in 0..(N - 1), n \in I PROVE n + 1 \in I
  <2>1. n + 1 \in 1..N /\ n + 1 \in 1..(N + 1) /\ n + 1 \in 0..N /\ (n + 1) - 1 = n
    BY <1>1
  <2>2. k[n + 1] = IF s[n + 1] \in S THEN Append(k[n], s[n + 1]) ELSE k[n]
    BY <1>2, <2>1
  <2>3. l[n + 1] = IF t[n + 1] \in S THEN Append(l[n], t[n + 1]) ELSE l[n]
    BY <1>3, <2>1
  <2>4. t[n + 1] = s[n + 1] /\ l[n] = k[n]
    BY <1>1, <1>5, <2>1
  <2> QED BY <2>1, <2>2, <2>3, <2>4
<1> HIDE DEF I
<1>6. \A i \in 0..N : i \in I
  BY <1>1, <1>4, <1>5, Induct
<1>7. \A i \in 0..N : l[i] = k[i]
  BY <1>6 DEF I
<1>8. N \in 0..N /\ N + 1 \in 1..(N + 1) /\ (N + 1) - 1 = N
  BY <1>1
<1>9. l[N + 1] = IF e \in S THEN Append(k[N], e) ELSE k[N]
  BY <1>1, <1>3, <1>7, <1>8
<1> QED BY <1>1, <1>7, <1>9 DEF Only, N, k, l, t

LEMMA OnlyAppend ==
  ASSUME NEW T, NEW s \in Seq(T), NEW e \in T, NEW S
  PROVE  Only(Append(s, e), S) = IF e \in S THEN Append(Only(s, S), e) ELSE Only(s, S)
BY KeptAppend DEF Only

\* What is kept comes from the places looked at.
LEMMA KeptFrom ==
  ASSUME NEW T, NEW s \in Seq(T), NEW S, NEW i \in 0..Len(s), NEW m \in 1..Len(Kept(s, S)[i])
  PROVE  \E j \in 1..i : s[j] \in S /\ Kept(s, S)[i][m] = s[j]
<1> DEFINE N == Len(s)
           k == Kept(s, S)
           From(n, p) == \E j \in 1..n : s[j] \in S /\ k[n][p] = s[j]
           I == {n \in 0..N : \A p \in 1..Len(k[n]) : From(n, p)}
<1>1. N \in Nat /\ k \in [0..N -> Seq(T)] /\ k[0] = <<>>
      /\ \A n \in 1..N : k[n] = IF s[n] \in S THEN Append(k[n - 1], s[n]) ELSE k[n - 1]
  BY KeptIs
<1> HIDE DEF N, k
<1>2. 0 \in I
  BY <1>1
<1>3. ASSUME NEW n \in 0..(N - 1), n \in I PROVE n + 1 \in I
  <2>1. n + 1 \in 1..N /\ n + 1 \in 0..N /\ (n + 1) - 1 = n /\ n \in 0..N
    BY <1>1
  <2>2. k[n] \in Seq(T) /\ k[n + 1] = IF s[n + 1] \in S THEN Append(k[n], s[n + 1]) ELSE k[n]
    BY <1>1, <2>1
  <2>3. ASSUME NEW p \in 1..Len(k[n + 1]) PROVE From(n + 1, p)
    <3>1. CASE p \in 1..Len(k[n])
      <4>1. PICK j \in 1..n : s[j] \in S /\ k[n][p] = s[j]
        BY <1>3, <3>1
      <4>2. k[n + 1][p] = k[n][p]
        <5>1. CASE s[n + 1] \in S
          <6>1. PICK q : q = k[n]
            OBVIOUS
          <6>2. PICK e : e = s[n + 1]
            OBVIOUS
          <6>3. e \in T
            BY <2>1, <6>2, ElementOfSeq DEF N
          <6>4. Append(q, e)[p] = q[p]
            BY <2>2, <3>1, <6>1, <6>3, AppendProperties
          <6> QED BY <2>2, <5>1, <6>1, <6>2, <6>4
        <5> QED BY <2>2, <5>1
      <4>3. j \in 1..(n + 1)
        BY <1>1
      <4> QED BY <4>1, <4>2, <4>3
    <3>2. CASE p \notin 1..Len(k[n])
      <4>0. s[n + 1] \in S
        BY <2>2, <3>2
      <4>1. PICK q : q = k[n]
        OBVIOUS
      <4>2. PICK e : e = s[n + 1]
        OBVIOUS
      <4>3. e \in T /\ q \in Seq(T)
        BY <2>1, <2>2, <4>1, <4>2, ElementOfSeq DEF N
      <4>4. Len(Append(q, e)) = Len(q) + 1 /\ Append(q, e)[Len(q) + 1] = e
        BY <4>3, AppendProperties
      <4>5. k[n + 1] = Append(q, e)
        BY <2>2, <4>0, <4>1, <4>2
      <4>6. p = Len(q) + 1
        BY <3>2, <4>1, <4>3, <4>4, <4>5
      <4>7. n + 1 \in 1..(n + 1)
        BY <1>1
      <4> QED BY <4>0, <4>2, <4>4, <4>5, <4>6, <4>7
    <3> QED BY <3>1, <3>2
  <2> HIDE DEF From
  <2> QED BY <2>1, <2>3
<1> HIDE DEF I
<1>4. i \in I
  BY <1>1, <1>2, <1>3, Induct DEF N
<1> QED BY <1>4 DEF I, k, N

IsStart(q, r) == Len(q) <= Len(r) /\ \A i \in 1..Len(q) : r[i] = q[i]

\* What is kept up to one place begins what is kept up to a later one.
LEMMA KeptGrows ==
  ASSUME NEW T, NEW s \in Seq(T), NEW S, NEW i \in 0..Len(s), NEW j \in i..Len(s)
  PROVE  IsStart(Kept(s, S)[i], Kept(s, S)[j])
<1> DEFINE N == Len(s)
           k == Kept(s, S)
           I == {n \in 0..N : i <= n => IsStart(k[i], k[n])}
<1>1. N \in Nat /\ k \in [0..N -> Seq(T)] /\ k[0] = <<>>
      /\ \A n \in 1..N : k[n] = IF s[n] \in S THEN Append(k[n - 1], s[n]) ELSE k[n - 1]
  BY KeptIs
<1>n. N \in Nat
  BY <1>1
<1>e. \A n \in 1..N : s[n] \in T
  BY ElementOfSeq
<1>a. i \in 0..N /\ j \in 0..N /\ i <= j
  BY <1>1
<1> HIDE DEF N, k
<1>b. k[i] \in Seq(T)
  BY <1>1, <1>a
<1>2. 0 \in I
  <2>1. i <= 0 => i = 0
    BY <1>1, <1>a
  <2>2. IsStart(k[i], k[i])
    BY <1>b DEF IsStart
  <2> QED BY <1>1, <2>1, <2>2
<1>3. ASSUME NEW n \in 0..(N - 1), n \in I PROVE n + 1 \in I
  <2>1. n + 1 \in 1..N /\ n + 1 \in 0..N /\ (n + 1) - 1 = n /\ n \in 0..N
    BY <1>n
  <2>2. k[n] \in Seq(T) /\ k[n + 1] = IF s[n + 1] \in S THEN Append(k[n], s[n + 1]) ELSE k[n]
    BY <1>1, <2>1
  <2>3. ASSUME i <= n + 1 PROVE IsStart(k[i], k[n + 1])
    <3>1. CASE i = n + 1
      BY <1>b, <3>1 DEF IsStart
    <3>2. CASE i # n + 1
      <4>1. IsStart(k[i], k[n])
        <5>1. i <= n
          BY <1>1, <1>a, <2>3, <3>2
        <5> QED BY <1>3, <5>1
      <4>2. CASE s[n + 1] \in S
        <5>1. PICK q : q = k[n]
          OBVIOUS
        <5>2. PICK e : e = s[n + 1]
          OBVIOUS
        <5>3. e \in T
          BY <1>e, <2>1, <5>2
        <5>4. Len(Append(q, e)) = Len(q) + 1 /\ \A m \in 1..Len(q) : Append(q, e)[m] = q[m]
          BY <2>2, <5>1, <5>3, AppendProperties
        <5>5. k[n + 1] = Append(q, e)
          BY <2>2, <4>2, <5>1, <5>2
        <5> QED BY <1>b, <2>2, <4>1, <5>1, <5>4, <5>5 DEF IsStart
      <4>3. CASE s[n + 1] \notin S
        <5>1. k[n + 1] = k[n]
          BY <2>2, <4>3
        <5> QED BY <4>1, <5>1
      <4> QED BY <4>2, <4>3
    <3> QED BY <3>1, <3>2
  <2> QED BY <2>1, <2>3
<1> HIDE DEF I
<1>4. j \in I
  BY <1>1, <1>2, <1>3, <1>a, Induct
<1>5. IsStart(k[i], k[j])
  BY <1>4, <1>a DEF I
<1> QED BY <1>5 DEF k

\* Nothing is kept where no element is in the set.
LEMMA KeptSame ==
  ASSUME NEW T, NEW s \in Seq(T), NEW S, NEW i \in 0..Len(s), NEW j \in i..Len(s),
         \A m \in (i + 1)..j : s[m] \notin S
  PROVE  Kept(s, S)[j] = Kept(s, S)[i]
<1> DEFINE k == Kept(s, S)
           I == {n \in 0..j : i <= n => k[n] = k[i]}
<1>1. \A n \in 1..Len(s) : k[n] = IF s[n] \in S THEN Append(k[n - 1], s[n]) ELSE k[n - 1]
  BY KeptIs
<1>2. i \in Nat /\ j \in Nat /\ i <= j /\ j \in 0..j /\ \A n \in 1..j : n \in 1..Len(s)
  OBVIOUS
<1> HIDE DEF k
<1>3. 0 \in I
  BY <1>2
<1>4. ASSUME NEW n \in 0..(j - 1), n \in I PROVE n + 1 \in I
  <2>1. n + 1 \in 1..j /\ n + 1 \in 0..j /\ (n + 1) - 1 = n
    BY <1>2
  <2>2. CASE i <= n
    <3>1. n + 1 \in (i + 1)..j
      BY <1>2, <2>1, <2>2
    <3>2. s[n + 1] \notin S
      BY <3>1
    <3>3. k[n + 1] = k[n]
      BY <1>1, <1>2, <2>1, <3>2
    <3> QED BY <1>4, <2>1, <2>2, <3>3
  <2>3. CASE ~(i <= n)
    <3>1. i <= n + 1 => i = n + 1
      BY <1>2, <2>3
    <3> QED BY <2>1, <3>1
  <2> QED BY <2>2, <2>3
<1> HIDE DEF I
<1>5. j \in I
  BY <1>2, <1>3, <1>4, Induct
<1> QED BY <1>2, <1>5 DEF I, k

-----------------------------------------------------------------------------
(* A function of each element of a sequence *)

Map(F, q) == [i \in DOMAIN q |-> F[q[i]]]
Maps(F, T, V) == F \in [T -> V]

LEMMA MapIs ==
  ASSUME NEW T, NEW V, NEW F, Maps(F, T, V), NEW q \in Seq(T)
  PROVE  /\ Map(F, q) \in Seq(V) /\ Len(Map(F, q)) = Len(q)
         /\ \A i \in 1..Len(q) : Map(F, q)[i] = F[q[i]]
<1> DEFINE f == Map(F, q)
<1>1. \A i \in 1..Len(q) : q[i] \in T
  BY ElementOfSeq
<1>2. DOMAIN q = 1..Len(q) /\ Len(q) \in Nat
  BY LenProperties
<1>3. f \in [1..Len(q) -> V] /\ \A i \in 1..Len(q) : f[i] = F[q[i]]
  BY <1>1, <1>2 DEF Map, Maps
<1> HIDE DEF f
<1>4. f \in Seq(V)
  BY <1>2, <1>3, SeqDef
<1>5. Len(f) = Len(q)
  BY <1>2, <1>3, <1>4, LenProperties
<1> QED BY <1>3, <1>4, <1>5 DEF f

LEMMA MapAppend ==
  ASSUME NEW T, NEW V, NEW F, Maps(F, T, V), NEW q \in Seq(T), NEW e \in T
  PROVE  Map(F, Append(q, e)) = Append(Map(F, q), F[e])
<1> DEFINE r == Append(q, e)
           g == Map(F, r)
           v == Append(Map(F, q), F[e])
<1>1. r \in Seq(T) /\ Len(r) = Len(q) + 1 /\ r[Len(q) + 1] = e /\ \A i \in 1..Len(q) : r[i] = q[i]
  BY AppendProperties
<1>2. Len(q) \in Nat /\ F[e] \in V
  BY DEF Maps
<1>3. Map(F, q) \in Seq(V) /\ Len(Map(F, q)) = Len(q) /\ \A i \in 1..Len(q) : Map(F, q)[i] = F[q[i]]
  BY MapIs
<1> HIDE DEF r
<1>4. g \in Seq(V) /\ Len(g) = Len(q) + 1 /\ \A i \in 1..(Len(q) + 1) : g[i] = F[r[i]]
  BY <1>1, MapIs
<1>5. /\ v \in Seq(V) /\ Len(v) = Len(q) + 1 /\ v[Len(q) + 1] = F[e]
      /\ \A i \in 1..Len(q) : v[i] = Map(F, q)[i]
  BY <1>2, <1>3, AppendProperties
<1> HIDE DEF g, v
<1>6. \A i \in 1..(Len(q) + 1) : i \in 1..Len(q) \/ i = Len(q) + 1
  BY <1>2
<1>7. \A i \in 1..(Len(q) + 1) : g[i] = v[i]
  BY <1>1, <1>3, <1>4, <1>5, <1>6
<1>8. g = v
  BY <1>4, <1>5, <1>7, SeqEqual
<1> QED BY <1>8 DEF r, g, v

-----------------------------------------------------------------------------
(* One element put in front of a sequence *)

InFront(x, s) == <<x>> \o s
IsInFront(t, x, s) ==
  Len(t) = Len(s) + 1 /\ t # <<>> /\ t[1] = x /\ \A i \in 1..Len(s) : t[i + 1] = s[i]

LEMMA ConsIs ==
  ASSUME NEW T, NEW x \in T, NEW s \in Seq(T)
  PROVE  InFront(x, s) \in Seq(T) /\ IsInFront(InFront(x, s), x, s)
<1>1. PICK o : o = <<x>>
  OBVIOUS
<1>2. o \in Seq(T) /\ Len(o) = 1 /\ o[1] = x /\ Len(s) \in Nat
  BY <1>1
<1>3. PICK t : t = o \o s
  OBVIOUS
<1>4. /\ t \in Seq(T) /\ Len(t) = 1 + Len(s)
      /\ \A i \in 1..(1 + Len(s)) : t[i] = IF i <= 1 THEN o[i] ELSE s[i - 1]
  <2>1. /\ t \in Seq(T) /\ Len(t) = Len(o) + Len(s)
        /\ \A i \in 1..(Len(o) + Len(s)) : t[i] = IF i <= Len(o) THEN o[i] ELSE s[i - Len(o)]
    BY <1>2, <1>3, ConcatProperties, Zenon
  <2> QED BY <1>2, <2>1
<1>5. t[1] = x /\ t # <<>>
  BY <1>2, <1>4
<1>6. \A i \in 1..Len(s) : t[i + 1] = s[i]
  <2> TAKE i \in 1..Len(s)
  <2>1. i + 1 \in 1..(1 + Len(s)) /\ ~(i + 1 <= 1) /\ (i + 1) - 1 = i
    BY <1>2
  <2> QED BY <1>4, <2>1
<1>7. Len(t) = Len(s) + 1
  BY <1>2, <1>4
<1> QED BY <1>1, <1>3, <1>4, <1>5, <1>6, <1>7 DEF InFront, IsInFront

LEMMA HeadCons ==
  ASSUME NEW T, NEW s \in Seq(T), s # <<>>
  PROVE  Head(s) \in T /\ Tail(s) \in Seq(T) /\ s = InFront(Head(s), Tail(s))
<1>1. PICK h : h = Head(s)
  OBVIOUS
<1>2. PICK r : r = Tail(s)
  OBVIOUS
<1>3. /\ h \in T /\ r \in Seq(T) /\ Len(r) = Len(s) - 1 /\ Len(s) \in Nat \ {0} /\ h = s[1]
      /\ \A i \in 1..Len(r) : r[i] = s[i + 1]
  BY <1>1, <1>2, HeadTailProperties, EmptySeq
<1>4. PICK t : t = InFront(h, r)
  OBVIOUS
<1>5. /\ t \in Seq(T) /\ Len(t) = Len(r) + 1 /\ t[1] = h
      /\ \A i \in 1..Len(r) : t[i + 1] = r[i]
  <2>1. t \in Seq(T) /\ IsInFront(t, h, r)
    BY <1>3, <1>4, ConsIs
  <2> QED BY <2>1 DEF IsInFront
<1>6. \A i \in 1..Len(s) : s[i] = t[i]
  <2> TAKE i \in 1..Len(s)
  <2>1. CASE i = 1
    BY <1>3, <1>5, <2>1
  <2>2. CASE i # 1
    <3>1. i - 1 \in 1..Len(r) /\ (i - 1) + 1 = i
      BY <1>3, <2>2
    <3>2. t[i] = r[i - 1] /\ r[i - 1] = s[i]
      BY <1>3, <1>5, <3>1
    <3> QED BY <3>2
  <2> QED BY <2>1, <2>2
<1>7. Len(s) = Len(t)
  BY <1>3, <1>5
<1>8. s = t
  BY <1>5, <1>6, <1>7, SeqEqual
<1> QED BY <1>1, <1>2, <1>3, <1>4, <1>8

LEMMA OnlyCons ==
  ASSUME NEW T, NEW s \in Seq(T), NEW x \in T, NEW S
  PROVE  Only(InFront(x, s), S) = IF x \in S THEN InFront(x, Only(s, S)) ELSE Only(s, S)
<1> DEFINE N == Len(s)
           t == InFront(x, s)
           k == Kept(s, S)
           l == Kept(t, S)
           pre == IF x \in S THEN <<x>> ELSE <<>>
           I == {i \in 0..N : l[i + 1] = pre \o k[i]}
<1>1. N \in Nat /\ t \in Seq(T) /\ Len(t) = N + 1 /\ t[1] = x /\ \A i \in 1..N : t[i + 1] = s[i]
  <2>1. t \in Seq(T) /\ IsInFront(t, x, s)
    BY ConsIs
  <2> HIDE DEF t
  <2> QED BY <2>1 DEF IsInFront
<1>2. /\ k[0] = <<>> /\ k \in [0..N -> Seq(T)]
      /\ \A i \in 1..N : k[i] = IF s[i] \in S THEN Append(k[i - 1], s[i]) ELSE k[i - 1]
  BY KeptIs
<1>e. \A i \in 1..N : s[i] \in T
  BY ElementOfSeq
<1> HIDE DEF t
<1>3. /\ l[0] = <<>>
      /\ \A i \in 1..(N + 1) : l[i] = IF t[i] \in S THEN Append(l[i - 1], t[i]) ELSE l[i - 1]
  <2>1. \A i \in 1..Len(t) : l[i] = IF t[i] \in S THEN Append(l[i - 1], t[i]) ELSE l[i - 1]
    BY <1>1, KeptIs
  <2>2. l[0] = <<>>
    BY <1>1, KeptIs
  <2> HIDE DEF l
  <2> QED BY <1>1, <2>1, <2>2, Zenon
<1>p. pre \in Seq(T)
  OBVIOUS
<1> HIDE DEF N, k, l
<1>4. 0 \in I
  <2>1. 0 \in 0..N /\ 1 \in 1..(N + 1) /\ 1 - 1 = 0 /\ 0 + 1 = 1
    BY <1>1
  <2>2. l[1] = IF x \in S THEN Append(l[0], x) ELSE l[0]
    BY <1>1, <1>3, <2>1
  <2>3. Append(<<>>, x) = <<x>>
    OBVIOUS
  <2>4. l[1] = pre
    BY <1>3, <2>2, <2>3
  <2> HIDE DEF pre
  <2>5. pre \o <<>> = pre
    BY <1>p, ConcatEmptySeq
  <2> QED BY <1>2, <2>1, <2>4, <2>5
<1> HIDE DEF pre
<1>5. ASSUME NEW n \in 0..(N - 1), n \in I PROVE n + 1 \in I
  <2>1. /\ n + 1 \in 1..N /\ (n + 1) + 1 \in 1..(N + 1) /\ n + 1 \in 0..N /\ (n + 1) - 1 = n
        /\ ((n + 1) + 1) - 1 = n + 1 /\ n \in 0..N
    BY <1>1
  <2>2. PICK q : q = k[n]
    OBVIOUS
  <2>3. PICK e : e = s[n + 1]
    OBVIOUS
  <2>4. k[n + 1] = IF e \in S THEN Append(q, e) ELSE q
    BY <1>2, <2>1, <2>2, <2>3
  <2>5. l[n + 1] = pre \o q
    BY <1>5, <2>2
  <2>6. t[(n + 1) + 1] = e
    BY <1>1, <2>1, <2>3
  <2>7. l[(n + 1) + 1] = IF e \in S THEN Append(pre \o q, e) ELSE pre \o q
    BY <1>3, <2>1, <2>5, <2>6
  <2>8. q \in Seq(T) /\ e \in T
    BY <1>2, <1>e, <2>1, <2>2, <2>3
  <2>9. Append(pre \o q, e) = pre \o Append(q, e)
    <3>1. PICK one : one = <<e>>
      OBVIOUS
    <3>2. one \in Seq(T)
      BY <2>8, <3>1
    <3>3. pre \o q \in Seq(T)
      BY <1>p, <2>8, ConcatProperties
    <3>4. Append(pre \o q, e) = (pre \o q) \o one
      BY <2>8, <3>1, <3>3, AppendIsConcat
    <3>5. Append(q, e) = q \o one
      BY <2>8, <3>1, AppendIsConcat
    <3>6. (pre \o q) \o one = pre \o (q \o one)
      BY <1>p, <2>8, <3>2, SMTT(20), ConcatAssociative
    <3> QED BY <3>4, <3>5, <3>6
  <2> QED BY <2>1, <2>4, <2>7, <2>9
<1>6. N \in 0..N
  BY <1>1
<1> HIDE DEF I
<1>7. N \in I
  BY <1>1, <1>4, <1>5, <1>6, Induct
<1>8. l[N + 1] = pre \o k[N]
  BY <1>7 DEF I
<1>9. Only(t, S) = l[N + 1] /\ Only(s, S) = k[N]
  BY <1>1 DEF Only, l, k, N
<1>10. Only(s, S) \in Seq(T)
  BY OnlyType
<1>11. <<>> \o Only(s, S) = Only(s, S)
  BY <1>10, ConcatEmptySeq
<1>12. Only(t, S) = pre \o Only(s, S)
  BY <1>8, <1>9
<1> HIDE DEF I, k, l, N
<1> QED BY <1>11, <1>12 DEF pre, t, InFront

\* All that is kept is in the set.
LEMMA OnlyIn ==
  ASSUME NEW T, NEW s \in Seq(T), NEW S
  PROVE  Only(s, S) \in Seq(S)
<1> DEFINE o == Only(s, S)
<1>1. o \in Seq(T)
  BY OnlyType
<1>2. Len(s) \in 0..Len(s)
  OBVIOUS
<1>3. \A m \in 1..Len(o) : o[m] \in S
  <2> TAKE m \in 1..Len(o)
  <2>1. m \in 1..Len(Kept(s, S)[Len(s)])
    BY DEF Only
  <2>2. \E j \in 1..Len(s) : s[j] \in S /\ Kept(s, S)[Len(s)][m] = s[j]
    BY <1>2, <2>1, KeptFrom
  <2> QED BY <2>2 DEF Only
<1> HIDE DEF o
<1>4. Len(o) \in Nat /\ o \in [1..Len(o) -> T]
  BY <1>1, LenProperties
<1>5. o \in [1..Len(o) -> S]
  BY <1>3, <1>4
<1>6. o \in Seq(S)
  BY <1>4, <1>5, SeqDef
<1> QED BY <1>6 DEF o

\* What all of a sequence is in the set.
LEMMA OnlyAll ==
  ASSUME NEW T, NEW s \in Seq(T), NEW S, \A i \in 1..Len(s) : s[i] \in S
  PROVE  Only(s, S) = s
<1> DEFINE N == Len(s)
           k == Kept(s, S)
           I == {n \in 0..N : Len(k[n]) = n /\ \A i \in 1..n : k[n][i] = s[i]}
<1>1. /\ N \in Nat /\ k[0] = <<>> /\ k \in [0..N -> Seq(T)]
      /\ \A n \in 1..N : k[n] = Append(k[n - 1], s[n])
  <2>1. /\ k[0] = <<>> /\ k \in [0..N -> Seq(T)]
        /\ \A n \in 1..N : k[n] = IF s[n] \in S THEN Append(k[n - 1], s[n]) ELSE k[n - 1]
    BY KeptIs
  <2>2. N \in Nat /\ \A n \in 1..N : s[n] \in S
    OBVIOUS
  <2> HIDE DEF k, N
  <2>3. \A n \in 1..N : k[n] = Append(k[n - 1], s[n])
    BY <2>1, <2>2, Zenon
  <2> QED BY <2>1, <2>2, <2>3
<1>e. \A i \in 1..N : s[i] \in T
  BY ElementOfSeq
<1> HIDE DEF k
<1>2. 0 \in I
  BY <1>1
<1> HIDE DEF N
<1>3. ASSUME NEW n \in 0..(N - 1), n \in I PROVE n + 1 \in I
  <2>1. n + 1 \in 1..N /\ n + 1 \in 0..N /\ (n + 1) - 1 = n /\ n \in 0..N
    BY <1>1
  <2>2. PICK q : q = k[n]
    OBVIOUS
  <2>3. PICK e : e = s[n + 1]
    OBVIOUS
  <2>4. q \in Seq(T) /\ e \in T
    BY <1>1, <1>e, <2>1, <2>2, <2>3
  <2>5. PICK a : a = Append(q, e)
    OBVIOUS
  <2>6. Len(a) = Len(q) + 1 /\ a[Len(q) + 1] = e /\ \A i \in 1..Len(q) : a[i] = q[i]
    BY <2>4, <2>5, AppendProperties
  <2>7. k[n + 1] = a
    BY <1>1, <2>1, <2>2, <2>3, <2>5
  <2>8. Len(q) = n /\ \A i \in 1..n : q[i] = s[i]
    BY <1>3, <2>2
  <2>9. \A i \in 1..(n + 1) : i \in 1..n \/ i = n + 1
    OBVIOUS
  <2>10. \A i \in 1..(n + 1) : a[i] = s[i]
    BY <2>3, <2>6, <2>8, <2>9
  <2> QED BY <2>1, <2>6, <2>7, <2>8, <2>10
<1>4. N \in 0..N
  BY <1>1
<1> HIDE DEF I
<1>5. N \in I
  BY <1>1, <1>2, <1>3, <1>4, Induct
<1>6. PICK o : o = k[N]
  OBVIOUS
<1>7. o \in Seq(T) /\ Len(o) = N /\ \A i \in 1..N : o[i] = s[i]
  BY <1>1, <1>4, <1>5, <1>6 DEF I
<1>8. o = s
  BY <1>7, SeqEqual DEF N
<1> QED BY <1>6, <1>8 DEF Only, k, N

-----------------------------------------------------------------------------
(* Sequences of any elements *)

IsSeq(a) == Len(a) \in Nat /\ a = [i \in 1..Len(a) |-> a[i]]

\* c is a and then b.
Joined(a, b, c) ==
  /\ IsSeq(c) /\ Len(c) = Len(a) + Len(b)
  /\ \A i \in 1..Len(a) : c[i] = a[i]
  /\ \A i \in 1..Len(b) : c[Len(a) + i] = b[i]

\* p is the n elements of a that follow the first k.
IsPiece(p, a, k, n) == IsSeq(p) /\ Len(p) = n /\ \A i \in 1..n : p[i] = a[k + i]

LEMMA SeqIs ==
  ASSUME NEW a, IsSeq(a)
  PROVE  \E T : a \in Seq(T)
<1>1. PICK T : T = {a[i] : i \in 1..Len(a)}
  OBVIOUS
<1>2. \A i \in 1..Len(a) : a[i] \in T
  BY <1>1
<1>3. PICK n \in Nat : n = Len(a)
  BY DEF IsSeq
<1>4. a \in [1..n -> T]
  BY <1>2, <1>3 DEF IsSeq
<1> QED BY <1>4, SeqDef

LEMMA IsSeqOf ==
  ASSUME NEW T, NEW a \in Seq(T)
  PROVE  IsSeq(a)
BY LenProperties DEF IsSeq

\* What \o does, of sequences of anything.
LEMMA Joins ==
  ASSUME NEW a, NEW b, IsSeq(a), IsSeq(b)
  PROVE  Joined(a, b, a \o b)
<1>1. PICK S : a \in Seq(S)
  BY SeqIs
<1>2. PICK R : b \in Seq(R)
  BY SeqIs
<1>3. PICK T : T = S \cup R
  OBVIOUS
<1>4. a \in Seq(T) /\ b \in Seq(T)
  <2>1. Seq(S) \subseteq Seq(T) /\ Seq(R) \subseteq Seq(T)
    BY <1>3
  <2> QED BY <1>1, <1>2, <2>1
<1>5. PICK c : c = a \o b
  OBVIOUS
<1>6. /\ c \in Seq(T) /\ Len(c) = Len(a) + Len(b)
      /\ \A i \in 1..(Len(a) + Len(b)) : c[i] = IF i <= Len(a) THEN a[i] ELSE b[i - Len(a)]
  BY <1>4, <1>5, ConcatProperties
<1>7. Len(a) \in Nat /\ Len(b) \in Nat
  BY DEF IsSeq
<1>8. IsSeq(c)
  BY <1>6, IsSeqOf
<1>9. ASSUME NEW i \in 1..Len(a) PROVE c[i] = a[i]
  <2>1. i \in 1..(Len(a) + Len(b)) /\ i <= Len(a)
    BY <1>7
  <2> QED BY <1>6, <2>1
<1>10. ASSUME NEW i \in 1..Len(b) PROVE c[Len(a) + i] = b[i]
  <2>1. PICK j : j = Len(a) + i
    OBVIOUS
  <2>2. j \in 1..(Len(a) + Len(b)) /\ ~(j <= Len(a)) /\ j - Len(a) = i
    BY <1>7, <2>1
  <2>3. c[j] = b[j - Len(a)]
    BY <1>6, <2>2
  <2> QED BY <2>1, <2>2, <2>3
<1> QED BY <1>5, <1>6, <1>8, <1>9, <1>10 DEF Joined

LEMMA SameSeq ==
  ASSUME NEW a, NEW b, IsSeq(a), IsSeq(b), Len(a) = Len(b), \A i \in 1..Len(a) : a[i] = b[i]
  PROVE  a = b
BY DEF IsSeq

\* What SubSeq does.
LEMMA Piece ==
  ASSUME NEW a, IsSeq(a), NEW k \in Nat, NEW n \in Nat, k + n <= Len(a),
         NEW lo, NEW hi, lo = k + 1, hi = k + n
  PROVE  IsPiece(SubSeq(a, lo, hi), a, k, n)
<1>1. PICK T : a \in Seq(T)
  BY SeqIs
<1>2. \A i \in 1..Len(a) : a[i] \in T
  BY <1>1, ElementOfSeq
<1>3. Len(a) \in Nat
  BY DEF IsSeq
<1>4. \A i \in lo..hi : a[i] \in T
  <2>1. \A i \in lo..hi : i \in 1..Len(a)
    BY <1>3
  <2> QED BY <1>2, <2>1
<1>5. PICK p : p = SubSeq(a, lo, hi)
  OBVIOUS
<1>6. lo \in Int /\ hi \in Int
  OBVIOUS
<1>7. /\ p \in Seq(T) /\ Len(p) = (IF lo <= hi THEN hi - lo + 1 ELSE 0)
      /\ \A i \in 1..(hi - lo + 1) : p[i] = a[lo + i - 1]
  BY <1>4, <1>5, <1>6, SubSeqProperties
<1>8. hi - lo + 1 = n /\ Len(p) = n
  BY <1>7
<1>9. ASSUME NEW i \in 1..n PROVE p[i] = a[k + i]
  <2>1. lo + i - 1 = k + i /\ i \in 1..(hi - lo + 1)
    BY <1>8
  <2> QED BY <1>7, <2>1
<1>10. IsSeq(p)
  BY <1>7, IsSeqOf
<1> QED BY <1>5, <1>8, <1>9, <1>10 DEF IsPiece

LEMMA PieceUnique ==
  ASSUME NEW a, NEW k, NEW n, NEW p, NEW s, IsPiece(p, a, k, n), IsPiece(s, a, k, n)
  PROVE  p = s
<1>1. IsSeq(p) /\ IsSeq(s) /\ Len(p) = Len(s) /\ \A i \in 1..Len(p) : p[i] = s[i]
  BY DEF IsPiece
<1> QED BY <1>1, SameSeq

LEMMA Assoc ==
  ASSUME NEW a, NEW b, NEW c, IsSeq(a), IsSeq(b), IsSeq(c)
  PROVE  (a \o b) \o c = a \o (b \o c)
<1>1. PICK R : a \in Seq(R)
  BY SeqIs
<1>2. PICK S : b \in Seq(S)
  BY SeqIs
<1>3. PICK T : c \in Seq(T)
  BY SeqIs
<1>4. PICK V : V = R \cup S \cup T
  OBVIOUS
<1>5. Seq(R) \subseteq Seq(V) /\ Seq(S) \subseteq Seq(V) /\ Seq(T) \subseteq Seq(V)
  BY <1>4
<1>6. a \in Seq(V) /\ b \in Seq(V) /\ c \in Seq(V)
  BY <1>1, <1>2, <1>3, <1>5
<1> QED BY <1>6, ConcatAssociative

LEMMA JoinIsSeq ==
  ASSUME NEW a, NEW b, IsSeq(a), IsSeq(b)
  PROVE  IsSeq(a \o b) /\ Len(a \o b) = Len(a) + Len(b)
<1>1. PICK c : c = a \o b
  OBVIOUS
<1>2. Joined(a, b, c)
  BY <1>1, Joins
<1> QED BY <1>1, <1>2 DEF Joined

LEMMA EmptyJoin ==
  ASSUME NEW a, IsSeq(a), NEW e, e = <<>>
  PROVE  e \o a = a /\ a \o e = a /\ IsSeq(e) /\ Len(e) = 0
<1>1. PICK R : a \in Seq(R)
  BY SeqIs
<1> QED BY <1>1, ConcatEmptySeq DEF IsSeq

-----------------------------------------------------------------------------
\* What FlattenSeq computes on the way.
Flat(f, s, n) == f = [i \in 1..n |-> IF i = 1 THEN s[i] ELSE f[i - 1] \o s[i]]

LEMMA FlatExists ==
  ASSUME NEW s, NEW m \in Nat
  PROVE  \E f : Flat(f, s, m)
<1> DEFINE S == {n \in 0..m : \E f : Flat(f, s, n)}
<1>1. 0 \in S
  <2>1. PICK f : f = [i \in 1..0 |-> 0]
    OBVIOUS
  <2>2. f = [i \in 1..0 |-> f[i]] /\ \A i \in 1..0 : FALSE
    BY <2>1
  <2>3. f = [i \in 1..0 |-> IF i = 1 THEN s[i] ELSE f[i - 1] \o s[i]]
    BY <2>2
  <2>4. Flat(f, s, 0)
    BY <2>3 DEF Flat
  <2> QED BY <2>4
<1>2. ASSUME NEW n \in 0..(m - 1), n \in S PROVE n + 1 \in S
  <2>1. PICK f : Flat(f, s, n)
    BY <1>2
  <2>2. n \in Nat /\ n + 1 - 1 = n /\ n + 1 \in 0..m
    OBVIOUS
  <2>3. PICK last : last = IF n = 0 THEN s[1] ELSE f[n] \o s[n + 1]
    OBVIOUS
  <2>4. PICK g : g = [i \in 1..(n + 1) |-> IF i = n + 1 THEN last ELSE f[i]]
    OBVIOUS
  <2>5. \A i \in 1..n : g[i] = f[i]
    BY <2>2, <2>4
  <2>6. \A i \in 1..n : f[i] = IF i = 1 THEN s[i] ELSE f[i - 1] \o s[i]
    BY <2>1 DEF Flat
  <2>7. ASSUME NEW i \in 1..(n + 1)
        PROVE  g[i] = IF i = 1 THEN s[i] ELSE g[i - 1] \o s[i]
    <3>1. CASE i \in 1..n
      <4>1. g[i] = f[i] /\ (i = 1 \/ i - 1 \in 1..n)
        BY <2>2, <2>5, <3>1
      <4>2. CASE i = 1
        BY <2>6, <3>1, <4>1, <4>2
      <4>3. CASE i # 1
        <5>1. g[i - 1] = f[i - 1]
          BY <2>5, <4>1, <4>3
        <5>2. f[i] = f[i - 1] \o s[i]
          BY <2>6, <3>1, <4>3
        <5> QED BY <4>1, <4>3, <5>1, <5>2
      <4> QED BY <4>2, <4>3
    <3>2. CASE i = n + 1
      <4>1. g[i] = last
        BY <2>4, <3>2
      <4>2. CASE n = 0
        BY <2>3, <3>2, <4>1, <4>2
      <4>3. CASE n # 0
        <5>1. i # 1 /\ i - 1 = n /\ n \in 1..n
          BY <2>2, <3>2, <4>3
        <5>2. g[n] = f[n]
          BY <2>5, <5>1
        <5> QED BY <2>3, <3>2, <4>1, <4>3, <5>1, <5>2
      <4> QED BY <4>2, <4>3
    <3> QED BY <2>2, <3>1, <3>2
  <2>8. g = [i \in 1..(n + 1) |-> g[i]]
    BY <2>4
  <2>9. Flat(g, s, n + 1)
    BY <2>7, <2>8 DEF Flat
  <2> QED BY <2>2, <2>9
<1> HIDE DEF S
<1>3. \A n \in 0..m : n \in S
  BY <1>1, <1>2, Induct
<1>4. m \in S
  BY <1>3
<1> QED BY <1>4 DEF S
=============================================================================
