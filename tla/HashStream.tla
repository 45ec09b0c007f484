----------------------------- MODULE HashStream ------------------------------
(***************************************************************************)
(* SHA-256 as a stream (sha256.c), HMAC and HKDF on top of it (hmac.c,     *)
(* hkdf.c), as the key derivations and transcript hashes of the handshake  *)
(* call them.                                                              *)
(*                                                                         *)
(* The compression function is symbolic: the chaining value is the         *)
(* sequence of the blocks compressed so far, and the bytes of a digest are *)
(* <<"digest", chaining value, i>>.  A byte is a tuple: of the data, of a  *)
(* digest, a zero, the 0x80 of the padding, one of the length, or a byte   *)
(* xored with pads.                                                        *)
(***************************************************************************)
EXTENDS Naturals, Sequences, FiniteSets, SequencesExt

CONSTANTS
  Block,      \* bytes of a block: 64
  SizeField,  \* bytes of the length in the padding: 8
  HashLen,    \* bytes of a digest: 32
  Jobs,       \* what to compute: [kind, key, data, size]
  MaxPieces   \* bound: calls of sha256_update with a part of the data

\* A digest is no longer than a block, and the size fits after a 0x80.  Whoever
\* derives keys asks for a byte at least, and hkdf_sha256 asserts that there are
\* not so many that its count, an unsigned char, would wrap.
ASSUME HashAssumption ==
  /\ Block \in Nat /\ HashLen \in 1..Block /\ SizeField \in 1..(Block - 1)
  /\ MaxPieces \in Nat
  /\ Jobs \subseteq [kind : {"sha256", "hmac", "hkdf"}, key : Nat, data : Nat, size : Nat]
  /\ \A j \in Jobs : j.kind = "hkdf" => 0 < j.size /\ j.size < 255 * HashLen

VARIABLES
  job,      \* what is to be computed
  ctx,      \* struct sha256_ctx and, for an HMAC, k_opad
  fed,      \* how many bytes of the data the updates were given
  pieces,   \* how many updates there were
  result    \* what was computed, in the end

hashVars == <<job, ctx, fed, pieces, result>>

Data(name, n) == [i \in 1..n |-> <<name, i>>]
Zero == <<"zero">>
One == <<"one">>
ZeroBytes(n) == [i \in 1..n |-> Zero]
SizeBytes(n) == [i \in 1..SizeField |-> <<"size", n, i>>]
Digest(s) == [i \in 1..HashLen |-> <<"digest", s, i>>]

\* Bytes xored with the pads in a set; a pad xored twice is gone.
Xor(bytes, pads) ==
  [i \in DOMAIN bytes |->
     IF bytes[i][1] = "xor"
     THEN <<"xor", (bytes[i][2] \cup pads) \ (bytes[i][2] \cap pads), bytes[i][3]>>
     ELSE <<"xor", pads, bytes[i]>>]

-----------------------------------------------------------------------------
(* sha256.c *)

Sha256Init == [s |-> <<>>, bytes |-> 0, buf |-> ZeroBytes(Block)]

\* Transform compresses blocks, one after the other, into the chaining value.
\* Nothing is kept of its rounds: other blocks or orders give other values.
Transform(s, chunks) == s \o chunks

\* memcpy into the buffer, at byte at.
Fill(buf, at, data) ==
  [i \in 1..Block |-> IF i \in at + 1 .. at + Len(data) THEN data[i - at] ELSE buf[i]]

\* A mutant of add that leaves a block that is just full in the buffer.
MutAdd(c, data) ==
  LET bufsize == c.bytes % Block
      filling == IF bufsize + Len(data) > Block THEN Block - bufsize ELSE 0
      full    == (Len(data) - filling) \div Block
      rest    == SubSeq(data, filling + full * Block + 1, Len(data))
      filled  == Fill(c.buf, bufsize, SubSeq(data, 1, filling))
      chunk(k) == SubSeq(data, filling + (k - 1) * Block + 1, filling + k * Block)
  IN  [s     |-> Transform(IF filling > 0 THEN Transform(c.s, <<filled>>) ELSE c.s,
                           [k \in 1..full |-> chunk(k)]),
       bytes |-> c.bytes + Len(data),
       buf   |-> Fill(filled, IF filling > 0 THEN 0 ELSE bufsize, rest)]

\* add: the data first fills the buffer, if there is enough of it; full
\* blocks go straight from the source (or through the buffer, where the
\* source is not aligned: its bytes are not read before they are filled
\* again); the buffer keeps the rest.
Add(c, data) ==
  LET bufsize == c.bytes % Block
      filling == IF bufsize + Len(data) >= Block THEN Block - bufsize ELSE 0
      full    == (Len(data) - filling) \div Block
      rest    == SubSeq(data, filling + full * Block + 1, Len(data))
      filled  == Fill(c.buf, bufsize, SubSeq(data, 1, filling))
      chunk(k) == SubSeq(data, filling + (k - 1) * Block + 1, filling + k * Block)
  IN  [s     |-> Transform(IF filling > 0 THEN Transform(c.s, <<filled>>) ELSE c.s,
                           [k \in 1..full |-> chunk(k)]),
       bytes |-> c.bytes + Len(data),
       buf   |-> Fill(filled, IF filling > 0 THEN 0 ELSE bufsize, rest)]

\* sha256_done: a one bit, zeros up to the size field of a block, the size.
Sha256Done(c) ==
  LET zeros  == (2 * Block - SizeField - (c.bytes % Block) - 1) % Block
      padded == Add(c, <<One>> \o ZeroBytes(zeros))
  IN  Digest(Add(padded, SizeBytes(c.bytes)).s)

Sha256(data) == Sha256Done(Add(Sha256Init, data))

-----------------------------------------------------------------------------
(* hmac.c *)

\* A mutant of hmac_sha256_init that forgets that k_opad holds the inner pad.
MutHmacInit(key) ==
  LET short  == IF Len(key) > Block THEN Sha256(key) ELSE key
      k_ipad == Xor(short \o ZeroBytes(Block - Len(short)), {"ipad"})
  IN  [sha |-> Add(Sha256Init, k_ipad), k_opad |-> Xor(k_ipad, {"opad"})]

\* hmac_sha256_init uses k_opad for the inner pad first, which it then takes
\* off again with the outer one.
HmacInit(key) ==
  LET short  == IF Len(key) > Block THEN Sha256(key) ELSE key
      k_ipad == Xor(short \o ZeroBytes(Block - Len(short)), {"ipad"})
  IN  [sha |-> Add(Sha256Init, k_ipad), k_opad |-> Xor(k_ipad, {"ipad", "opad"})]

HmacUpdate(c, data) == [c EXCEPT !.sha = Add(@, data)]
HmacDone(c) == Sha256Done(Add(Add(Sha256Init, c.k_opad), Sha256Done(c.sha)))
Hmac(key, data) == HmacDone(HmacUpdate(HmacInit(key), data))

-----------------------------------------------------------------------------
(* hkdf.c *)

\* T(c) of hkdf_sha256 from T(c - 1), which is empty for the first.
ExpandStep(prk, t, info, c) ==
  HmacDone(HmacUpdate(HmacUpdate(HmacUpdate(HmacInit(prk), t), info), <<<<"count", c>>>>))

\* A mutant of hkdf_sha256 that does not feed T back.
MutHkdf(size, salt, ikm, info) ==
  LET prk == Hmac(salt, ikm)
      T[c \in 0..size] == IF c = 0 THEN <<>> ELSE ExpandStep(prk, <<>>, info, c)
      more == (size - 1) \div HashLen
  IN  FlattenSeq([c \in 1..more |-> T[c]])
        \o SubSeq(T[more + 1], 1, size - more * HashLen)

\* hkdf_sha256: whole digests while more than one is wanted, then the start
\* of the next.
Hkdf(size, salt, ikm, info) ==
  LET prk == Hmac(salt, ikm)
      T[c \in 0..size] == IF c = 0 THEN <<>> ELSE ExpandStep(prk, T[c - 1], info, c)
      more == (size - 1) \div HashLen
  IN  FlattenSeq([c \in 1..more |-> T[c]])
        \o SubSeq(T[more + 1], 1, size - more * HashLen)

\* hkdf_two_keys: two halves of the output, without info.
HkdfTwoKeys(in1, in2) ==
  LET okm == Hkdf(2 * HashLen, in1, in2, <<>>)
  IN  <<SubSeq(okm, 1, HashLen), SubSeq(okm, HashLen + 1, 2 * HashLen)>>

-----------------------------------------------------------------------------
(* One computation *)

HashInit ==
  /\ job \in Jobs
  /\ ctx = [sha |-> Sha256Init, k_opad |-> <<>>]
  /\ fed = 0 /\ pieces = 0 /\ result = <<>>

\* An HMAC starts with its key.
Start ==
  /\ job.kind = "hmac" /\ ctx.k_opad = <<>>
  /\ ctx' = HmacInit(Data("key", job.key))
  /\ UNCHANGED <<job, fed, pieces, result>>

Started == job.kind = "sha256" \/ ctx.k_opad # <<>>

\* sha256_update or hmac_sha256_update with the next bytes of the data.
Update ==
  /\ Started /\ result = <<>> /\ pieces < MaxPieces
  /\ \E n \in 0..(job.data - fed) :
       /\ ctx' = HmacUpdate(ctx, SubSeq(Data("data", job.data), fed + 1, fed + n))
       /\ fed' = fed + n /\ pieces' = pieces + 1
  /\ UNCHANGED <<job, result>>

Done ==
  /\ Started /\ fed = job.data /\ result = <<>>
  /\ result' = IF job.kind = "hmac" THEN HmacDone(ctx) ELSE Sha256Done(ctx.sha)
  /\ UNCHANGED <<job, ctx, fed, pieces>>

\* A key derivation is one call.
Derive ==
  /\ job.kind = "hkdf" /\ result = <<>>
  /\ result' = Hkdf(job.size, Data("key", job.key), Data("data", job.data), <<>>)
  /\ UNCHANGED <<job, ctx, fed, pieces>>

HashNext == Start \/ Update \/ Done \/ Derive

HashSpec == HashInit /\ [][HashNext]_hashVars

-----------------------------------------------------------------------------
(* The standards *)

Blocks(data) ==
  [k \in 1..(Len(data) \div Block) |-> SubSeq(data, (k - 1) * Block + 1, k * Block)]

\* FIPS 180-4: the digest of the data, a one bit, as few zeros as make whole
\* blocks, and the size.
Fips(data) ==
  LET zeros == CHOOSE z \in 0..(Block - 1) : (Len(data) + 1 + z + SizeField) % Block = 0
  IN  Digest(Blocks(data \o <<One>> \o ZeroBytes(zeros) \o SizeBytes(Len(data))))

\* RFC 2104: H(K xor opad, H(K xor ipad, text)), long keys hashed first.
Rfc2104(key, text) ==
  LET short == IF Len(key) > Block THEN Fips(key) ELSE key
      K     == short \o ZeroBytes(Block - Len(short))
  IN  Fips(Xor(K, {"opad"}) \o Fips(Xor(K, {"ipad"}) \o text))

\* RFC 5869, as hkdf.c:19-78 quotes it: the first L bytes of T(1), T(2), ...
Rfc5869(salt, ikm, L) ==
  LET prk == Rfc2104(salt, ikm)
      N   == (L + HashLen - 1) \div HashLen
      T[n \in 0..N] == IF n = 0 THEN <<>> ELSE Rfc2104(prk, T[n - 1] \o <<<<"count", n>>>>)
  IN  SubSeq(FlattenSeq([n \in 1..N |-> T[n]]), 1, L)

\* However the data is cut into updates, wherever the cuts fall in the blocks
\* and the padding, the digest is that of the whole.
CutsDoNotMatter ==
  result # <<>> /\ job.kind = "sha256" => result = Fips(Data("data", job.data))

\* With a key shorter than a block, as long, or longer, an HMAC fed in pieces
\* is the one of RFC 2104 (hmac.c:62-90 quotes its steps).
HmacIsRfc2104 ==
  result # <<>> /\ job.kind = "hmac" =>
    result = Rfc2104(Data("key", job.key), Data("data", job.data))

\* However much is asked for, up to a digest, a whole number of them or a part
\* of one, HKDF is the one of RFC 5869; the two keys of hkdf_two_keys have no
\* byte in common.
HkdfIsRfc5869 ==
  result # <<>> /\ job.kind = "hkdf" =>
    LET salt == Data("key", job.key)
        ikm  == Data("data", job.data)
        keys == HkdfTwoKeys(salt, ikm)
    IN  /\ result = Rfc5869(salt, ikm, job.size)
        /\ keys[1] \o keys[2] = Rfc5869(salt, ikm, 2 * HashLen)
        /\ \A i, j \in 1..HashLen : keys[1][i] # keys[2][j]
=============================================================================
