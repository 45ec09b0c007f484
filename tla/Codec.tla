------------------------------- MODULE Codec ---------------------------------
(***************************************************************************)
(* How messages are written and read through cursors: the integers of      *)
(* endian.h, the bigsizes of bigsize.c, the varints of varint.c and of     *)
(* cursor.h, TLVs, and the messages built of them in lnsocket.c and        *)
(* commando.c.                                                             *)
(*                                                                         *)
(* A value is a sequence of numbers: <<n>> for an integer that TLC can     *)
(* hold, the eight bytes, first the highest, for one of 64 bits, and the   *)
(* bytes of a string.  A builder gives up at the first push that fails.    *)
(* The reader knows what it is to read, as the protocol says, and gets     *)
(* what was written up to some byte.                                       *)
(***************************************************************************)
EXTENDS Cursor, FiniteSets

CONSTANTS
  Caps,      \* sizes of a writer's buffer
  Items,     \* what is written one after the other: [kind, v]
  Messages,  \* whole messages, as sequences of items
  Foreign,   \* bytes that no builder wrote, read as bigsizes
  MaxItems,  \* bound: items written one after the other
  StrRoom    \* size of the buffer that a reader of strings brings

VARIABLES
  phase,    \* "writes", "refused", "reads" or "stopped"
  w,        \* the writer's cursor
  asked,    \* the items it was to push, the last of which may be refused
  r,        \* the reader's cursor
  got       \* the values the reader pulled

codecVars == <<phase, w, asked, r, got>>

Item(kind, v) == [kind |-> kind, v |-> v]

UpTo(max) == {n \in Nat : n <= max}

\* What the types of the arguments allow: bytes of 8 bits, ints that are not
\* negative, strings without a zero, TLVs with a length of 16 bits.  A string
\* with its length in front fits into its reader's buffer.
Allowed(item) ==
  CASE item.kind = "byte"    -> Len(item.v) = 1 /\ item.v \in Seq(0..255)
    [] item.kind = "u16"     -> Len(item.v) = 1 /\ item.v \in Seq(UpTo(65535))
    [] item.kind = "varint"  -> Len(item.v) = 1 /\ item.v \in Seq(UpTo(2147483647))
    [] item.kind \in {"u64", "bigsize", "compact"} -> Len(item.v) = 8 /\ item.v \in Seq(0..255)
    [] item.kind = "data"    -> item.v \in Seq(0..255)
    [] item.kind = "cstr"    -> item.v \in Seq(1..255)
    [] item.kind = "pstr"    -> Len(item.v) <= StrRoom /\ item.v \in Seq(0..255)
    [] item.kind = "tlv"     -> Len(item.v) >= 8 /\ Len(item.v) <= 65543 /\ item.v \in Seq(0..255)
    [] OTHER                 -> FALSE

ASSUME CodecAssumption ==
  /\ Caps \subseteq Nat /\ MaxItems \in Nat /\ StrRoom \in UpTo(2147483647)
  /\ \A item \in Items : Allowed(item)
  /\ \A message \in Messages : /\ message \in Seq(Range(message))
                              /\ \A item \in Range(message) : Allowed(item)
  /\ Foreign \subseteq Seq(0..255)

-----------------------------------------------------------------------------
(* Encodings *)

Byte(n, k) == (n \div <<1, 256, 65536, 16777216>>[k + 1]) % 256

\* cpu_to_be16, and back.
Be16(n) == <<Byte(n, 1), Byte(n, 0)>>
FromBe16(b) == b[1] * 256 + b[2]

\* A number of 64 bits, as its bytes.
U64(n) == <<0, 0, 0, 0, Byte(n, 3), Byte(n, 2), Byte(n, 1), Byte(n, 0)>>

\* Does a number of 64 bits fit into its lowest k bytes?
Fits(v, k) == \A i \in 1..(8 - k) : v[i] = 0
Low(v, k) == SubSeq(v, 9 - k, 8)

\* Small enough to stand for itself, below the marks.
OneByte(v) == Fits(v, 1) /\ v[8] < 253

\* Mutants of bigsize_put, with a boundary one too high and one too low.
MutBigsizePutHigh(v) ==
  IF Fits(v, 1) /\ v[8] <= 253 THEN Low(v, 1)
  ELSE IF Fits(v, 2) THEN <<253>> \o Low(v, 2)
  ELSE IF Fits(v, 4) THEN <<254>> \o Low(v, 4)
  ELSE <<255>> \o v
MutBigsizePutLow(v) ==
  IF OneByte(v) THEN Low(v, 1)
  ELSE IF Fits(v, 2) /\ v # U64(65535) THEN <<253>> \o Low(v, 2)
  ELSE IF Fits(v, 4) THEN <<254>> \o Low(v, 4)
  ELSE <<255>> \o v

BigsizePut(v) ==
  IF OneByte(v) THEN Low(v, 1)
  ELSE IF Fits(v, 2) THEN <<253>> \o Low(v, 2)
  ELSE IF Fits(v, 4) THEN <<254>> \o Low(v, 4)
  ELSE <<255>> \o v

BigsizeLen(v) ==
  IF OneByte(v) THEN 1
  ELSE IF Fits(v, 2) THEN 3 ELSE IF Fits(v, 4) THEN 5 ELSE 9

\* How many bytes the first byte announces, of bigsize_get's cases.
TakenAt(b) ==
  IF b = <<>> THEN 0
  ELSE CASE b[1] = 253 -> 3 [] b[1] = 254 -> 5 [] b[1] = 255 -> 9 [] OTHER -> 1

\* A mutant of bigsize_get that takes any encoding.
MutBigsizeGet(b) ==
  LET n == TakenAt(b)
      v == IF n = 1 THEN U64(b[1]) ELSE Zeros(9 - n) \o SubSeq(b, 2, n)
  IN  IF n > 0 /\ n <= Len(b) THEN [n |-> n, v |-> v] ELSE [n |-> 0, v |-> <<>>]

\* bigsize_get: the number at the start of b and how many bytes it took, or
\* none, when b is too short or a shorter encoding would do.
BigsizeGet(b) ==
  LET n == TakenAt(b)
      v == IF n = 1 THEN U64(b[1]) ELSE Zeros(9 - n) \o SubSeq(b, 2, n)
      shortest == CASE n = 3 -> ~OneByte(v)
                    [] n = 5 -> ~Fits(v, 2)
                    [] n = 9 -> ~Fits(v, 4)
                    [] OTHER -> TRUE
  IN  IF n > 0 /\ n <= Len(b) /\ shortest THEN [n |-> n, v |-> v] ELSE [n |-> 0, v |-> <<>>]

\* The bytes push_varint pushes for an int that is not negative: seven bits
\* each, first the lowest, and a high bit in all but the last.
Sevens == <<1, 128, 16384, 2097152, 268435456>>
VarintBytes(n) ==
  LET groups == Cardinality({i \in 1..5 : i = 1 \/ n >= Sevens[i]})
  IN  [i \in 1..groups |-> ((n \div Sevens[i]) % 128) + (IF i < groups THEN 128 ELSE 0)]

\* varint.c: a bigsize with its lowest byte first.
VarintPut(v) == SubSeq(BigsizePut(v), 1, 1) \o Reverse(Tail(BigsizePut(v)))

\* varint_get takes any encoding, also one that is longer than needed.
VarintGet(b) ==
  LET n == TakenAt(b)
      v == IF n = 1 THEN U64(b[1]) ELSE Zeros(9 - n) \o Reverse(SubSeq(b, 2, n))
  IN  IF n > 0 /\ n <= Len(b) THEN [n |-> n, v |-> v] ELSE [n |-> 0, v |-> <<>>]

-----------------------------------------------------------------------------
(* Writing *)

\* cursor_push_tlv: type, length and value, one after the other.
PushTlv(c, type, value) ==
  LET typed == CursorPush(c, BigsizePut(type))
      sized == CursorPush(typed.c, BigsizePut(U64(Len(value))))
  IN  IF ~typed.ok THEN typed ELSE IF ~sized.ok THEN sized ELSE CursorPush(sized.c, value)

\* push_prefixed_str: the length as a varint, then the string.
PushPrefixedStr(c, str) ==
  LET sized == PushEach(c, VarintBytes(Len(str)))
  IN  IF sized.ok THEN CursorPush(sized.c, str) ELSE sized

Push(c, item) ==
  CASE item.kind = "byte"    -> CursorPushByte(c, item.v[1])
    [] item.kind = "u16"     -> CursorPush(c, Be16(item.v[1]))
    [] item.kind = "u64"     -> CursorPush(c, item.v)
    [] item.kind = "data"    -> CursorPush(c, item.v)
    [] item.kind = "cstr"    -> CursorPushCStr(c, item.v)
    [] item.kind = "varint"  -> PushEach(c, VarintBytes(item.v[1]))
    [] item.kind = "bigsize" -> CursorPush(c, BigsizePut(item.v))
    [] item.kind = "compact" -> CursorPush(c, VarintPut(item.v))
    [] item.kind = "pstr"    -> PushPrefixedStr(c, item.v)
    [] item.kind = "tlv"     -> PushTlv(c, SubSeq(item.v, 1, 8), SubSeq(item.v, 9, Len(item.v)))

PushAll(c, items) ==
  LET pushed[k \in 0..Len(items)] ==
        IF k = 0 THEN Yes(c)
        ELSE IF pushed[k - 1].ok THEN Push(pushed[k - 1].c, items[k]) ELSE pushed[k - 1]
  IN  pushed[Len(items)]

\* lnsocket_make_network_tlv: the TLV of type 1 whose value is block hashes, put
\* together in a buffer with a byte to spare.
NetworkTlv(hashes) == Item("tlv", U64(1) \o FlattenSeq(hashes))

\* lnsocket_make_init_msg
InitMsg(globalfeatures, features, tlvs) ==
  <<Item("u16", <<16>>),
    Item("u16", <<Len(globalfeatures)>>), Item("data", globalfeatures),
    Item("u16", <<Len(features)>>), Item("data", features)>> \o tlvs

\* lnsocket_make_ping_msg: the ignored bytes are pushed one by one.
PingMsg(num_pong_bytes, ignored_bytes) ==
  <<Item("u16", <<18>>), Item("u16", <<num_pong_bytes>>), Item("u16", <<ignored_bytes>>)>>
  \o [i \in 1..ignored_bytes |-> Item("byte", <<0>>)]

\* commando_make_rpc_msg, with the strings of the request.
RpcMsg(req_id, strings) ==
  <<Item("u16", <<19535>>), Item("u64", U64(req_id))>>
  \o [i \in DOMAIN strings |-> Item("data", strings[i])]

-----------------------------------------------------------------------------
(* Reading *)

\* cursor_pull_bigsize returns how many bytes it took and, unlike the other
\* pulls, leaves the cursor where it was; who calls it has to move it.
PullBigsize(c) ==
  LET res == BigsizeGet(Ahead(c, End(c) - c.p))
  IN  IF res.n = 0 THEN Refuses(c) ELSE Gives(Moved(c, res.n), res.v)

PullCompact(c) ==
  LET res == VarintGet(Ahead(c, End(c) - c.p))
  IN  IF res.n = 0 THEN Refuses(c) ELSE Gives(Moved(c, res.n), res.v)

\* pull_varint: up to five bytes, the last of them without a high bit.
PullVarint(c) ==
  LET rest  == Ahead(c, End(c) - c.p)
      lasts == {i \in 1..5 : i <= Len(rest) /\ rest[i] < 128}
      n     == CHOOSE i \in lasts : \A j \in lasts : i <= j
      group(i) == IF i > n THEN 0 ELSE (rest[i] % 128) * Sevens[i]
  IN  IF lasts = {} THEN Refuses(Moved(c, IF Len(rest) < 5 THEN Len(rest) ELSE 5))
      ELSE Gives(Moved(c, n), <<group(1) + group(2) + group(3) + group(4) + group(5)>>)

\* pull_prefixed_str: the string goes to a buffer of its own, with a zero after
\* it, for which there may be no room; nobody looks.
StrBuf == MakeCursor(Zeros(StrRoom))
PullPrefixedStr(c) ==
  LET length == PullVarint(c)
      pulled == PullDataInto(length.c, StrBuf, length.v[1])
  IN  IF ~length.ok THEN length
      ELSE IF ~pulled.ok THEN Refuses(length.c)
      ELSE Gives(pulled.c, SubSeq(CursorPushByte(pulled.v, 0).c.mem, 1, length.v[1]))

\* A TLV, as the other side reads it.
PullTlv(c) ==
  LET type   == PullBigsize(c)
      length == PullBigsize(type.c)
      value  == CursorPull(length.c, FromBe16(Low(length.v, 2)))
  IN  IF type.ok /\ length.ok /\ value.ok THEN Gives(value.c, type.v \o value.v)
      ELSE Refuses(c)

Pull(c, item) ==
  CASE item.kind = "byte"    -> LET got1 == PullByte(c)
                                IN  IF got1.ok THEN Gives(got1.c, <<got1.v>>) ELSE got1
    [] item.kind = "u16"     -> LET got2 == CursorPull(c, 2)
                                IN  IF got2.ok THEN Gives(got2.c, <<FromBe16(got2.v)>>) ELSE got2
    [] item.kind = "u64"     -> CursorPull(c, 8)
    [] item.kind = "data"    -> CursorPull(c, Len(item.v))
    [] item.kind = "cstr"    -> CursorPullCStr(c)
    [] item.kind = "varint"  -> PullVarint(c)
    [] item.kind = "bigsize" -> PullBigsize(c)
    [] item.kind = "compact" -> PullCompact(c)
    [] item.kind = "pstr"    -> PullPrefixedStr(c)
    [] item.kind = "tlv"     -> PullTlv(c)

-----------------------------------------------------------------------------
Unwritten == MakeCursor(<<>>)

\* A buffer to write into, or bytes from elsewhere to read.
CodecInit ==
  /\ asked = <<>> /\ got = <<>>
  /\ \/ phase = "writes" /\ w \in {MakeCursor(Zeros(cap)) : cap \in Caps} /\ r = Unwritten
     \/ phase = "reads" /\ w = Unwritten /\ r \in {MakeCursor(b) : b \in Foreign}

Pushes(items) ==
  /\ phase = "writes"
  /\ LET done == PushAll(w, items)
     IN  w' = done.c /\ phase' = IF done.ok THEN "writes" ELSE "refused"
  /\ asked' = asked \o items
  /\ UNCHANGED <<r, got>>

\* A part of a message, or a message of its own.
PushItem == Len(asked) < MaxItems /\ \E item \in Items : Pushes(<<item>>)
BuildMessage == asked = <<>> /\ \E message \in Messages : Pushes(message)

\* The reader gets the bytes before some byte.
Handed ==
  /\ phase = "writes"
  /\ \E n \in 0..w.p : r' = MakeCursor(SubSeq(w.mem, 1, n))
  /\ phase' = "reads"
  /\ UNCHANGED <<w, asked, got>>

\* What the reader expects next, while there is something.
Expects == w = Unwritten \/ Len(got) < Len(asked)
Expected == IF w = Unwritten THEN Item("bigsize", <<>>) ELSE asked[Len(got) + 1]

PullItem ==
  /\ phase = "reads" /\ Expects
  /\ LET pulled == Pull(r, Expected)
     IN  /\ r' = pulled.c
         /\ \/ pulled.ok /\ got' = Append(got, pulled.v) /\ UNCHANGED phase
            \/ ~pulled.ok /\ phase' = "stopped" /\ UNCHANGED got
  /\ UNCHANGED <<w, asked>>

CodecNext == PushItem \/ BuildMessage \/ Handed \/ PullItem

CodecSpec == CodecInit /\ [][CodecNext]_codecVars

-----------------------------------------------------------------------------
\* How many bytes an item is to take on the wire.
SizeOf(item) ==
  CASE item.kind = "byte"    -> 1
    [] item.kind = "u16"     -> 2
    [] item.kind = "cstr"    -> Len(item.v) + 1
    [] item.kind = "varint"  -> Len(VarintBytes(item.v[1]))
    [] item.kind = "pstr"    -> Len(VarintBytes(Len(item.v))) + Len(item.v)
    [] item.kind \in {"bigsize", "compact"} -> BigsizeLen(item.v)
    [] item.kind = "tlv"     -> BigsizeLen(SubSeq(item.v, 1, 8))
                                + BigsizeLen(U64(Len(item.v) - 8)) + Len(item.v) - 8
    [] OTHER                 -> Len(item.v)

\* Where each of the items ends, one after the other.
Ends(items) ==
  LET end[k \in 0..Len(items)] == IF k = 0 THEN 0 ELSE end[k - 1] + SizeOf(items[k])
  IN  end

\* What is read is what was written, value for value, and the reader stops at
\* the first value that was cut: no cut makes it misread one, none that
\* arrived whole is refused, and nothing is read past the end.
RoundTrip ==
  w # Unwritten =>
    /\ \A i \in DOMAIN got : got[i] = asked[i].v
    /\ phase = "stopped" =>
         /\ Ends(asked)[Len(got)] <= End(r)
         /\ Len(got) < Len(asked) => Ends(asked)[Len(got) + 1] > End(r)

\* A message is written as soon as the buffer has a byte more than it takes,
\* and then takes no byte more than its parts do in their shortest form.
BuiltWhenItFits ==
  /\ phase = "refused" => Ends(asked)[Len(asked)] >= End(w)
  /\ phase = "writes" => Ends(asked)[Len(asked)] = w.p

\* Types and lengths of TLVs have one encoding: what bigsize_get takes is, byte
\* for byte, what bigsize_put makes of the number.
Canonical ==
  w = Unwritten => SubSeq(r.mem, 1, r.p) = FlattenSeq([i \in DOMAIN got |-> BigsizePut(got[i])])
=============================================================================
