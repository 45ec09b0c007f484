----------------------------- MODULE MCBuffers -------------------------------
(***************************************************************************)
(* Small instances of the modules about byte buffers, one of which runs in *)
(* each behaviour while the others rest: ErrorArena, Codec and HashStream. *)
(***************************************************************************)
EXTENDS ErrorArena, Codec, HashStream

VARIABLE part

vars == <<part, errorVars, codecVars, hashVars>>

ErrorsRest == errs = MakeCursor(<<>>) /\ noted = <<>>
CodecRests ==
  phase = "stopped" /\ w = Unwritten /\ r = Unwritten /\ asked = <<>> /\ got = <<>>
HashRests ==
  /\ job = [kind |-> "none", key |-> 0, data |-> 0, size |-> 0]
  /\ ctx = [sha |-> Sha256Init, k_opad |-> <<>>]
  /\ fed = 0 /\ pieces = 0 /\ result = <<>>

Init ==
  \/ part = "errors" /\ ErrorInit /\ CodecRests /\ HashRests
  \/ part = "codec" /\ CodecInit /\ ErrorsRest /\ HashRests
  \/ part = "hash" /\ HashInit /\ ErrorsRest /\ CodecRests

Next ==
  \/ part = "errors" /\ ErrorNext /\ UNCHANGED <<part, codecVars, hashVars>>
  \/ part = "codec" /\ CodecNext /\ UNCHANGED <<part, errorVars, hashVars>>
  \/ part = "hash" /\ HashNext /\ UNCHANGED <<part, errorVars, codecVars>>

Spec == Init /\ [][Next]_vars

-----------------------------------------------------------------------------
(* ErrorArena: an arena that two or three of these texts fill to the byte *)

Texts == {<<1>>, <<2, 2>>, <<3, 3, 3>>}

(* Codec: the boundaries of the encodings *)

Numbers ==
  {U64(0), U64(252), U64(253), U64(255), U64(65535), U64(65536),
   <<0, 0, 0, 0, 255, 255, 255, 255>>, <<0, 0, 0, 1, 0, 0, 0, 0>>,
   <<255, 255, 255, 255, 255, 255, 255, 255>>}

SomeItems ==
  {Item(kind, v) : kind \in {"bigsize", "compact"}, v \in Numbers}
  \cup {Item("varint", <<n>>) : n \in {0, 127, 128, 16383, 16384, 2147483647}}
  \cup {Item("u16", <<n>>) : n \in {0, 256, 65535}}
  \cup {Item("u64", U64(258)), Item("byte", <<0>>), Item("data", <<0, 9>>),
        Item("cstr", <<>>), Item("cstr", <<7, 8>>),
        Item("pstr", <<>>), Item("pstr", <<7, 8>>), Item("tlv", U64(253) \o <<5>>)}

SomeMessages ==
  {InitMsg(<<0, 0>>, <<1, 2, 3>>, <<NetworkTlv(<<<<1, 2>>>>)>>),
   PingMsg(1, 2), RpcMsg(3, <<<<1>>, <<2, 3>>>>)}

\* Shortest and longer encodings of the boundaries, whole and cut.
SomeBytes ==
  {<<>>, <<252, 253>>, <<253, 0, 252>>, <<253, 0, 253, 254, 0, 1, 0, 0>>,
   <<253, 255>>, <<254, 0, 0, 255, 255>>, <<254, 0, 1, 0>>,
   <<255, 0, 0, 0, 0, 255, 255, 255, 255>>, <<255, 0, 0, 0, 1, 0, 0, 0, 0>>,
   <<255, 0, 0, 0, 1, 0, 0, 0>>}

SomeCaps == {4, 10, 17}

(* HashStream: an eighth of SHA-256, with data of up to two blocks and more *)

Job(kind, keys, datas, sizes) ==
  [kind : {kind}, key : keys, data : datas, size : sizes]
SomeJobs ==
  Job("sha256", {0}, 0..17, {0})
  \cup Job("hmac", {0, 4, 7, 8, 9}, {0, 1, 7, 8, 9}, {0})
  \cup Job("hkdf", {4}, {0, 4}, 1..9)
=============================================================================
