----------------------------- MODULE Handshake -----------------------------
(***************************************************************************)
(* The three acts of the Noise_XK handshake of handshake.c, as functions   *)
(* on the initiator's struct handshake, and of the responder that BOLT #8  *)
(* describes.                                                              *)
(*                                                                         *)
(* A public key stands for its pair.  ECDH of one pair's private and       *)
(* another's public key is the set of the two, from either side.  The      *)
(* running hash h is the list of what was mixed into it, and a ciphertext  *)
(* is the term of its key, nonce, associated data and plaintext.           *)
(***************************************************************************)
EXTENDS CryptoMsg

CONSTANTS NoKey    \* 33 bytes that do not parse as a public key

Zero == Root("zero")
ProtocolName == "Noise_XK_secp256k1_ChaChaPoly_SHA256"

Mix(h, x) == Append(h, x)
Ecdh(a, b) == [gen |-> 0, half |-> 0, from |-> {a, b}]
EncryptAd(k, n, ad, plain) == [k |-> k, n |-> n, ad |-> ad, plain |-> plain]

-----------------------------------------------------------------------------
(* The initiator *)

\* new_handshake: the responder's static public key is known.
NewHandshake(rs) ==
  [h |-> Mix(Mix(<<ProtocolName>>, "lightning"), rs), ck |-> Root(ProtocolName),
   temp_k |-> Zero, their_id |-> rs, e |-> NoKey, re |-> NoKey]

\* act_one_initiator_prep, with the ephemeral key generate_key returned.
ActOnePrep(hs, e) ==
  LET okm == HkdfTwoKeys(hs.ck, Ecdh(e, hs.their_id))
  IN  [hs EXCEPT !.e = e, !.h = Mix(@, e), !.ck = okm.out1, !.temp_k = okm.out2]

ActOneTag(hs) == EncryptAd(hs.temp_k, 0, hs.h, Zero)
ActOne(hs) == [v |-> 0, pubkey |-> hs.e, tag |-> ActOneTag(hs)]
AfterActOne(hs) == [hs EXCEPT !.h = Mix(@, ActOneTag(hs))]

\* lnsocket_act_two up to its decryption: h, ck and temp_k are changed
\* whether the tag then opens or not.
ActTwoMix(hs, act2) ==
  LET okm == HkdfTwoKeys(hs.ck, Ecdh(hs.e, act2.pubkey))
  IN  [hs EXCEPT !.re = act2.pubkey, !.h = Mix(@, act2.pubkey),
                 !.ck = okm.out1, !.temp_k = okm.out2]

ActTwoParses(act2) == act2.v = 0 /\ act2.pubkey # NoKey
ActTwoOpens(hs, act2) == act2.tag = EncryptAd(hs.temp_k, 0, hs.h, Zero)

\* A mutant that leaves the tag of act two out of the running hash.
MutAfterActTwo(hs, act2) == hs

\* Act two was opened: its tag goes into the running hash.
AfterActTwo(hs, act2) == [hs EXCEPT !.h = Mix(@, act2.tag)]

\* build_act_three: the static key s, sealed, and the last key derivation.
ActThreeCipher(hs, s) == EncryptAd(hs.temp_k, 1, hs.h, s)
AfterActThree(hs, s) ==
  LET okm == HkdfTwoKeys(hs.ck, Ecdh(s, hs.re))
  IN  [hs EXCEPT !.h = Mix(@, ActThreeCipher(hs, s)),
                 !.ck = okm.out1, !.temp_k = okm.out2]
ActThree(hs, s) ==
  [v |-> 0, ciphertext |-> ActThreeCipher(hs, s),
   tag |-> EncryptAd(AfterActThree(hs, s).temp_k, 0, AfterActThree(hs, s).h, Zero)]

\* handshake_success: the halves of the crypto_state.
SuccessSend(hs) == [n |-> 0, k |-> HkdfTwoKeys(hs.ck, Zero).out1, ck |-> hs.ck]
SuccessRecv(hs) == [n |-> 0, k |-> HkdfTwoKeys(hs.ck, Zero).out2, ck |-> hs.ck]

-----------------------------------------------------------------------------
(* The responder, from BOLT #8 *)

\* What the responder with static key ls knows after act one, and whether it
\* accepts it.
Responded1(ls, act1) ==
  [h |-> Mix(Mix(Mix(<<ProtocolName>>, "lightning"), ls), act1.pubkey),
   okm |-> HkdfTwoKeys(Root(ProtocolName), Ecdh(ls, act1.pubkey)), e |-> act1.pubkey]
AcceptsOne(ls, act1) ==
  /\ act1.v = 0
  /\ act1.tag = EncryptAd(Responded1(ls, act1).okm.out2, 0, Responded1(ls, act1).h, Zero)

\* Its act two, with its ephemeral key re, and its state after sending it.
RespondTwo(ls, act1, re) ==
  LET r1  == Responded1(ls, act1)
      okm == HkdfTwoKeys(r1.okm.out1, Ecdh(re, act1.pubkey))
      h   == Mix(Mix(r1.h, act1.tag), re)
      tag == EncryptAd(okm.out2, 0, h, Zero)
  IN  [act2 |-> [v |-> 0, pubkey |-> re, tag |-> tag],
       h |-> Mix(h, tag), okm |-> okm, re |-> re]

\* Whether act three proves that the initiator's static key is s, and the
\* chaining key both ends then have.
RespondThreeOkm(r, s) == HkdfTwoKeys(r.okm.out1, Ecdh(r.re, s))
AcceptsThree(r, act3, s) ==
  /\ act3.v = 0
  /\ act3.ciphertext = EncryptAd(r.okm.out2, 1, r.h, s)
  /\ act3.tag = EncryptAd(RespondThreeOkm(r, s).out2, 0,
                          Mix(r.h, act3.ciphertext), Zero)
ResponderKeys(r, s) ==
  LET ck == RespondThreeOkm(r, s).out1
  IN  [recv |-> HkdfTwoKeys(ck, Zero).out1, send |-> HkdfTwoKeys(ck, Zero).out2, ck |-> ck]
=============================================================================
