----------------------------- MODULE CryptoMsg -----------------------------
(***************************************************************************)
(* The transport encryption of crypto.c: what cryptomsg_encrypt_msg,       *)
(* cryptomsg_decrypt_header, cryptomsg_decrypt_body and maybe_rotate_key   *)
(* do to the two halves of a struct crypto_state.                          *)
(*                                                                         *)
(* A half is a record [n, k, ck]: the nonce, the key and the chaining key  *)
(* of one direction (rn, rk, r_ck to receive; sn, sk, s_ck to send).       *)
(*                                                                         *)
(* Cryptography is symbolic.  HKDF builds a fresh term from its inputs, so *)
(* two derived keys are equal exactly when they were derived alike.  AEAD  *)
(* turns a plaintext into a unit of bytes that opens only under the key    *)
(* and the nonce that sealed it, and only when it is read whole and        *)
(* exactly; nothing in the ciphertext tells a header from a body.          *)
(***************************************************************************)
EXTENDS Naturals, Sequences

CONSTANTS Tag,       \* bytes of the authentication tag: 16
          LenSize,   \* bytes of the length prefix: 2
          RotateAt   \* seals under one key before it is rotated: 1000

ASSUME CryptoAssumption ==
  /\ Tag \in Nat \ {0}
  /\ LenSize \in Nat \ {0}
  /\ RotateAt \in Nat \ {0}
  /\ RotateAt % 2 = 0

\* An encrypted length prefix on the wire (the literal 18 of the code), and
\* the bytes of a whole message of length len.
HdrSize == LenSize + Tag
BodySize(len) == len + Tag
FrameSize(len) == HdrSize + BodySize(len)

-----------------------------------------------------------------------------
\* A secret the handshake ends with; gen counts the derivations since.
Root(name) == [gen |-> 0, half |-> 0, from |-> name]

\* hkdf_two_keys(out1, out2, in1, in2): the two halves of HKDF(in1, in2).
HkdfTwoKeys(in1, in2) ==
  [out1 |-> [gen |-> in2.gen + 1, half |-> 1, from |-> <<in1, in2>>],
   out2 |-> [gen |-> in2.gen + 1, half |-> 2, from |-> <<in1, in2>>]]

\* What handshake_success leaves in the crypto_state of the initiator: both
\* chaining keys are ck, the two keys are HKDF(ck, zero), both nonces are 0.
HandshakeKeys == HkdfTwoKeys(Root("ck"), Root("zero"))
HandshakeSend == [n |-> 0, k |-> HandshakeKeys.out1, ck |-> Root("ck")]
HandshakeRecv == [n |-> 0, k |-> HandshakeKeys.out2, ck |-> Root("ck")]

-----------------------------------------------------------------------------
\* Mutants of maybe_rotate_key: one that lets the limit pass, and one that
\* starts the nonces again and forgets the new key.
MutRotateLate(h) ==
  IF h.n <= RotateAt
  THEN h
  ELSE LET okm == HkdfTwoKeys(h.ck, h.k)
       IN  [n |-> 0, k |-> okm.out2, ck |-> okm.out1]
MutRotateKeepsKey(h) == IF h.n # RotateAt THEN h ELSE [h EXCEPT !.n = 0]

\* Every RotateAt seals the key is replaced: ck', k' = HKDF(ck, k).
MaybeRotateKey(h) ==
  IF h.n # RotateAt
  THEN h
  ELSE LET okm == HkdfTwoKeys(h.ck, h.k)
       IN  [n |-> 0, k |-> okm.out2, ck |-> okm.out1]

\* A sealed run of bytes: where it starts in its stream, its size on the
\* wire, the key and nonce it is sealed with, the length field or message
\* inside it, and whether all of its bytes were handed to the network.
Unit(at, size, k, n, head, len, plain, whole) ==
  [at |-> at, size |-> size, k |-> k, n |-> n, head |-> head,
   len |-> len, plain |-> plain, whole |-> whole]

\* cryptomsg_encrypt_msg seals the length under nonce n and the message
\* under nonce n + 1 of the same key, and then may rotate.  Of the bytes it
\* produced, only the first wrote reach the stream, which has at bytes.
EncryptMsg(h, at, len, plain, none, wrote) ==
  << Unit(at, HdrSize, h.k, h.n, TRUE, len, none, wrote >= HdrSize),
     Unit(at + HdrSize, BodySize(len), h.k, h.n + 1, FALSE, len, plain,
          wrote >= FrameSize(len)) >>

AfterEncryptMsg(h) == MaybeRotateKey([h EXCEPT !.n = @ + 2])

\* The units of a stream that open when size bytes read at byte at are
\* decrypted with half h.
Opens(h, at, size, units) ==
  {u \in {units[i] : i \in DOMAIN units} :
     u.at = at /\ u.size = size /\ u.k = h.k /\ u.n = h.n /\ u.whole}

\* A mutant of cryptomsg_decrypt_header that uses its nonce again.
MutHeaderKeepsNonce(h) == h

\* cryptomsg_decrypt_header advances the nonce whether it opens or not, and
\* never rotates.  cryptomsg_decrypt_body advances it as well, and rotates
\* only when the body opened.
AfterDecryptHeader(h) == [h EXCEPT !.n = @ + 1]

AfterDecryptBody(h, opened) ==
  LET h1 == [h EXCEPT !.n = @ + 1]
  IN  IF opened THEN MaybeRotateKey(h1) ELSE h1

=============================================================================
