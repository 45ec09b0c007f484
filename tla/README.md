# A TLA+ verification of lnsocket

lnsocket lets a program send messages over the Lightning network's encrypted
transport (BOLT #8): a C library (`lnsocket.c`, `handshake.c`, `crypto.c`), a
JavaScript client around the same code compiled to WebAssembly, a Go client, and
`lnrpc`, a command that runs an RPC over it. This directory holds TLA+ models of
it, TLC configurations that check them on small instances, and TLAPS proofs that
hold for every instance. Everything is translated from the source; `PROJECT.json`
maps each definition to its lines.

## The system

| Part | State | Operations | What makes it correct |
|---|---|---|---|
| Message encryption, `crypto.c` | `struct crypto_state`: `sn sk s_ck`, `rn rk r_ck` | `cryptomsg_encrypt_msg`, `cryptomsg_decrypt_header`, `cryptomsg_decrypt_body`, `maybe_rotate_key` | no nonce is used twice under a key; the two ends rotate at the same unit |
| Message layer, `lnsocket.c` | `ln->msgbuf`, `ln->socket`, the crypto state, the error arena | `lnsocket_read`, `lnsocket_write`, `lnsocket_send`, `lnsocket_recv`, `lnsocket_perform_init`, `lnsocket_pong` | each direction is a fail-stop FIFO channel, whatever pieces `read()` and `write()` work in and wherever the stream breaks |
| Handshake, `handshake.c` | `struct handshake` (`h ck temp_k ss e re`, the acts) | `act_one_initiator`, `act_two_initiator`, `lnsocket_act_two`, `build_act_three` | both ends finish with matching keys or the initiator reports failure |
| Connection set-up, `lnsocket.c` | `ln->key`, `ln->socket`, blocking mode | `lnsocket_connect_with`, `lnsocket_handshake_with_tor`, `lnsocket_setkey`, `lnsocket_genkey` | success means a finished handshake on the current socket; failure leaves nothing usable |
| Error arena and cursors, `error.c`, `cursor.h` | `ln->errs` (4096 bytes), cursors | `note_error`, `print_error_backtrace`, pushes, pulls, slices | the arena holds whole strings only; no cursor passes its end |
| Wire helpers, `endian.h`, `bigsize.c`, `varint.c`, `commando.c`, `lnsocket.c` | none | `lnsocket_make_init_msg`, `..._ping_msg`, `..._pong_msg`, TLVs, numbers | what is pushed is what is pulled; each number has one encoding; nothing partial is reported as whole |
| Hashes and key derivation, `sha256.c`, `hmac.c`, `hkdf.c` | `struct sha256_ctx`, `k_opad` | `sha256_update`, `sha256_done`, `hmac_sha256`, `hkdf_sha256` | the digest is that of the standard, however the data is cut |
| RPC client, `lnrpc.c` | its loop | connect, init, request, collect replies, answer pings, time out | the reply printed is the reply sent; every exit is a terminal reply, an error or a timeout |
| JavaScript client, `lnsocket_lib.js` | `queue`, `connected`, `ws`, the pending promises | `connect`, `read_all`, `read`, `rpc`, `write`, `disconnect`, socket events | calls get the bytes meant for them; every promise settles |
| Go client, `go/lnsocket.go` | the brontide connection (external) | `ConnectAndInit`, `PerformInit`, `Recv`, `Rpc` | a call returns the whole reply to its request, or an error |
| Bindings, tests and examples; vendored code without callers | none | | not modelled |

The parts interact by calls: the RPC client calls the message layer and waits in
`select()` between calls; the message layer seals and opens with the crypto state
that the handshake left; the handshake runs once inside connect; every part
notes its errors in the arena, which only `lnsocket_read` empties. The JavaScript
client replaces the socket by a queue that events fill and polling timers empty,
and calls the same C functions between awaits. Nothing in C is concurrent inside
the library, but the network is: what `read()` and `write()` return, and where a
connection breaks, is not the caller's choice.

What is hard to test here: rotation (a fault shows after 500 messages); messages
in pieces; short and failed writes that leave a hole in the stream; what happens
after a failure, since no call closes the socket and nothing marks it as broken;
the sizes at which `msgbuf` is full; aliasing of `msgbuf`; reconnecting one
`struct lnsocket`; and the interleavings of asynchronous calls in JavaScript.
`PROJECT.json` lists each of these under `hazards`, at its line.

## Modules

**CryptoMsg** has no state. It defines what the functions of `crypto.c` do to one
half of a `struct crypto_state`, a record `[n, k, ck]`. Cryptography is symbolic:
HKDF builds a new term from its inputs, with the number of derivations on it, and
AEAD makes a `Unit`, a run of bytes at a place in a stream that opens only when
read whole, under its key and nonce. A unit does not say whether it is a header
or a body, because no associated data does: a body of two bytes is as long as a
header and the model lets one be opened as the other.

**Transport** is one connected `struct lnsocket`, its peer, and the two byte
streams between them.

| Variable | In the code |
|---|---|
| `rx`, `tx` | `rn rk r_ck` and `sn sk s_ck` of `ln->crypto_state` |
| `pc`, `want`, `size` | where `lnsocket_read` blocks, `read_all`'s remaining `size`, and the header's `size` |
| `inb inLen pos`, `out outLen outPos`, `closed` | the streams: the units put in, the bytes put in, the bytes read; whether the connection has ended |
| `ptx prx peerGot` | the peer, which follows BOLT #8 and is not part of the repository |
| `got failed handed` | history: what calls of `lnsocket_read` returned, whether one failed, what was handed over to be sent |

`ReadCall`, `ReadPart`, `ReadHeader`, `ReadBody` and `ReadEof` are one call of
`lnsocket_read`: a step ends where `read()` returns. `Write` and `Send` are calls
of `lnsocket_write` and `lnsocket_send`; the one `write()` takes any part of the
message. The caller is unconstrained: it may call again after any failure, as
the code lets it. `PeerHangUp` ends the connection at any moment, and bytes
still under way may be lost. TCP neither reorders nor changes bytes.

**MessageChannel** is the abstract promise of one direction: messages are
received in order, once and unchanged, until the channel breaks; then none is.
Transport is checked to implement it twice, `InRefines` for the client as the
receiver and `OutRefines` for the peer as the receiver.

**Handshake** has no state either. It defines, act by act, what `handshake.c`
does to `struct handshake` (`h ck temp_k ss e re` and the two ids), with hashes,
ECDH and AEAD as terms, and the responder that BOLT #8 describes, which the
repository does not contain.

**Connect** is one `struct lnsocket` through its calls of `lnsocket_connect`,
`lnsocket_connect_tor` and `lnsocket_write`.

| Variable | In the code |
|---|---|
| `key`, `sock`, `hs`, `tx`, `rx` | `ln->key` is set, `ln->socket`, `ln->handshake`, the two halves of `ln->crypto_state` |
| `pc`, `tor`, `torIn` | which system call `lnsocket_connect_with` waits in, whether it goes through a proxy, the proxy's bytes that were not read |
| `ret`, `why` | the result of the last connect and where it failed |
| `net`, `dialled`, `acts`, `resp`, `peerKeys` | per connection: its fate, whether `connect()` succeeded at once, the acts sent, what the responder knows and the keys it ends with |
| `wire` | history: every unit sealed, with the socket it was written to |

There is an action for every place where a call waits or fails: `ConnectRefused`
to `ConnectCall` (no key, `socket()`, `getaddrinfo()`, `connect()`),
`SelectReturns`, `SelectFails`, `TorGreet`, `TorReply`, `SendActOne`,
`ActTwoReadFails`, `ActTwoRefused` and `ActTwoThree`, which does what
`act_two_initiator` does after its read: build act three, replace the crypto
state, and only then write. `Write` is one call of `lnsocket_write`. The node
dialled answers or does not; another node in its place answers with anything; a
connection may settle late and break at any moment. That a write on a broken
connection returns an error supposes that the process ignores SIGPIPE, which the
code leaves to its caller.

**JsSocket** is the receiving side of one `LNSocket` of `lnsocket_lib.js`.

| Variable | In the code |
|---|---|
| `queue`, `connected`, `ws` | the fields of that name |
| `hs`, `rx` | the handshake and the receiving half behind `this.ln` |
| `task` | per asynchronous call: what it awaits, the `chunks` of its `read_all`, the bytes it still wants, the promise it took |
| `conn`, `units` | the sockets, and what the peer sends on each |
| `got` | history: what `read()` returned |

`setup` is the situation that a behaviour is in: who calls, whether the queue
holds bytes (Node) or promises (browsers), how events cut the stream, how many
sockets are made. It never changes.

An action is a callback with the continuations it makes ready, since these run
before the next callback: `Open`, `Close` and `Data` are the listeners of
`handle_connect`, `Timeout` its timer, `TickFinds` and `TickRejects` the poll of
`queue_recv` with the rest of `read_all` and of `read` or `connect` after it
(`GoOn`, `HeaderRead`, `BodyRead`, `ActTwoRead`). In a browser the queue holds
promises, and `Fulfilled` is a callback of its own. `Connect`, `CallRead` and
`Disconnect` are what a program may call, at any time.

**Wire** has no state. It gives the lengths of the messages that are built in a
buffer of given size: `lnsocket_make_init_msg` with its default arguments,
`lnsocket_make_pong_msg`, `commando_make_rpc_msg`. The tests of `cursor_push`
(which never uses the last byte of a buffer) and of the pong's padding (which
does) differ, and the module keeps them apart.

**RpcNode** is the node that a client asks by commando messages, and the
connection between them, which three clients share.

| Variable | In the code |
|---|---|
| `client`, `pc` | which client runs, and the call it is in |
| `read`, `wrote` | how many messages it read, and those it wrote, by type and length |
| `sent`, `arrived`, `part`, `up` | the node and the network (external): messages sent, how many have arrived whole, whether some bytes of the next have, whether the connection lasts |

It stands on what Transport shows: messages arrive in order, whole and unchanged,
until the connection ends. It keeps of the bytes what `select()` sees, that a
message may have arrived in part. The node answers requests in their order, in
numbered parts (`NodeReply`), and sends pings, messages of other types and ones
too short to have a type in between (`NodeExtra`); the network delivers late, in
part, or not at all (`ArriveSome`, `ArriveWhole`, `Breaks`).

**LnRpc** is one run of `main()` in `lnrpc.c`. Its `pc` names the call that
`main()` is in: `connect`, the read (`init`) and the write (`answer`) of
`lnsocket_perform_init`, the request (`ask`), `select()`, `lnsocket_recv`. `ok`
is the variable that `main()` negates for its exit status, `printed` the history
of what it printed. A write on a connection that ended may succeed, fail, or kill
the process (SIGPIPE, which `lnrpc.c` does not ignore). `RecvTerm`,
`RecvContinues`, `RecvPing`, `RecvOther` and `RecvShort` are the cases of its
switch, with the `lnsocket_recv` before them.

**BindingRpc** is the `rpc` of the Go and of the JavaScript `LNSocket`, for a
caller that makes one call after another. `chunks` are the parts of a reply read
so far, `results` what each call returned. The two differ where their code does:
Go writes its init message first and forgets the error of that write
(`GoGreet`, `GoHear`), JavaScript reads first (`JsHear`, `JsGreet`); a request
that does not fit fails at different lengths (`GoRpc`, `JsRpc`); a message too
short for a type ends a call in Go (`GoGetsShort`) and is passed over in
JavaScript; a JavaScript read throws once the socket closed, whatever has arrived
(`ReadEnds`). Neither answers pings. brontide, which Go uses, is external and is
taken for a fail-stop channel. **Rpc** composes node and clients.

**Cursor** has no state: a cursor is a record `[mem, p]`, and the operations of
`cursor.h` that lnsocket calls are operators on it. Their tests differ by one byte
(`cursor_push` never fills a buffer, `cursor_push_byte` and `cursor_malloc` do),
and the module keeps the difference.

**ErrorArena** is `error.c` over `ln->errs`, which `lnsocket_create` cuts from its
allocation. `CallFails` notes a text, `Read` is `lnsocket_read`, the only function
that forgets the earlier ones, and `Backtrace` is what `lnsocket_print_errors`
prints, pull by pull (`Pulls`). `noted` is history: the texts noted since the last
read began; `Told` are those of them that fit, found without the arena.

**Codec** writes and reads messages byte for byte: the integers of `endian.h`, the
bigsizes, varints and compact sizes, TLVs, prefixed strings, and the init, ping
and RPC messages built of them. A behaviour is one writer with a buffer of some
size, who pushes items until one is refused (`PushItem`) or builds a whole message
(`BuildMessage`), and then one reader, who gets some prefix of what was written,
or bytes of somebody else (`Handed`), and pulls (`PullItem`). A number of 64 bits
is its eight bytes, so that TLC can hold it. `Allowed` says which values the types of
the arguments admit; `Ends` is where each item ends on the wire, by its size.

**HashStream** is SHA-256 as a stream (the buffer of a block, the padding, the
length) with HMAC and HKDF on top. The compression function is symbolic: a digest
names the blocks it was made of, in order, so two computations agree only if they
compressed the same bytes. `Start`, `Update`, `Done` and `Derive` are the calls;
the definitions to compare with are those of FIPS 180-4, RFC 2104 and RFC 5869.

**MCTransport**, **MCConnect**, **MCJsSocket** and **MCBuffers** give the
constants values for TLC; MCBuffers runs one of ErrorArena, Codec and HashStream
in each behaviour. **Lists** holds the two things that several modules do to
sequences, keeping the elements that pass a test (`Kept`, `Only`), as recursive
functions, so that they can be proved about.

The modules with theorems are **CryptoProofs** and **DataProofs** (lemmas that
several share: on the encryption, and on sequences), **TransportProofs**,
**ConnectProofs**, **JsProofs**, **RpcProofs**, **BufferProofs** (of ErrorArena
and Codec) and **HashProofs**.

## Runs

| Run | What it shows |
|---|---|
| `transport_in` | reading: what `lnsocket_read` returns is a prefix of what the peer sent, it fails only when the stream ends or a message does not fit, it never succeeds again after it failed, and a call whose message has arrived returns |
| `transport_out` | writing: nonces are never reused and the peer accepts a prefix of what was handed over, even when any `write()` may be cut short at any byte and the caller goes on |
| `transport_real` | both directions of one socket with the code's own numbers, `lnsocket_send` and a length that wraps included: the longest readable message has 65528 bytes, after a longer one reading on in 18-byte steps never opens anything, and the peer receives a prefix of what was handed over |
| `transport_send` | a counterexample: `lnsocket_send` delivers bytes that are not the message (see Findings) |
| `connect_calls` | two connects of one struct and three writes anywhere among them: a finished handshake means agreement with the node dialled, which lasts over messages and rotations; no key and nonce is used twice over any sequence of successes and failures, no byte of the proxy is left for act two, and a connect that has its answer or has lost its connection returns |
| `connect_session`, `connect_acttwo`, `connect_proxy` | counterexamples (see Findings) |
| `js_calls` | the JavaScript client in two situations. One caller on one socket, in a browser: `read()` returns a prefix of what the peer sent, and returns what has arrived unless the socket closes. Two callers and two sockets, under Node: what stays in the queue is, of each socket, all bytes from some byte on, in order. In both `connected` is never true of a closed socket, and every call ends once the sockets are closed |
| `js_flag` | a counterexample (see Findings) |
| `rpc` | a node with one of three clients. lnrpc: what it prints is a prefix of the reply, whatever is interleaved with it; the exit status says whether the reply is whole; every ping is answered at the length it asked for; the process ends. Go and JavaScript: a call that returns a reply returns all parts of the reply to its request, unless an earlier call failed after its request was written; a call returns when its reply has arrived or the connection has ended |
| `data` | the byte buffers. The backtrace is the texts that fitted into the arena since the last read, each whole, and a read that fails finds room for its text; what is pushed is what is pulled, from every prefix; a message is built exactly when its buffer is large enough, and a length of 0 or a failure says that it is not; bytes that are accepted as a number are the ones the encoder writes; a digest, an HMAC and derived keys are those of the standards however the data is cut |

Bounds of Transport. A tag and a length prefix are one byte each, a key seals
four units, and `msgbuf` reads messages of up to four bytes: so two messages
rotate the key, four messages rotate it twice, and lengths 0, 1 and 5 are the
three cases that matter (shorter than a length prefix, as long, too long for
`msgbuf`). `Chunks`, `Cuts` and `Lost` bound the sizes of short reads, of short
writes and of what a broken connection loses; in `transport_in` and
`transport_out` they are all the sizes there are. The numbers are constants, so
nothing in the modules knows the scale; what the scale must satisfy is stated in
the assumptions. `BufAssumption` says that a message too long for `msgbuf` is
longer than all the length prefixes sealed under one key (65529 against 2000 in
the code). `FailStop` rests on it: a reader lost in the body of such a message
falls behind by more than the nonces of a key can make up for.

Bounds of Connect. Two connections are what it takes for one to leave a socket,
a handshake or keys behind for the next. A key seals two messages here, so that
three writes use nonces anew, rotate the key and go on after it. One node,
another one and the own key are the three public keys that a handshake can
confuse. Each counterexample run has one connection.

Bounds of JsSocket. Act two is two bytes, a header two, a body two or three, one
of them as long as a header. With one caller and two messages an event may carry
any part of what was sent, so a chunk ends inside, at and after a header, and
holds parts of two messages. With two callers and two sockets an event carries one
byte or all of them, and each socket one message: two callers are enough for one
to take what the other waits for, and two sockets for an old one to meddle with a
new one.

Bounds of Rpc. The request's strings have 4085 bytes, the longest that fit into
the 4096 of `msgbuf` after type and id, or one more, or 65526, one more than Go
can write. Pings ask for 0, 4 and 5 bytes, where the header stops being enough,
and for 65535, the most there is. A reply has up to three parts and two other
messages among them: one between two parts, one before or after. Two calls are
what it takes for one to meet what another left.

Bounds of the buffers. An arena of eight bytes and texts of one to three reach
every way of filling it: to the last byte, to the one that `cursor_push` keeps
free, and with the zero missing. The writers have 4, 10 or 17 bytes and push two
items, of numbers on both sides of each boundary of the encodings and of 64 bits;
17 is enough for the whole messages, 10 for some, 4 for none. The buffer a string
is read into (`StrRoom`) has two bytes, which the longest string fills, so that its
zero finds no room. The hashes have
blocks of eight bytes, a length field of one and digests of four; data of 0 to 17
bytes reaches the padding that fits, the one that needs a block more, and two
blocks; keys of an HMAC end below, at and above a block. Three updates cut the
data before, at and across a block's end.

Fairness. In Transport, weak fairness of the reading steps: `read()` returns
when there are bytes or the stream has ended. In Connect, weak fairness of the
steps inside a connect call: `select()` has a timeout, writes return, and a
`read()` returns when its answer is there or the connection is gone; a proxy is
taken to answer or to break. In JsSocket, weak fairness per caller: timers fire
and promises of the browser are fulfilled. In Rpc, weak fairness of the client:
`select()` has a timeout, a blocking read returns when a message is there or the
connection has ended, and a timer polls the queue. `RpcEnds` also supposes, in
its statement, that the node does not stop in the middle of a message:
`LNRPC_TIMEOUT` bounds the waits in `select()` only, not the handshake, the read
of the init message or the rest of a message that has begun. Nothing else is
assumed of the caller of the library, of the peer or of the network.

What `js_calls` says of the messages that one caller reads does not hold of two:
of two `read()` calls under way, one may take a header and the other its body.
In a browser, with two callers, `QueueKeepsOrder` does not hold either, because
a tick may fall between the `shift()` of one call and its `unshift()`. Nothing
in the repository promises otherwise, so neither is listed as a finding. Nor is
it that `read()` throws after the socket closed while whole messages are still
queued, nor that bytes left in the queue are read as act two of the next
connection, nor that all requests have id 0, so that a call after one that
failed may return the rest of the earlier reply (which is why `RepliesMatch`
supposes that none failed).

## Proofs

Each theorem holds for all values of the constants that satisfy the assumptions of
its modules (`CryptoAssumption` and those named after their module); TLC evaluates
these on every run.

**TransportProofs.** `TypeCorrect` is `Spec => []TypeOK`. `NoncesUnique` is
`Spec => []NonceNeverReused`. That no pair of key and nonce occurs twice is not
inductive; the invariant adds `NoncesSpent`: every key used is of an earlier
generation than `sk`, or is `sk` and was used with nonces below `sn`.
`EncryptAdvances` shows that a write raises the nonce by two or the generation by
one, and `WriteNonces` that this keeps the units apart.

The writing direction is proved there too. `OutChannelRefined` shows that writing
implements the abstract channel, with `lnsocket_send` and wrapped lengths;
`WritesArriveInOrder` is `PeerGotPrefix`, under `SendMsgs = {}` (with
`lnsocket_send` it is false, see Findings). Both rest on `OutInv`: the units sealed
follow one schedule of keys and nonces, `Track`, which goes one nonce further with
each unit and rotates at `RotateAt`; the peer's receiving half is where that
schedule was when the next message was sealed, and what it accepted is what was
sealed up to there. A place of the schedule does not come back (`Apart`,
`TrackUnique`), so wherever a short write moves the stream, the one unit that the
peer can open is the one it is due.

And the reading direction, for a caller that goes on after any failure:
`ReadsArriveInOrder` (`ClientGotPrefix`), `FailuresExplained`, `StoppedForGood`
(`FailStop`) and `InChannelRefined`. The invariant `InInv` says that the reader is
either `OnTrack`, at the boundary of a message or of its body, with the key and
nonce the schedule has there, or `OffTrack`, after a failure, behind the header that
belongs to its nonce. `Laid` gives the places of the units. That a lost reader stays
lost is the difficult part: it reads 18 bytes at a time and one nonce each through
the body it could not take, and would meet a unit that opens if bytes and nonces
fell into step again. By `BufAssumption` a message too long for `msgbuf` is longer
than all length prefixes that one key seals, so the reader's nonces of that key are
used up before it is through the body (`LostOpensNothing`). `LimitOfReads`
(`ReadLimit`) adds the code's own sizes, a tag of 16 bytes and 131072 for `msgbuf`.

**ConnectProofs.** `ConnectTypeCorrect`; `ProxyLeavesNothing` (`TorDrained`)
from `SocketOK` (a call under way has a socket that was made) and `ProxyBytes`
(what is left unread of a greeting is read with the answer, by `ReplyRead`); and
`NoncesApartForGood` (`NoncesApartAcrossConnects`), from `KeyInv`. Keys come
from handshakes that may fail at any step, of nodes that may be anybody, and a
connect replaces key and nonce together. The invariant says that the key to use
next was used with smaller nonces only (`Spent`), that no other key was derived
from it (`Childless`), that a key which a rotation made was made of one that was
used (`Descends`), and that a key which a handshake made has the ephemeral key
of a socket of its own as its first secret (`Rooted`), a socket that no
handshake under way or to come is on (`Secret`). So neither a rotation nor a
handshake ever makes a key again.

`SessionsAgree` (`SessionAgrees`) runs the three acts of `handshake.c` against the
responder of BOLT #8 in the proof. `AgreeInv` says, of each socket, that its acts
are the ones this handshake makes, or that an act two which somebody else wrote was
refused (`ActsOK`); that a handshake which waits for act two is the one of the
current socket, whatever an earlier connect left in `ln->handshake` (`AtTwo`); that
nothing is written on a socket before its handshake is over (`Quiet`); and that
afterwards the sending half is where the responder's receiving half is after the
messages written on this socket, rotations included (`Session`).

**JsProofs.** `JsTypeCorrect`, with the facts that no chunk is ever empty and that a
call which polls wants bytes, and `FlagTellsTruth` (`ConnectedMeansOpen`), for any
number of callers and sockets: `connected` is set only by an open event, which
makes its socket `this.ws`, and a socket that closes clears it, whichever it is.

`QueueInOrder` (`QueueKeepsOrder`) rests on `OrderInv`: of each socket the chunks in
the queue are `InLine`, each beginning where the one before ends, up to the last
byte that arrived. Under Node this holds with any number of callers; in a browser
it is said of the queue behind the chunk that the one caller holds, since between
the `shift()` of a call and its `unshift()` the queue alone has a hole.

`ReadsReturnInOrder` (`ReadsInOrder`) is what the client is for: with one caller
on one socket, what `read()` returned is a prefix of what the peer sent, however
events cut the stream, whenever the socket closes. `ReadInv` gives the phases
(`Phase`): before act two is under way nothing is queued; while it is, the call has
taken some of its bytes and the rest is in line; after it the receiving half is at
nonce 2g when g messages were returned, one further while a body is awaited, and
the bytes in the call's `chunks`, in its hand and in the queue are in line from
the end of message g (`BetweenReads`, `InHeader`, `InBody`); and once a call was
rejected the socket is closed and no later call returns anything (`Over`).

**RpcProofs.** One invariant, `Inv`, for the node and its three clients, and five
theorems from it, for any requests, replies, pings, buffers and bounds:
`RpcTypes`; `LnRpcPrintsReply` (`PrintedIsReply`), `LnRpcExitTells`
(`ExitTellsTruth`) and `LnRpcPongs` (`PongsAnswer`) of lnrpc; and
`BindingRepliesMatch` (`RepliesMatch`) of the bindings. `NodeOK` says that a piece
of a reply belongs to the request after those whose replies have ended. Of lnrpc
the invariant says that it printed the pieces among the messages it read, none of
them a last one unless it left its loop for that, and that it answered the pings
among them. Of a binding it says that, as long as no call failed with its request
written, as many replies were read as requests made before a call, one fewer in
it, and the `chunks` are what was read of the reply that is due (`InStep`). That
no reply of an earlier request is ever taken for this one's follows from counting,
since the ids of requests are all alike.

**BufferProofs.** All of ErrorArena and of Codec, for any sizes, texts, items,
messages and bytes. Both rest on what a cursor operation leaves alone
(`CursorOK`, `Wrote`, `Cursors`, `Put`).

`BacktraceIsTold` (`BacktraceTells`) and `ReadsTellTheirError` (`ReadErrorIsTold`)
follow from `ErrorInv`: the texts that fitted lie in the arena one after the other
from its start on, each with its zero, up to `errs.p` (`Laid`), and no others do
(`Keeps`). Behind `errs.p` the
bytes are whatever earlier calls left, so the proof has to show that the pulls end
there, and that none of them runs into the end of the arena.

Of the encodings, `BigsizeRoundTrip` and `BigsizeCanonical` say that for every
number of 64 bits `bigsize_get` returns what `bigsize_put` wrote, whatever comes
behind it, and accepts no other encoding of it. Of whole messages,
`RoundTrips` (`RoundTrip`), `BuildsWhenItFits` (`BuiltWhenItFits`) and
`ReadsAreCanonical` (`Canonical`) follow from `CodecInv`, which TLC checked on the
instance of `data` too. Each kind of item has its bytes (`Enc`), of the length that
`SizeOf` promises; a push writes them or finds no byte more than they take
(`PushGave`), hence so does a builder (`PushAllGives`), and the writer's buffer up to
its cursor `Spells` what was pushed. A pull that is shown the first of these bytes
takes the value when they are all there and refuses it when not (`Took`, `PullIs`),
so the reader stands where the items it got end, or was refused the next one, which
ends behind its buffer (`ReadBack`). Of bytes from elsewhere, what was read is the
encodings of what was got, one after the other (`ReadNumbers`).

**HashProofs.** For any sizes of blocks, digests and size fields, keys and data of
any length and any cut into updates: `DigestsAreFips` (`CutsDoNotMatter`),
`HmacsAreRfc2104` (`HmacIsRfc2104`) and `KeysAreRfc5869` (`HkdfIsRfc5869`). What a
context has taken in (`Holds`) is in its chaining value as far as it makes whole
blocks, and for the rest at the start of its buffer; `AddHolds` shows that `add`
keeps this when its data is too short for a block (`AddShort`), and when it fills
one and goes on with blocks from the source (`AddLong`). After the padding nothing
is left over, as there is one number of zeros only for which that is so
(`ZerosAre`). The invariant of a computation, `HashInv`, says that it holds the
data given to it so far, of an HMAC behind the key with its inner pad (`Taken`). Of
HKDF, both the code's loop and RFC 5869's definition are the first bytes of the
same digests (`Chain`, `Expansion`), and there is one sequence of each length that
is; a digest tells the first byte of the text that was hashed behind the key
(`Rfc2104First`), so those of other texts have no byte in common with it.

**DataProofs** has what these need of sequences. The library states induction of an
operator, which the provers cannot instantiate; here it is stated of a set
(`Induct`: a set of numbers that has 0 and with each number the next has them all),
which is derived from the least-number principle. `Recursion` says that a function
defined by recursion on a place in a sequence exists and follows its steps. With
these two the proofs can speak of what `Kept`, `Stream` or `AfterMessages` compute
for sequences and numbers of any size.

What the proofs assume of constants, beyond the sizes of the encryption and
`BufAssumption`: that `lnsocket_pong`'s buffer holds a whole message and that
requests and answers are built in buffers no larger (the code has 65535, 4096 and
65533); that a peer's ping does not ask for more than a message holds, which its
two bytes cannot; that a key derivation asks for a byte at least and for less than 255 digests, as
`hkdf.c:17` asserts; that an error's text fits into the empty arena; that a string
which is sent with its length in front fits into its reader's buffer; that the public keys of the node, of another node and of the
client itself differ from each other and from the zero key; and, of the model,
that the value which stands for nothing is none of the node's answers.

Every safety invariant and action property that the passing runs check is the
statement of a theorem. Only model-checked are the liveness properties
(`ReadReturns`, `ConnectReturns`, `CallsSettle`, `RpcEnds`, `RpcReturns`), which are
out of TLAPS's reach.

## Findings

- `lnsocket_send` (`lnsocket.c:191`) writes type and payload at the start of
  `ln->msgbuf` and passes that address to `lnsocket_write`, which encrypts into
  the start of `ln->msgbuf`. The sealed header overwrites the first 18 bytes of
  the message before they are sealed. The peer authenticates the result and
  takes it for a message.
- `lnsocket_encrypt` (`lnsocket.c:506`) reports "not connected" only when
  `ln->socket` is 0. After a connect that failed it is not, and `lnsocket_write`
  seals under the keys of an earlier session, or of none, and writes to the new
  socket. The counters are never set back on the way, so no nonce is used twice.
- `act_two_initiator` (`handshake.c:455`) calls `read()` once where its comment
  says that it reads exactly 50 bytes. An act two in two segments fails the
  handshake.
- The test of `connect()` to a proxy (`lnsocket.c:713`) is inverted: a connection
  made at once is reported as "Failed to connect".
- The close listener of every socket clears `connected` (`lnsocket_lib.js:420`).
  When an earlier socket closes after a later one opened, reads of the open one
  throw "read_all: not connected", and `disconnect()` does not close it.

Smaller things met on the way, which no call in the repository can run into:
`cursor_pull_bigsize` has no caller and does not move its cursor;
`lnsocket_set_feature_bit`, also without a caller, forgets the bits set before;
`push_varint` and `cursor_push_tlv` leave what they wrote when a later byte does
not fit (their callers give up the message); `hkdf_sha256` asserts `okm_size <
255 * 32` where the text it quotes has `<=`.

## Not modelled

- The cryptographic primitives (secp256k1, ChaCha20-Poly1305 and the compression
  function of SHA-256): symbolic.
- `sha512.c`, the SHA-512 half of `hmac.c`, `bech32.c`: linked, and called by
  nothing in the repository. `configurator.c` runs at build time.
- The operations of `cursor.h` that nothing calls (the stack operations, printing
  and the signed integers).
- The Rust binding, `index.js`, the tests and the examples: they call the parts
  above and hold no state of their own.
- The formatting of error texts, parsing of addresses, JSON.
- In JavaScript, that `decrypt` and `encrypt` return views into the memory of the
  wasm module, and in C that the message `lnsocket_read` returns lies in `msgbuf`,
  which the next write overwrites: messages are values in the models, and the
  callers in the repository are done with them before they write.
