# A TLA+ model of tcp-handler

tcp-handler puts four protocols (`raw`, `compress`, `encrypt`, `compress_encrypt`) on a
byte stream: a handshake that makes sure both ends run the same protocol and application,
and packets after it. This directory models the crate's protocol code (`src/src/` in the
repository), checks it with TLC and proves with TLAPS every safety property and every refinement that the
runs check.

## 1. The system

### Components, their state and operations

| component | code | state | operations |
|---|---|---|---|
| packet framing | `protocols/common.rs` | none of its own; the two byte streams | `write_packet`, `read_packet`, `check_bytes_len`, `flush` |
| configuration | `config.rs` | one global per process: size limit, compression level | `set_config`, `get_max_packet_size`, `get_compression`, `get_config` |
| `Cipher` | `protocols/common.rs` | `Mutex<Option<(key, nonce)>>` | `new`, `get` (takes the nonce out), `reset` (puts one back) |
| encrypting protocols | `protocols/encrypt.rs`, `compress_encrypt.rs` | the `Cipher` | `send`, `recv` |
| plain protocols | `protocols/raw.rs`, `compress.rs` | none; the caller's `Buf` | `send`, `recv` |
| handshake | `common.rs` and the `*_init`, `*_start` of every protocol | what has been read so far; RSA key; result of `server_init` | `client_init`, `client_start`, `server_init`, `server_start` |
| handlers | `streams/*.rs` | reader, writer, `Cipher`, client version | `new`, `from_stream`, `connect`, `send`, `recv`, `handler_send_recv`, `into_inner`, `from_inner`, drop |

### How they interact

A handler's `new` runs the handshake over its reader and writer and keeps them, with the
`Cipher` the handshake has made. Its `send` and `recv` call the protocol's functions, which
call the framing, which asks the global configuration for the limit at every packet. The
two ends share only the two byte streams. Within one end, `send` and `recv` may overlap
(the protocol functions take the writer, the reader and `&Cipher` separately), and any
thread may call `set_config`. Every `await` is a point where the other side moves on, where
an i/o error may come, and where the caller may drop the future.

### What is hard

* One nonce serves both directions of an encrypted connection; each packet carries the next.
* A packet's length is the only mark in the stream. Whatever stops half way through a packet
  leaves the stream misaligned, and nothing notices.
* The order of effects in `send` (encode, consume the `Buf`, move the nonce, check the size,
  write, flush) decides what an error leaves behind.
* The handshake answers before it has read everything, and each side acts on a prefix of
  what the other wrote; neither has a timeout.
* `flush` is a feature, and `from_stream` always makes a `BufWriter`.
* `handler_send_recv` does not read while it sends: two of them that cross rely on the
  connection to hold what one of them has sent.
* Handshake and packets share one stream without a mark between them, and the server may send
  packets before the client has read the end of the handshake.
* `into_inner` turns one `&mut` handler into a reader and a writer that may be used at once, and
  dropped one without the other.
* A handler whose `recv` has failed stays usable, with its reader or its `Cipher` out of place.

### What makes each part correct

* Channel (all protocols): messages come out in order, without a gap, each once; no wrong
  data before some call has failed. Abstractly: `MessageChannel`.
* Encrypting protocols: in addition no nonce encrypts two packets, and a broken `Cipher`
  stays broken.
* Handshake: success at the client means agreement on everything; a rejection is true and
  carries the other side's value; both calls return. Abstractly: `Admission`.
* Framing: byte for byte, what is read is what was written, until a call stops in a frame.
* Handlers: no byte of the handshake is taken for a packet or a packet for the handshake; what
  `send` has returned `Ok` for arrives, or some call on it fails; each direction is a channel until
  then.

`PROJECT.json` lists every hazard with its line in the code and the properties that watch it.

## 2. The modules

| module | models | lines of the code it stands for |
|---|---|---|
| `PacketLayer` | framing, limit, the two streams, the connection | `common.rs` 222-263, `config.rs` |
| `Frames` | framing byte by byte, under the handlers | `common.rs` 222-263, `streams/mod.rs` 20-53 |
| `FramesProofs` | theorems about `Frames` | |
| `FramesLayerProofs` | that `Frames` implements `PacketLayer` | |
| `MessageChannel` | the abstract channel | the promise of the trait `TcpHandler` |
| `CipherChannel` | `send`, `recv`, `Cipher` on both ends | `encrypt.rs`, `compress_encrypt.rs`, `common.rs` 282-325 |
| `CipherChannelProofs` | theorems about `CipherChannel`, whatever fails | |
| `CipherTurnsProofs` | theorems about `CipherChannel` in request and response | |
| `PlainChannel` | `send`, `recv` of raw and compress, and retries | `raw.rs`, `compress.rs` |
| `PacketLayerProofs` | lemmas about the steps of `PacketLayer` | |
| `PlainChannelProofs` | theorems about `PlainChannel` | |
| `Admission` | the abstract handshake | the promise of `new` |
| `Handshake` | `new` on both ends, field by field | `common.rs` 98-219, the `*_init` and `*_start`, `streams/*.rs` |
| `HandshakeProofs` | theorems about `Handshake` | |
| `TcpHandler` | handlers from `new` to drop | `streams/*.rs`, `streams/mod.rs` |
| `TcpHandlerProofs` | theorems about `TcpHandler` | |
| `MCCipherChannel`, `MCPlainChannel`, `MCFrames`, `MCHandshake`, `MCTcpHandler` | instances for TLC | |

    MessageChannel <--implements-- CipherChannel --extends--> PacketLayer <--implements-- Frames
                   <--implements-- PlainChannel  --extends--> PacketLayer
                   <--implements-- TcpHandler    --extends--> Handshake --implements--> Admission

`CipherChannel` and `PlainChannel` extend `PacketLayer` and conjoin its steps with their own,
so one action is one stretch of code between two awaits. Both instantiate `MessageChannel`.
Operators introduced by a comment `Mutant:` are not part of the model: each is a faulty
version of the definition after it and shows which property would notice the fault.

### PacketLayer

`CONFIG[s]` is the global configuration of the process of side `s`; `set_config` replaces it
whole, the getters read one part of it each, so a send of the compressing protocols may take
the level from one configuration and the limit from the next. `read_packet` asks for the limit
once, when it has the length (`ReadTooLarge`); that the packet it returns later passed the
limit of some configuration is `checked_bytes_len`.

`out[s]` is what the writer of side `s` has accepted, `wire[s]` what is on its way. An item
is a packet written whole (`Whole`) or the beginning of one (`Cut`). `skew[s]` says that the
reader of `s` does not stand at the beginning of an item. A reader that is misaligned, or
meets a cut item, takes some bytes for a length: `Misread` lets it return TooLarge or a
packet nobody sent and stop anywhere; `MisreadOn` lets it run into the next item. The
content of bytes is not modelled, so what a misread returns is arbitrary, and that a reader
lands on a true packet boundary again is allowed (`skew' = FALSE`).

`Drain` is the writer's own business: a `BufWriter` may pass data on at any time because it
runs full, but is obliged to do so only in `flush`. `Flushed` is the end of `flush`.

### CipherChannel

Nonces are numbers: `fresh` is the next one `generate_nonce` returns, 96 random bits taken as
never repeating. A packet is a record of the nonce it is sealed under (`key`), the nonce it
carries (`next`), its message and its length. A packet opens under its `key` only, and bytes
that are not a whole packet open under none (AES-GCM). `Seal` is the synchronous part of
`send`, one atomic step because the Cipher's lock is held from `get` to `reset`; `Write`,
`SendTooLarge`, `Flush`, `SendIO` and `CancelSend` are the awaits after it. `Read...` are the
outcomes of `read_packet` in `recv`, `OpenOk`, `OpenFails` and `OpenBroken` its synchronous
part. `Fault` counts lost connections, dropped futures and failed encryptions. The histories
`sealed`, `delivered` and `okSends` only record.

`Turns` restricts the callers to request and response (`handler_send_recv` at the client,
`recv` then `send` at the server). It is a way to use the crate, not code, and is off except
where a run says so. The caller's `Buf` is not modelled here: a message sent again after an
error counts as a new message (`PlainChannel` is about the `Buf`).

### PlainChannel

A `Payload` is what a `Buf` holds of a message: all, a rest, or nothing. raw hands the `Buf`
itself to `write_packet`, which checks the size before consuming it; compress has consumed it
when the size is checked. A caller may repeat a failed `send` with the same `Buf`
(`Sendable`). `reported` collects the sides about whose messages some call, at either end,
has returned an error that may leave the stream misaligned: a send that stopped at an await
and any recv that failed.

### Frames

The same framing with its bytes: `stream[s]` is every byte the writer of `s` has accepted,
`moved[s]` how many of them are on the connection, `taken[s]` how many of the peer's bytes `s`
has consumed. The connection holds `Capacity` bytes in each direction. A length is a varint to
the base `Base` (`Header`): low digits first, all but the last with a continuation bit. The crate
takes its varints from the library `variable_len_reader`; what the framing relies on, that a reader
who stops at the first byte without a continuation bit has read the length that was written, is
`VarintAssumption`, which TLC evaluates for the bodies of the run. `Send` writes a
frame, `SendStops` a part of one; `Take` consumes a byte, `Accept` and `Refuse` are
`check_bytes_len`, `Return` the end of `read_packet`, `RecvStops` a dropped or failed call at any
byte. One call of a handler runs at a time (`call[s]`), as `&mut self` demands;
`handler_send_recv` receives when its flush has ended. The stream, its marks in `log`, and
`astray` are histories.

`ImplementsLayer` maps the bytes back to the items of `PacketLayer`: `wire` are the items that
are not read yet and have begun to be on the connection, `skew` says that the running or next
`recv` does not begin where an item begins. Every step is one of `PacketLayer`'s actions or
changes nothing it can see; what a `recv` returns is the head of the stream unless it misreads.
The refinement is what fixed two details of `PacketLayer`: `checked_bytes_len`, and the third
outcome of `ReadInterrupted`.

### Handshake

What a side writes is a script of fields, those of the diagrams in `common.rs`, with magic bytes
and magic version as one. Three cursors say how far a script has come: `wrote[s]` to the writer,
`sent[s]` to the connection, `read[Peer(s)]` by the peer. `stage[s]` is the await a side stands
at. Each side has a `BufWriter` or not (`buffered`) and a crate built with `auto_flush` or not; an
unbuffered writer needs no flush, so the fourth combination is left out. Initial states are all
combinations of parameters: variant, identifier and version of both sides, the versions the
server's predicate accepts, right and wrong magic. `EndDropped` is `new` returning an error:
reader and writer are dropped, and with a `BufWriter` what it holds. `Fails` is an i/o error at
an await, because the connection is lost or the peer has gone. `Reset` is TCP's answer to closing
a socket with unread input: the peer may lose what it has not read. `write_last` sends the
server's own parameters, which is what makes `RejectionsTrue` a statement about both sides.

`Admission` is the handshake as its callers see it: the server decides once, by comparing the two
sides' parameters, and each side ends with that verdict or an error of its own. A wrong magic is
a verdict the client is not told. `Verdict` maps `last` to the verdict and `result` to the
outcomes.

### TcpHandler

The handlers on top of the same streams: a packet is one more field behind the script, and the
three cursors go on. `New(step)` is a step of `Handshake`; when `new` returns `Ok` the handler is
`whole`. Its methods take `&mut self`, so a whole handler runs one call at a time (`Borrows`);
`into_inner` makes it `parts`, whose `send` and `recv` borrow writer and reader separately,
`from_inner` makes it whole again, and `DropReader` and `DropWriter` leave the other half. Whatever
drops the writer (`CloseWriter`) closes the stream and loses what a `BufWriter` holds; when both
halves are gone with input unread, the transport may reset the connection.

Every way a call can end is there. `nonce[s]` is the field in which the nonce of the Cipher of `s`
came, or `Broken`: a packet is sealed under the one in place, with the next inside, so sends that
cross leave two Ciphers at different fields and `RecvUndecrypted` refuses what arrives.
`SendTooLarge` and `RecvTooLarge` are the limit. Sizes are left out, so any packet may be over it at
either end, up to `MaxFaults`. `SendStops` leaves a `cut` packet or none. A reader that does not stand at
the first byte of a whole packet is `Misplaced`: it is inside a field (`skew`), because a `recv`
refused a packet or was dropped half way through, or it is in front of a cut one. It reads on, as
nothing tells it, and may get an error (`RecvMisread`), bytes that nobody sent (`RecvGarbage`, 0 in
`got`, without encryption only), or the need for more (`RecvReadsOn`), and end inside a field or at
the end of one. `reported` is the history of all this: the sides on whose packets a call has failed,
or of whose packets a reset has discarded some. A `recv` that finds the end of the stream behind the
last packet (`RecvEof`), or is dropped before its first byte, is not among these. Bytes, lengths and
the order of the two errors of one packet are the matter of `PacketLayer`, `Frames` and
`CipherChannel`.

## 3. The runs

| run | instance | shows |
|---|---|---|
| `cipher_faults` | encrypt, 2 sizes, 2 sends, 1 fault, limits 40 and 41 changing on each side, no auto_flush | `TypeOK`, `InOrder`, `InSync`, `NonceOnce`, `BrokenIsFinal`, `Refinement`, and `IInv` is an invariant |
| `cipher_turns` | compress_encrypt, request and response, 4 sends, no fault | `NoDecryptError`, `NonceOnceOverall`, `Delivered`, and `InTurns` is an invariant |
| `plain_faults` | raw, 2 packets, limits around their size changing on each side, 1 fault, retries, no auto_flush | `TypeOK`, `Faithful`, `WholeMessages`, and `IInv` is an invariant |
| `plain_duplex` | compress, 3 packets crossing, no fault | `Delivered`, `Refinement`, and `IInv` is an invariant |
| `frames` | binary varints of up to 2 digits, bodies of 1 and 2 bytes, limits 1 and 3, capacity 3, 2 frames, 1 fault | `TypeOK`, `Faithful`, `Exchange`, `ImplementsLayer`, and `IInv` is an invariant |
| `handshake_faults` | every pair of parameters, every kind of writer, resets, 1 fault | `TypeOK`, `Agreement`, `RejectionsTrue`, `NoMutualWait`, `ServerKeepsClient`, `ReasonLearnedUnbuffered`, `Terminates`, `Refinement`, and `IInv` is an invariant |
| `tcp_handler` | raw and encrypt over the `BufWriter`s of `from_stream`, a plain server without auto_flush; clients that do not fit over every kind of writer; resets, 2 packets, 1 fault or packet over a limit | `TypeOKHandler`, `FieldsApart`, `MessageConfirms`, `SentArrives`, `ImplementsChannel`, and `HandlerInv` is an invariant |

Some of these say less than they seem to, on purpose. `Exchange` holds only when the connection
can hold the backlog of one of the two crossing calls; without that conjunct TLC finds the two
handlers waiting for each other, each in its flush. `SentArrives` is about senders whose crate
flushes, and allows that a packet has not arrived in five cases: a call on the sender's packets has
failed or a reset has discarded some (`reported`; what happens in `cipher_duplex` and
`plain_garbage` is this case), the connection is lost, the peer's `new` has failed, or the peer has
dropped its reader. What is left is the silent loss, and the sender that drops its handler as soon as
`send` has returned is the case that could have one; that the stream then ends at the peer does not
count as a report. `ImplementsChannel` says of a direction that it is `MessageChannel` until it is
`reported`, and of what follows only that nothing is taken back.
`NoMutualWait` names the one reason for which both ends of a handshake wait: an unflushed
`BufWriter`. `ReasonLearnedUnbuffered` is the part of `ReasonLearned` that holds.

Five runs show where the code departs from its documentation; each checks one property:

* `cipher_duplex` (`NoDecryptError`). Two ends that both send before they receive seal under
  the same nonce and move to different ones. Neither can open the other's packet and both
  Ciphers break, although nothing has failed. README.md:60 of the crate offers all protocols
  for use "in a similar way".
* `cipher_too_large` (`ErrorBreaksCipher`). `send` moves the nonce before `write_packet`
  checks the size. After TooLarge the Cipher is neither in step with its peer nor broken, as
  `common.rs:35-36` says it is after an error.
* `handshake_buffered` (`ReasonLearned`). `server_start` leaves with `?` before its flush, and
  the `BufWriter` of `from_stream` drops the error information unsent.
* `plain_garbage` (`GarbageFree`). After TooLarge in `recv` the body stays in the stream; the
  next `recv` of raw returns pieces of it with `Ok`.
* `plain_retry` (`WholeMessages`). compress: repeating a `send` with the same `Buf` after
  TooLarge and a raised limit sends an empty message with `Ok`; raw sends the whole one.

### Bounds

* `MaxSends` bounds the packets of both sides together. Two are enough for a crossing and
  for a loss followed by a success, three for a failure in a direction that has already
  turned round, four for two complete exchanges. In `PlainChannel` it also bounds what the
  writer of a lost connection collects and how many misread packets a reader returns.
* `MaxFaults` bounds faults of the environment. TooLarge, decryption failures and misreads
  are not faults: they are consequences and unbounded. In `TcpHandler`, which has no sizes, a packet
  over a limit has no cause within the model and counts as a fault, as a failed encryption does.
* Sizes: `encrypt` adds 28 bytes, so under the limit 40 a message of 12 bytes just passes and
  one of 13 just fails; the limit 41 passes both. raw adds nothing: 40 bytes pass the limit 40 and not 39. Deflate lengths vary by one byte around the
  input's. All boundaries are hit exactly, and no behaviour depends on sizes otherwise.
* Identifiers: right and wrong. Versions: the server recommends "1"; a client has "0", which the
  server accepts, or "2", which it refuses, so that no side's version can pass for the other's.
* `Frames`: with base 2 a body of two bytes has a length of two digits, and the body `<<0, 2>>`
  holds a byte with and one without a continuation bit, so that a misplaced reader finds short,
  long and too large lengths in it. The connection holds the short frame and not the long one.
  `handler_send` and `handler_send_recv` of both sides cross in every order.
* `TcpHandler`: two packets are a crossing exchange, or one that is lost and one that follows.
  `MaxSends` also bounds how many pieces of garbage a misplaced reader returns: it needs one to be
  wrong. Clients and servers that fit write through `BufWriter`s, as in `from_stream`, and the
  plain server does not flush: an unbuffered writer is one that drains at once, and
  `handshake_faults` has the rest. The longest way from `new` to drop is 60 steps, and TLC
  explores all of it.

Deadlock is not checked: callers may stop sending, and a bounded model ends.

### Fairness

Weak fairness for the steps of a started `send` and `recv` says that the runtime polls a
started future to its end, for `Read` that a caller who expects a message polls `recv`.
`Drain` is fair only during a flush and only with auto_flush: nobody else empties a
`BufWriter`. No send has to start, no fault has to happen, and nothing obliges anyone to be
served twice, so weak fairness is enough. In `Handshake` one weak fairness per side covers
its own steps and its i/o errors; it holds because every stage of a side that is not waiting
for the peer enables one of them, and a peer that has gone makes the wait end with an error.
`Terminates` needs auto_flush: without it, over a `BufWriter`, client and server wait for
each other. In `Frames` a started call is polled to its end and bytes move during a flush while
there is room. In `TcpHandler` the steps of `new`, `send` and `flush` of a side are one weakly
fair action, `Polled`, and those of `recv` another, `RecvPolled`: a side that has a reader goes on to
call `handler_recv` (`SentArrives` is about a peer that receives), and an awaited `recv` answers a
whole packet and the end of the stream. Nobody has to send, to drop or to close, and in a handler
nobody has to notice a lost connection. `Terminates` does rest on that: a peer that goes silent
without closing, which no timeout of the crate's would notice, is outside of it.

## 4. The proofs

Every invariant, action property and refinement that a passing run checks is also a theorem, for
all values of the constants; what is left to TLC is liveness. Each theorem rests on an inductive
invariant, and each of those is checked by a run before it is proved.

### CipherChannel

`CipherChannelProofs` proves, for all message sets, sizes, limits, both encrypting protocols,
both settings of `Turns` and `AutoFlush` and all bounds:

| theorem | statement |
|---|---|
| `TypeCorrect` | `Spec => []TypeOK` |
| `ChainCorrect` | `Spec => []IInv` |
| `DeliveryInOrder` | `Spec => []InOrder` |
| `CiphersInSync` | `Spec => []InSync` |
| `NoNonceReuse` | `Spec => []NonceOnce` |
| `BrokenForGood` | `Spec => BrokenIsFinal` |
| `ImplementsMessageChannel` | `Spec => Refinement` |

The only assumptions are `LayerAssumption` and `CipherAssumption`, which type the constants;
TLC evaluates them in every run.

The argument. `InOrder` is not inductive: that a packet opens says only that its `key` is the
reader's nonce. `IInv` adds where nonces can be. Every generated nonce is carried by one
packet (`Distinct`, `Generated`), a nonce `s` made itself can serve `s` in its very next
packet only (`Chain`), a nonce of the peer only after the packet that carries it was received
(`Returned`), and a packet sealed under the nonce `s` holds is the next one `s` expects, with
all of `s`'s own packets already received (`Expected`). `InSync` is what carries `Expected`
through a `Seal`. The order of the streams plays no part: loss, cuts and misreads are
harmless because `Genuine` says that everything in flight was sealed by its sender and
the chain decides what opens. Four lemmas (`ChainSeal`, `ChainOpen`, `ChainBreaks`,
`ChainUnchanged`) show that the four kinds of steps (`CoreStep`) keep the chain. For the
refinement a step of kind Seal maps to `Send`, a step of kind Open to `Deliver`, all others
stutter.

`CipherTurnsProofs` proves, for request and response (`Turns`), without faults (`MaxFaults = 0`)
and for packets that pass every limit (`EveryPacketFits`), again for all message sets, sizes, both
protocols and both settings of `AutoFlush`:

| theorem | statement |
|---|---|
| `TurnsKept` | `Spec => []InTurns` |
| `NothingFailsToDecrypt` | `Spec => []NoDecryptError` |
| `NoNonceReuseOverall` | `Spec => []NonceOnceOverall` |

The three conditions are needed: without `Turns` two sends that cross break all three properties
(`cipher_duplex`), and after a fault or a TooLarge the two Ciphers may stand at different nonces. `cipher_turns` is an
instance that satisfies them.

The argument. `IInv` above says where a nonce may be, whatever fails; `InTurns` says where it is
when nothing does. Requests and answers alternate (`Alternate`), so at most one packet is underway,
and that one is in one place: the writer, the connection, or the `recv` that has read it
(`OnePacket`). Its receiver's Cipher holds the nonce it is sealed under, its sender's the one it
carries, and both hold the same one when none is underway (`NonceTurns`). So every packet opens,
and the nonce of a new packet is one that has just been generated. `NonceOnceOverall` compares the
nonces of one side with those of the other; within a side it is `NonceOnce`, which needs none of this.

### PlainChannel

`PlainChannelProofs` proves, for all message sets, encoders, limits, both protocols and both
settings of `AutoFlush`:

| theorem | statement | condition |
|---|---|---|
| `TypeCorrect` | `Spec => []TypeOK` | |
| `Invariant` | `Spec => []IInv` | |
| `FaithfulUntilReported` | `Spec => []Faithful` | |
| `RawMessagesWhole` | `Spec => []WholeMessages` | raw (`~Compressed`) |
| `ImplementsMessageChannel` | `Spec => Refinement` | one limit, no fault |

compress does not satisfy `WholeMessages` (`plain_retry`). Without encryption nothing tells a
reader that it has lost its place, so the refinement holds only where no call fails on what has
been written: `OneLimit` says that all configurations have the same size limit (they may differ in
the level), and with `MaxFaults = 0` nothing stops at an await.

The argument. `Faithful` speaks of what has been received. `InTransit` adds what has not: until a
call has failed on the messages of `s`, its peer's received messages, the items on the wire and the
items in the writer are, in this order, what `s` has sent, all whole, and the reader stands at the
beginning of one. `RawWhole` follows a message of raw through its `Buf` and its retries.
`WithinLimits` and `OnlyFaults` say that what is in transit has passed some limit, so that with one
limit only a fault can make a `recv` fail. `PacketLayerProofs` says what each step of the framing
does to the items.

### Frames

`FramesProofs` and `FramesLayerProofs` prove, for every base, set of bodies, set of limits, capacity
and bound:

| theorem | statement |
|---|---|
| `Invariant` | `Spec => []IInv` |
| `TypeCorrect` | `Spec => []TypeOK` |
| `FramesFaithful` | `Spec => []Faithful` |
| `FramesImplementLayer` | `Spec => ImplementsLayer` |

The assumptions are `FramesAssumption`, which types the constants, and `VarintAssumption`. The latter
is what the definitions of `Varint` and `Number` give for bodies shorter than `Base ^ Digits`, but
they are recursive, and induction over data is out of the prover's reach; TLC evaluates it.

The argument. A recv knows nothing of frames: it sees bytes and counts. `Layout` divides a stream
into the items of its log, none of them empty, and whole ones until a call has stopped inside one.
`Inside` says of a recv that began where a whole frame begins that it is within the length while it
expects nothing, and within the body once it expects that very body; the step that needs it is
`Accept`, where what has been read must be the length that was written, and not a part of it
(`VarintAssumption`). `Expecting` lets a misplaced recv expect anything that passed a limit.
`Place` says that a recv begins behind the frames that have been returned. `FrameEnds`, that a recv
that has consumed exactly one frame wants no more and refuses nothing, is the lemma that both
proofs share.

For the refinement `Mapped` says that `Current` and `Unmoved`, defined by `CHOOSE`, are the one item
each that they are meant to be; it follows from `Layout`. A step that writes appends an item
(`PutLayer`). A byte that is moved is the first of its item, which is then drained, or one more
(`MoveLayer`). A byte that is read lies in the current item, or begins the next one, and then the
reader is misaligned, for else the frame would have ended its recv (`TakeLayer`, by `FrameEnds`). A
recv that ends does so inside its item or at its end (`EndsAt`), and at the end it has returned the
packet, or has misread (`ReturnLayer`, `BreaksOff`).

### Handshake

`HandshakeProofs` proves, for all sets of parameters, every magic, every kind of writer, with and
without `Resets`, and every `MaxFaults`:

| theorem | statement |
|---|---|
| `Invariant` | `Spec => []IInv` |
| `TypeCorrect` | `Spec => []TypeOK` |
| `AgreementHolds` | `Spec => []Agreement` |
| `RejectionsAreTrue` | `Spec => []RejectionsTrue` |
| `ClientIsKept` | `Spec => []ServerKeepsClient` |
| `ReasonIsLearned` | `Spec => []ReasonLearnedUnbuffered` |
| `NobodyWaitsInVain` | `Spec => []NoMutualWait` |
| `Implements` | `Spec => Refinement` |

The only assumption is `HandshakeAssumption`: variants are the four of `ProtocolVariant`, a client's
key is not the value that stands for no key, `Resets` is a Boolean, `MaxFaults` a number.

The argument. The invariant has three parts. `Sound` is what stays true when the handlers go on with
the same streams: scripts may have grown behind the fields of the handshake, and so it speaks of
their beginnings. `Delivered`: a side that waits has written all it has to say, and flushed it where
its crate flushes; `NoMutualWait` follows. `Faultless`: while nothing fails, a client ends with an
error that is not a rejection only when the server has closed its stream, which a server whose `new`
returned `Ok` has not (`ServerKeepsClient`); and an unbuffered server that refuses a version has
sent its reason, which the client reads first (`ReasonLearnedUnbuffered`).

For `Sound`: `Agreement` and `RejectionsTrue` speak of results and say nothing of the fields that
lead to them, so neither is inductive. `Sound` follows the fields once round. `HeadRead`: the stage
of the server says how many fields of the head it has read and that those fit, so the next field of
the script is the one the stage compares (`HeadKnown`, which needs that the booleans of a variant
tell it, `BoolsOneToOne`). `Judged`: hence the result of `server_init` is true. `Answered`: what the
server's script holds follows from that result, once the AES key is made from the secrets too.
`AnswerRead`: hence the client, whose stage again counts what it has read, decodes that same
result (`AnswerField`, `BitsOneToOne`) and, when the protocol encrypts, the server's key and
nonce. The cursors of `TypeOK` are what makes a field that is read a field that was written, and
`Streams` types the functions. `ServerReads` and `AnswerReadReads` are the two sides' reading
steps; the lemmas `...Step` show that every step keeps one conjunct. A discarded or lost field only
moves a cursor back, never below what the peer has read. For the refinement, `LastOnce` and
`EndsOnce` say that one step ends `server_init` or one `new` for the first time, and `VerdictTrue`
that what `server_init` ends with is what `Admission` decides.

### TcpHandler

`TcpHandlerProofs` proves, for all parameters, writers and bounds, under `HandshakeAssumption` and
`TcpHandlerAssumption` (the bound is a number):

| theorem | statement |
|---|---|
| `HandlerInvariant` | `HandlerSpec => []HandlerInv` |
| `HandlerTypeCorrect` | `HandlerSpec => []TypeOKHandler` |
| `FieldsStayApart` | `HandlerSpec => []FieldsApart` |
| `MessagesConfirm` | `HandlerSpec => []MessageConfirms` |
| `HandlersImplementChannel` | `HandlerSpec => ImplementsChannel` |

What they say of a handler whose calls fail: `HandlerInv`, `FieldsApart` and `MessageConfirms` hold
whatever `recv` returns, in place or out of it, except that the conjunct `Trusted` of the first ends
where a side is `reported`. `ImplementsChannel` ends there too, for that direction only. That a
packet is in place until then is what the crate can promise; afterwards it is in nobody's hands.

The argument. Until `new` returns, a step is a step of `Handshake`, and its lemmas apply; after that
only `Sound` survives, which is why it was cut out of the invariant of `Handshake`. The rest of the
invariant has two parts. `Placed` holds all through: a side that owns a handler has written its
fields of the handshake, as many as its variant has (`Opening`), and its packets behind them, and
its reader is past the peer's fields. Two sides whose `new` returned `Ok` have one variant, so what
such a reader meets is a packet, in place or not (`NextIsPacket`). `MessageConfirms` follows:
whoever returns bytes behind the fields has read them, and whoever sent those had a handler.
`Trusted` holds until a side is reported: its packets are whole, and its peer's reader stands behind
exactly those it has returned, so that the next one is the next one sent (`NextInOrder`), which is
the refinement. Steps of `recv` are of two kinds: one returns the packet in place
(`RecvStepInOrder`), the others report or follow a report (`RecvStrays`, `AstrayStep`), or consume
nothing (`StillStep`).

### Only model-checked

Liveness and fairness are out of the prover's reach: `Delivered` (of both channels), `Exchange`,
`Terminates` and `SentArrives` are checked on the instances of section 3 only. So are the five
violations: they are counterexamples of one instance each. That a varint satisfies
`VarintAssumption` is evaluated, not proved.

## 5. Not modelled

* `lib.rs` and `protocols/mod.rs`: re-exports.
* The serde form of `Config`, `connect` (which only calls `from_stream`), `get_client_version`
  and the `Debug` of `Cipher`: no protocol code depends on them.
* The benchmarks.
* The contents of strings, DEFLATE, AES and RSA: a compressed length is one of a few near the
  input's, a packet opens under its nonce only, what is encrypted for a key only that key opens.
* Malformed strings in a head: an i/o error, and so a case of `Fails`.
* `block_in_place`, which panics in a `current_thread` runtime: the crate documents that it must
  not be used there.
* A poisoned lock (`unwrap` in `config.rs` and `Cipher::get`): nothing the crate runs under a
  lock panics.

## 6. The plan

Done, in this order: `PacketLayer`, `MessageChannel`, `CipherChannel` with its proofs,
`Handshake`, `PlainChannel`, `Frames`, `Admission`, `TcpHandler`, `HandshakeProofs`, and then the
proofs of `PlainChannel`, `TcpHandler`, `CipherChannel` in turns, the rest of `Handshake`, and
`Frames` with its refinement. What could come next:

1. `CipherChannel`: that a Cipher breaks only after a fault, a TooLarge or a crossing, as a
   theorem without `Turns`, to say exactly which uses are safe.
2. `PlainChannel`: the refinement with several limits, where `MessageChannel` would have to say
   what a reader may still return after a recv has failed.
3. `Frames` in place of `PacketLayer` under the channels, which the refinement allows.
