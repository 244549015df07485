----------------------------- MODULE TcpHandler -----------------------------
(***************************************************************************)
(* The life of the two handlers (src/streams/*.rs): `new` runs the         *)
(* handshake over a pair of streams, then handler_send, handler_recv and   *)
(* handler_send_recv use the same streams, into_inner takes the handler    *)
(* apart and from_inner puts it together again, and the application drops  *)
(* it, or one half of its parts, when it likes.                            *)
(*                                                                         *)
(* A packet is one field more behind the script of the handshake.  Sizes   *)
(* and limits are left out, so check_bytes_len may refuse any packet at    *)
(* either end; the bytes of a packet are, so a reader that does not stand  *)
(* at the first byte of a whole packet may stop anywhere and return        *)
(* anything that nobody sent.  PacketLayer, Frames and CipherChannel have  *)
(* the detail.                                                             *)
(***************************************************************************)
EXTENDS Handshake

CONSTANT MaxSends   \* bound: packets begun by the two sides together, and
                    \* messages up to which a misplaced reader returns more

ASSUME TcpHandlerAssumption == MaxSends \in Nat

VARIABLES
    shape,      \* per side: its handler is not there yet, whole, in parts,
                \* one half of its parts, or dropped
    sending,    \* per side: the method that waits in flush, if any
    receiving,  \* per side: does it wait for a packet?
    nonce,      \* per side: the field of a side's script that the nonce in
                \* its Cipher came with, or nothing in a broken Cipher
    skew,       \* the sides whose reader stands inside a field
    packets,    \* history, per side: where in its script its packets are
    returned,   \* history, per side: how many packets its sends have returned Ok for
    got,        \* history, per side: where in the peer's script were the
                \* messages that recv has returned with Ok, 0 if nowhere
    reported    \* history: the sides on whose packets a call has failed, or
                \* of whose packets the transport has discarded some

calls == <<shape, sending, receiving>>
history == <<packets, returned, got, reported>>
handlerVars == <<calls, nonce, skew, history>>
allVars == <<vars, handlerVars>>
newVars == <<params, stage, learnt, result>>

\* A Cipher that get has taken the nonce from, without a reset after it.
Broken == <<"broken", 0>>

HandlerInit ==
    /\ Init
    /\ shape     = [s \in Side |-> "none"]
    /\ sending   = [s \in Side |-> "none"]
    /\ receiving = [s \in Side |-> FALSE]
    /\ nonce     = [s \in Side |-> <<"server", 3>>]  \* the last of Secrets
    /\ skew      = {}
    /\ packets   = [s \in Side |-> <<>>]
    /\ returned  = [s \in Side |-> 0]
    /\ got       = [s \in Side |-> <<>>]
    /\ reported  = {}

-----------------------------------------------------------------------------
(* Construction *)

\* A step of Handshake, in `new` or in the streams below it: a handler is there when its `new`
\* has returned it.  A stream is not closed, and not reset, while its reader is still there.
\* A reset discards what was sent.
New(step) ==
    /\ step
    /\ shape' = [s \in Side |-> IF shape[s] = "none" /\ result'[s] = Ok
                                THEN "whole" ELSE shape[s]]
    /\ \A s \in Side : Reset(s) => shape[s] # "reader"
    /\ reported' = reported \cup {s \in Side : sent'[s] < sent[s]}
    /\ UNCHANGED <<sending, receiving, nonce, skew, packets, returned, got>>

Idle(s) == sending[s] = "none" /\ ~receiving[s]

\* Mutant: the methods take the handler by shared reference.
BorrowsShared(s, half) == shape[s] \in {"whole", "parts", half}

\* A method borrows the whole handler; once it is taken apart, send borrows the
\* writer and recv the reader.
Borrows(s, half) ==
    \/ shape[s] \in {"parts", half}
    \/ shape[s] = "whole" /\ Idle(s)

\* The streams and the Cipher are moved out of the handler and back.
into_inner(s) ==
    /\ shape[s] = "whole" /\ Idle(s)
    /\ shape' = [shape EXCEPT ![s] = "parts"]
    /\ UNCHANGED <<vars, sending, receiving, nonce, skew, history>>

from_inner(s) ==
    /\ shape[s] = "parts" /\ Idle(s)
    /\ shape' = [shape EXCEPT ![s] = "whole"]
    /\ UNCHANGED <<vars, sending, receiving, nonce, skew, history>>

\* The writer goes, with what a BufWriter holds: the peer sees the end of the stream.
CloseWriter(s) ==
    /\ open'  = [open EXCEPT ![s] = FALSE]
    /\ wrote' = [wrote EXCEPT ![s] = sent[s]]
    /\ UNCHANGED <<newVars, script, sent, up, read, faults>>

\* The application drops the handler, or all that is left of its parts.
Drop(s) ==
    /\ shape[s] \in {"whole", "parts", "reader", "writer"} /\ Idle(s)
    /\ shape' = [shape EXCEPT ![s] = "dropped"]
    /\ CloseWriter(s)
    /\ UNCHANGED <<sending, receiving, nonce, skew, history>>

\* It drops one part; the connection stays open for the other.
DropReader(s) ==
    /\ shape[s] = "parts" /\ ~receiving[s]
    /\ shape' = [shape EXCEPT ![s] = "writer"]
    /\ UNCHANGED <<vars, sending, receiving, nonce, skew, history>>

DropWriter(s) ==
    /\ shape[s] = "parts" /\ sending[s] = "none"
    /\ shape' = [shape EXCEPT ![s] = "reader"]
    /\ CloseWriter(s)
    /\ UNCHANGED <<sending, receiving, nonce, skew, history>>

-----------------------------------------------------------------------------
(* handler_send and handler_send_recv *)

\* On a broken Cipher send returns Broken and does nothing.
MaySend(s) ==
    /\ sending[s] = "none"
    /\ Borrows(s, "writer")
    /\ nonce[s] # Broken
    /\ Len(packets["client"]) + Len(packets["server"]) < MaxSends

\* In the encrypting protocols the Cipher of s gets a nonce.
Renew(s, n) ==
    nonce' = IF Encrypts(client.variant) THEN [nonce EXCEPT ![s] = n] ELSE nonce

\* A packet, or the beginning of one, is accepted by the writer.  It was
\* encrypted before that, under the nonce in the Cipher and with a new one inside.
Put(s, kind) ==
    /\ packets' = [packets EXCEPT ![s] = Append(@, Len(script[s]) + 1)]
    /\ script' = [script EXCEPT ![s] = Append(@, [kind |-> kind, under |-> nonce[s]])]
    /\ Renew(s, <<s, Len(script[s]) + 1>>)
    /\ wrote' = [wrote EXCEPT ![s] = @ + 1]
    /\ sent' = IF buffered[s] THEN sent ELSE [sent EXCEPT ![s] = @ + 1]
    /\ UNCHANGED <<newVars, open, up, read, shape, receiving, skew, returned, got>>

\* Nothing is accepted, and the Cipher is left with n.
Unsent(s, n) ==
    /\ Renew(s, n)
    /\ UNCHANGED <<newVars, script, streams, read, calls, skew, history>>

Send(s, method) ==
    /\ MaySend(s)
    /\ Put(s, "whole")
    /\ sending' = [sending EXCEPT ![s] = method]
    /\ UNCHANGED <<faults, reported>>

handler_send(s) == Send(s, "handler_send")
handler_send_recv(s) == shape[s] = "whole" /\ Send(s, "handler_send_recv")

\* write_packet returns TooLarge before its first write: the new nonce stays with its
\* maker.  MaxFaults is the bound on packets over a limit, too.
SendTooLarge(s) == MaySend(s) /\ Unsent(s, <<s, 0>>) /\ Fault

\* The encryption fails, and the Cipher is broken.
SealFails(s) == Encrypts(client.variant) /\ MaySend(s) /\ Unsent(s, Broken) /\ Fault

\* flush returns: so does send, and handler_send_recv begins to receive.
SendReturns(s) ==
    /\ sending[s] # "none"
    /\ Flushed(s)
    /\ sending'   = [sending EXCEPT ![s] = "none"]
    /\ receiving' = [receiving EXCEPT ![s] = @ \/ sending[s] = "handler_send_recv"]
    /\ returned'  = [returned EXCEPT ![s] = Len(packets[s])]
    /\ UNCHANGED <<vars, shape, nonce, skew, packets, got, reported>>

\* A call is stopped: it gets an i/o error because the connection is lost, or
\* the application drops its future.
Stopped == (~up /\ UNCHANGED faults) \/ Fault

\* The peer has nothing left that could take what is written.
Closed(s) == ~open[s] /\ shape[s] # "reader"

\* send stops in write_packet, with some of the packet written or nothing; or in flush.
SendStops(s) ==
    /\ Stopped \/ (Closed(Peer(s)) /\ UNCHANGED faults)
    /\ \/ /\ MaySend(s)
          /\ Put(s, "cut")
          /\ reported' = reported \cup {s}
          /\ UNCHANGED sending
       \/ MaySend(s) /\ Unsent(s, <<s, 0>>)
       \/ /\ sending[s] # "none"
          /\ sending' = [sending EXCEPT ![s] = "none"]
          /\ UNCHANGED <<newVars, script, streams, read, shape, receiving, nonce, skew, history>>

-----------------------------------------------------------------------------
(* handler_recv *)

handler_recv(s) ==
    /\ ~receiving[s]
    /\ Borrows(s, "reader")
    /\ receiving' = [receiving EXCEPT ![s] = TRUE]
    /\ UNCHANGED <<vars, shape, sending, nonce, skew, history>>

\* The reader stands at the first byte of a whole packet.
PacketThere(s) ==
    /\ read[s] < sent[Peer(s)]
    /\ s \notin skew
    /\ Field(s).kind = "whole"

\* There are bytes, and the reader will not take them for what their writer meant.
Misplaced(s) ==
    /\ read[s] < sent[Peer(s)]
    /\ s \in skew \/ Field(s).kind = "cut"

\* Mutant: the packet stays in the stream.
Peeks(s) == UNCHANGED <<read, skew>>

\* The reader comes to the end of the field, or it stops inside.
ReadsOff(s) == read' = [read EXCEPT ![s] = @ + 1] /\ skew' = skew \ {s}
ReadsInto(s) == read' = read /\ skew' = skew \cup {s}

\* A recv touches nothing else of the connection.
Receiving(s) ==
    /\ receiving[s]
    /\ UNCHANGED <<newVars, script, streams, shape, sending, packets, returned>>

RecvOk(s, x) ==
    /\ receiving' = [receiving EXCEPT ![s] = FALSE]
    /\ got' = [got EXCEPT ![s] = Append(@, x)]
    /\ UNCHANGED <<faults, reported>>

RecvErr(s) ==
    /\ receiving' = [receiving EXCEPT ![s] = FALSE]
    /\ reported' = reported \cup {Peer(s)}
    /\ UNCHANGED got

\* The next packet is returned; its nonce is the next one in the Cipher.
RecvReturns(s) ==
    /\ Receiving(s) /\ PacketThere(s)
    /\ Field(s).under = nonce[s]
    /\ ReadsOff(s)
    /\ Renew(s, <<Peer(s), read[s] + 1>>)
    /\ RecvOk(s, read[s] + 1)

\* A whole packet fails to decrypt, or the Cipher is broken already.
RecvUndecrypted(s) ==
    /\ Receiving(s) /\ PacketThere(s)
    /\ Field(s).under # nonce[s]
    /\ ReadsOff(s)
    /\ Renew(s, Broken)
    /\ RecvErr(s)
    /\ UNCHANGED faults

\* read_packet returns TooLarge: the length is consumed, the body is not.
RecvTooLarge(s) ==
    /\ Receiving(s) /\ PacketThere(s)
    /\ ReadsInto(s)
    /\ RecvErr(s)
    /\ Fault
    /\ UNCHANGED nonce

\* A misplaced reader takes some bytes for a packet.  They do not decrypt;
\* without encryption they are returned, up to the bound, ...
RecvGarbage(s) ==
    /\ Receiving(s) /\ Misplaced(s)
    /\ ~Encrypts(client.variant)
    /\ Len(got[s]) < MaxSends
    /\ ReadsOff(s) \/ ReadsInto(s)
    /\ RecvOk(s, 0)
    /\ UNCHANGED nonce

\* ... or taken for a packet over the limit, or refused by the decoder.
RecvMisread(s) ==
    /\ Receiving(s) /\ Misplaced(s)
    /\ ReadsOff(s) \/ ReadsInto(s)
    /\ UNCHANGED nonce \/ Renew(s, Broken)
    /\ RecvErr(s)
    /\ UNCHANGED faults

\* ... or they end behind the field, and recv waits for more.
RecvReadsOn(s) ==
    /\ Receiving(s) /\ Misplaced(s)
    /\ read' = [read EXCEPT ![s] = @ + 1]
    /\ skew' = skew \cup {s}
    /\ UNCHANGED <<receiving, nonce, got, reported, faults>>

\* recv ends at an await: it has consumed nothing or something.
RecvBreaksOff(s) ==
    /\ Receiving(s)
    /\ \/ UNCHANGED <<read, skew>>
       \/ read[s] < sent[Peer(s)] /\ ReadsInto(s)
       \/ Misplaced(s) /\ ReadsOff(s)
    /\ RecvErr(s)
    /\ UNCHANGED nonce

\* It ends before there is anything to consume.
RecvNothing(s) ==
    /\ Receiving(s)
    /\ receiving' = [receiving EXCEPT ![s] = FALSE]
    /\ UNCHANGED <<read, skew, nonce, got, reported>>

\* The peer's stream ends behind the last packet, or inside what is to be read.
RecvEof(s) ==
    /\ ~open[Peer(s)]
    /\ \/ RecvNothing(s) /\ read[s] = sent[Peer(s)]
       \/ RecvBreaksOff(s) /\ Misplaced(s)
    /\ UNCHANGED faults

\* A future that is dropped before it has consumed anything leaves no trace.
RecvStops(s) == (Stopped /\ RecvBreaksOff(s)) \/ (Fault /\ RecvNothing(s))

-----------------------------------------------------------------------------
SendStep(s) ==
    \/ handler_send(s) \/ handler_send_recv(s)
    \/ SendTooLarge(s) \/ SealFails(s) \/ SendReturns(s) \/ SendStops(s)

RecvStep(s) ==
    \/ handler_recv(s) \/ RecvReturns(s) \/ RecvUndecrypted(s) \/ RecvTooLarge(s)
    \/ RecvGarbage(s) \/ RecvMisread(s) \/ RecvReadsOn(s) \/ RecvEof(s) \/ RecvStops(s)

HandlerNext ==
    \/ New(Next)
    \/ \E s \in Side :
          \/ into_inner(s) \/ from_inner(s)
          \/ Drop(s) \/ DropReader(s) \/ DropWriter(s)
          \/ SendStep(s) \/ RecvStep(s)

HandlerSpec == HandlerInit /\ [][HandlerNext]_allVars

\* A side's calls of `new`, send and flush run to their end: flush drives a
\* BufWriter until it is empty.
Polled(s) ==
    \/ s = "client" /\ New(client_init \/ client_start \/ Fails("client"))
    \/ s = "server" /\ New(server_init \/ server_start \/ Fails("server"))
    \/ (stage[s] = "flush" \/ sending[s] # "none") /\ auto_flush[s] /\ New(Drain(s))
    \/ SendReturns(s)

\* recv answers a whole packet and the end of the stream, and is called again.
RecvPolled(s) ==
    \/ handler_recv(s)
    \/ RecvReturns(s) \/ RecvUndecrypted(s) \/ RecvTooLarge(s) \/ RecvEof(s)

\* The runtime polls the futures of both sides, and a side that has a reader goes
\* on to call handler_recv.  Nobody has to send or to drop, and nobody has to
\* notice a lost connection.
HandlerFairness == \A s \in Side : WF_allVars(Polled(s)) /\ WF_allVars(RecvPolled(s))

FairHandlerSpec == HandlerSpec /\ HandlerFairness

-----------------------------------------------------------------------------
(* Properties *)

\* A side has a handler exactly when its `new` has returned one, its stream is
\* open as long as it has a writer, and no call runs on what is not there.
TypeOKHandler ==
    \A s \in Side :
        /\ shape[s] \in {"none", "whole", "parts", "reader", "writer", "dropped"}
        /\ shape[s] = "none" <=> result[s] # Ok
        /\ open[s] <=> result[s] = Pending \/ shape[s] \in {"whole", "parts", "writer"}
        /\ sending[s] \in {"none", "handler_send", "handler_send_recv"}
        /\ receiving[s] \in BOOLEAN
        /\ sending[s] # "none" => shape[s] \in {"whole", "parts", "writer"}
        /\ sending[s] = "handler_send_recv" => shape[s] = "whole"
        /\ receiving[s] => shape[s] \in {"whole", "parts", "reader"}
        /\ shape[s] = "whole" => sending[s] = "none" \/ ~receiving[s]
        /\ nonce[s] \in ({"client", "server", "broken"} \X Nat)
        /\ returned[s] <= Len(packets[s])
        /\ read[Peer(s)] <= sent[s] /\ sent[s] <= wrote[s] /\ wrote[s] <= Len(script[s])
        /\ skew \subseteq Side /\ reported \subseteq Side

\* Field i of s's script belongs to a packet.
IsPacket(s, i) == \E k \in 1..Len(packets[s]) : packets[s][k] = i

\* Handshake and traffic share one stream without a mark between them: no
\* `new` ever takes a packet for a field of the handshake, and no recv takes a
\* left over field for a packet, however early the other side begins to send
\* and wherever a failed recv has left the reader.
FieldsApart ==
    \A s \in Side : read[s] < sent[Peer(s)] =>
        /\ receiving[s] => IsPacket(Peer(s), read[s] + 1)
        /\ Reads(s) => ~IsPacket(Peer(s), read[s] + 1)

\* Whoever has received a message, or bytes taken for one, knows that the
\* peer's `new` has accepted it: for a server, whose own `new` does not wait
\* for the client's, it is the first proof, and both then hold the same key.
MessageConfirms ==
    \A s \in Side : got[s] # <<>> =>
        /\ \A t \in Side : result[t] = Ok
        /\ client.variant = server.variant /\ client.version \in server.accepts
        /\ cipher["client"] = cipher["server"]

\* The packets that s has sent with Ok have arrived, or something has told why not.
Settled(s) ==
    \/ Len(got[Peer(s)]) >= returned[s]
    \/ s \in reported
    \/ ~up
    \/ result[Peer(s)].kind \notin {"pending", "Ok"}
    \/ shape[Peer(s)] \in {"writer", "dropped"}

\* A packet whose send has returned Ok is not lost in silence: once its sender
\* pauses it has arrived at a peer that goes on receiving, even if the sender
\* has dropped its handler at once; or a call on the sender's packets has
\* failed, as it does on a packet that is over the limit or that crossing sends
\* have made undecryptable; or a reset has discarded them.  That the stream ends
\* is no such failure.  The sender's crate flushes; and a lost connection is
\* nothing that anybody need notice.
SentArrives == \A s \in Side : []<>(auto_flush[s] => Settled(s))

\* The fields of a successful handshake that s sends.
Opening(s) ==
    IF s = "client" THEN (IF Encrypts(client.variant) THEN 6 ELSE 4)
                    ELSE (IF Encrypts(server.variant) THEN 3 ELSE 1)

\* A side that owns a handler has written its fields of the handshake and its
\* packets behind them, and has read the peer's fields; one that owns none has
\* no packets.
Placed(s) ==
    /\ IF result[s].kind = "Ok"
       THEN /\ Len(script[s]) = Opening(s) + Len(packets[s])
            /\ read[s] >= Opening(Peer(s))
       ELSE packets[s] = <<>> /\ got[s] = <<>>
    /\ \A k \in 1..Len(packets[s]) : packets[s][k] = Opening(s) + k
    /\ got[s] # <<>> => packets[Peer(s)] # <<>>

\* Until a call has failed on its packets, those of s are whole, and the peer's
\* reader stands behind the ones it has returned, which are the first.
Trusted(s) ==
    s \notin reported =>
        /\ \A k \in 1..Len(packets[s]) : script[s][Opening(s) + k].kind = "whole"
        /\ Peer(s) \notin skew
        /\ result[Peer(s)].kind = "Ok" => read[Peer(s)] = Opening(s) + Len(got[Peer(s)])
        /\ \A k \in 1..Len(got[Peer(s)]) : got[Peer(s)][k] = Opening(s) + k

\* The handler's own part of the state.
Held ==
    /\ shape \in [Side -> {"none", "whole", "parts", "reader", "writer", "dropped"}]
    /\ sending \in [Side -> {"none", "handler_send", "handler_send_recv"}]
    /\ receiving \in [Side -> BOOLEAN]
    /\ nonce \in [Side -> {"client", "server", "broken"} \X Nat]
    /\ packets \in [Side -> Seq(Nat)] /\ got \in [Side -> Seq(Nat)]
    /\ returned \in [Side -> Nat]
    /\ skew \subseteq Side /\ reported \subseteq Side

\* What holds of the two sides all through the lives of their handlers, whatever
\* recv returns: packets stay behind the handshake, and they are read in place
\* until a call fails.
HandlerInv == Sound /\ Held /\ TypeOKHandler /\ \A s \in Side : Placed(s) /\ Trusted(s)

\* Construction included, each direction is the abstract channel until a call
\* fails on the packets that go that way.  From then on recv may return Ok with
\* bytes that nobody sent.
Channel == INSTANCE MessageChannel WITH Payload <- Nat, sent <- packets

ImplementsChannel == Channel!Init /\ [][\E s \in Side :
    \/ packets'[s] # packets[s] /\ Channel!Send(s, Len(script[s]) + 1)
    \/ Channel!Deliver(s)
    \/ /\ Peer(s) \in reported /\ UNCHANGED packets
       /\ \E i \in {0, read[s] + 1} : got' = [got EXCEPT ![s] = Append(@, i)]
    ]_<<packets, got>>
=============================================================================
