------------------------------- MODULE Frames -------------------------------
(***************************************************************************)
(* write_packet and read_packet (src/protocols/common.rs) byte by byte,    *)
(* under the handlers that call them (src/streams/mod.rs): what lies below *)
(* PacketLayer.  A frame is a varint and a body; the connection holds a    *)
(* bounded number of bytes; a reader consumes one byte at a time and may   *)
(* be dropped after any of them.                                           *)
(*                                                                         *)
(* Each side's bytes are a stream of what its writer has accepted, with    *)
(* two cursors into it: moved onto the connection, and taken by the peer.  *)
(* A log remembers which frames the bytes were meant to be.                *)
(***************************************************************************)
EXTENDS Naturals, Sequences, SequencesExt

CONSTANTS
    Base,       \* a varint has digits to this base, 128 in the code
    Digits,     \* the most digits a length may have
    Body,       \* the packets a side may send: sequences of bytes
    Limits,     \* the values of max_packet_size
    Capacity,   \* the bytes the connection holds in one direction
    MaxSends,   \* bound: frames begun by the two sides together
    MaxFaults   \* bound: lost connections and dropped futures

Byte == 0 .. 2 * Base - 1

ASSUME FramesAssumption ==
    /\ Base \in Nat \ {0, 1}
    /\ Digits \in Nat \ {0}
    /\ Body \subseteq Seq(Byte) /\ \A b \in Body : Len(b) < Base ^ Digits
    /\ Limits \subseteq Nat /\ Limits # {}
    /\ Capacity \in Nat \ {0}
    /\ MaxSends \in Nat /\ MaxFaults \in Nat

VARIABLES
    max_packet_size,  \* per side: CONFIG.max_packet_size of its process
    stream,           \* per side: the bytes its writer has accepted
    log,              \* history, per side: the frames, or beginnings of frames,
                      \* they are, and where in the stream each begins
    moved,            \* per side: how many of its bytes are on the connection
    taken,            \* per side: how many of the peer's bytes it has read
    from,             \* per side: where in the peer's bytes its running recv began
    expects,          \* per side: the length its running recv has read, if any
    call,             \* per side: the handler's method that runs
    up,               \* is the connection still up?
    got,              \* history, per side: the packets its recv has returned
    astray,           \* history: the sides whose bytes a call has left inside a frame
    faults            \* the number of faults so far

vars == <<max_packet_size, stream, log, moved, taken, from, expects, call, up,
          got, astray, faults>>

Side == {"client", "server"}
Peer(s) == IF s = "client" THEN "server" ELSE "client"

-----------------------------------------------------------------------------
(* Bytes *)

\* Low digits first; all but the last carry the continuation bit.
Varint[n \in Nat] ==
    IF n < Base THEN <<n>> ELSE <<Base + (n % Base)>> \o Varint[n \div Base]

Number(bytes) == FoldRight(LAMBDA d, n : (d % Base) + Base * n, bytes, 0)

\* The length before a body, and the two together.
Header(b) == Varint[Len(b)]

Frame == [b \in Body |-> Header(b) \o b]

\* What the framing takes for granted of the varints: whoever reads to the first
\* byte without the continuation bit has read the length that was written, and
\* it has not more than Digits bytes.
ASSUME VarintAssumption ==
    \A b \in Body :
        /\ Header(b) \in Seq(Byte) /\ Len(Header(b)) \in 1..Digits
        /\ \A i \in 1..Len(Header(b)) : Header(b)[i] < Base <=> i = Len(Header(b))
        /\ Number(Header(b)) = Len(b)

Written(s) == Len(stream[s])

\* The writer of s accepts the bytes of a frame for b, or the first of them.
Put(s, b, bytes) ==
    /\ log' = [log EXCEPT ![s] = Append(@, [body |-> b, bytes |-> bytes, start |-> Written(s)])]
    /\ stream' = [stream EXCEPT ![s] = @ \o bytes]

\* What the running recv of s has consumed.
Consumed(s) == SubSeq(stream[Peer(s)], from[s] + 1, taken[s])

Nothing == {}   \* no length yet

Init ==
    /\ max_packet_size \in [Side -> Limits]
    /\ stream  = [s \in Side |-> <<>>]
    /\ log     = [s \in Side |-> <<>>]
    /\ moved   = [s \in Side |-> 0]
    /\ taken   = [s \in Side |-> 0]
    /\ from    = [s \in Side |-> 0]
    /\ expects = [s \in Side |-> Nothing]
    /\ call    = [s \in Side |-> "none"]
    /\ up      = TRUE
    /\ got     = [s \in Side |-> <<>>]
    /\ astray  = {}
    /\ faults  = 0

Call(s, c) == call' = [call EXCEPT ![s] = c]

Fault == faults < MaxFaults /\ faults' = faults + 1

\* A running call ends at an await: the connection is lost and it gets an i/o
\* error, or its future is dropped.
Stops ==
    \/ ~up /\ UNCHANGED faults
    \/ up /\ Fault

-----------------------------------------------------------------------------
(* handler_send, and the first half of handler_send_recv *)

BeginsSend(s) ==
    /\ call[s] = "none"
    /\ Len(log[s]) + Len(log[Peer(s)]) < MaxSends

\* write_packet: the writer accepts the frame, the call waits in flush.
Send(s, c) ==
    /\ BeginsSend(s)
    /\ \E b \in Body :
          /\ Len(b) <= max_packet_size[s]
          /\ Put(s, b, Frame[b])
    /\ Call(s, c)
    /\ UNCHANGED <<max_packet_size, moved, taken, from, expects, up, got, astray, faults>>

\* handler_send_recv sends under one &mut borrow: it does not receive before
\* the send has ended.
handler_send(s) == Send(s, "send")
handler_send_recv(s) == Send(s, "send_recv")

\* write_packet stops with a part of the frame accepted.
Interrupt(s) ==
    /\ BeginsSend(s)
    /\ \E b \in Body : \E n \in 1 .. Len(Frame[b]) - 1 :
          /\ Len(b) <= max_packet_size[s]
          /\ Put(s, b, SubSeq(Frame[b], 1, n))
    /\ astray' = astray \cup {s}
    /\ UNCHANGED <<max_packet_size, moved, taken, from, expects, call, up, got>>

SendStops(s) == Stops /\ Interrupt(s)

\* The writer hands a byte to the connection if there is room.
Move(s) ==
    /\ up
    /\ moved[s] < Written(s)
    /\ moved[s] - taken[Peer(s)] < Capacity
    /\ moved' = [moved EXCEPT ![s] = @ + 1]
    /\ UNCHANGED <<max_packet_size, stream, log, taken, from, expects, call, up, got, astray, faults>>

\* Mutant: flush does not flush.
FlushNothing(s) ==
    /\ call[s] \in {"send", "send_recv"}
    /\ Call(s, IF call[s] = "send" THEN "none" ELSE "recv")
    /\ from' = [from EXCEPT ![s] = taken[s]]
    /\ UNCHANGED <<max_packet_size, stream, log, moved, taken, expects, up, got, astray, faults>>

\* flush returns; handler_send_recv goes on to receive.
Flushed(s) ==
    /\ call[s] \in {"send", "send_recv"}
    /\ moved[s] = Written(s)
    /\ Call(s, IF call[s] = "send" THEN "none" ELSE "recv")
    /\ from' = [from EXCEPT ![s] = taken[s]]
    /\ UNCHANGED <<max_packet_size, stream, log, moved, taken, expects, up, got, astray, faults>>

\* flush fails or is dropped: the frame stays accepted.
FlushStops(s) ==
    /\ call[s] \in {"send", "send_recv"}
    /\ Stops
    /\ Call(s, "none")
    /\ UNCHANGED <<max_packet_size, stream, log, moved, taken, from, expects, up, got, astray>>

-----------------------------------------------------------------------------
(* handler_recv, and the second half of handler_send_recv *)

handler_recv(s) ==
    /\ call[s] = "none"
    /\ Call(s, "recv")
    /\ from' = [from EXCEPT ![s] = taken[s]]
    /\ UNCHANGED <<max_packet_size, stream, log, moved, taken, expects, up, got, astray, faults>>

\* The length is complete with the first byte that has no continuation bit.
LengthRead(s) == Consumed(s) # <<>> /\ Last(Consumed(s)) < Base

\* The length has been read and checked, and the body is there.
PacketRead(s) == \E e \in expects[s] : Len(Consumed(s)) = e.digits + e.length

\* One more byte is wanted.
Wants(s) ==
    /\ call[s] = "recv"
    /\ ~PacketRead(s)
    /\ expects[s] = Nothing => ~LengthRead(s) /\ Len(Consumed(s)) < Digits

Take(s) ==
    /\ Wants(s)
    /\ taken[s] < moved[Peer(s)]
    /\ taken' = [taken EXCEPT ![s] = @ + 1]
    /\ UNCHANGED <<max_packet_size, stream, log, moved, from, expects, call, up, got, astray, faults>>

\* The read length passes check_bytes_len.
Accept(s) ==
    /\ call[s] = "recv"
    /\ expects[s] = Nothing
    /\ LengthRead(s)
    /\ Number(Consumed(s)) <= max_packet_size[s]
    /\ expects' = [expects EXCEPT ![s] =
                      {[digits |-> Len(Consumed(s)), length |-> Number(Consumed(s))]}]
    /\ UNCHANGED <<max_packet_size, stream, log, moved, taken, from, call, up, got, astray, faults>>

\* Mutant: the length read so far is kept for the next call.
EndRecvKeepsLength(s) ==
    /\ Call(s, "none")
    /\ from' = [from EXCEPT ![s] = taken[s]]
    /\ UNCHANGED <<max_packet_size, stream, log, moved, taken, expects, up>>

\* The running recv ends where it stands.
EndRecv(s) ==
    /\ Call(s, "none")
    /\ from' = [from EXCEPT ![s] = taken[s]]
    /\ expects' = [expects EXCEPT ![s] = Nothing]
    /\ UNCHANGED <<max_packet_size, stream, log, moved, taken, up>>

\* Mutant: the buffer for the body has room for one byte more.
ReturnShort(s) ==
    /\ call[s] = "recv"
    /\ \E e \in expects[s] :
          /\ Len(Consumed(s)) + 1 >= e.digits + e.length
          /\ got' = [got EXCEPT ![s] = Append(@, SubSeq(Consumed(s), e.digits + 1, Len(Consumed(s))))]
    /\ EndRecv(s)
    /\ UNCHANGED <<astray, faults>>

\* read_packet returns what follows the length.
Return(s) ==
    /\ call[s] = "recv"
    /\ PacketRead(s)
    /\ \E e \in expects[s] :
          got' = [got EXCEPT ![s] = Append(@, SubSeq(Consumed(s), e.digits + 1, Len(Consumed(s))))]
    /\ EndRecv(s)
    /\ UNCHANGED <<astray, faults>>

\* The length is too large, or no length at all: the body stays behind.
Refuse(s) ==
    /\ call[s] = "recv"
    /\ expects[s] = Nothing
    /\ \/ LengthRead(s) /\ Number(Consumed(s)) > max_packet_size[s]
       \/ ~LengthRead(s) /\ Len(Consumed(s)) = Digits
    /\ EndRecv(s)
    /\ astray' = astray \cup {Peer(s)}
    /\ UNCHANGED <<got, faults>>

\* Mutant: a dropped recv is harmless.
RecvStopsUnnoticed(s) ==
    /\ Wants(s)
    /\ Stops
    /\ EndRecv(s)
    /\ UNCHANGED <<got, astray>>

\* recv fails or is dropped while it waits for a byte.
RecvStops(s) ==
    /\ Wants(s)
    /\ Stops
    /\ EndRecv(s)
    /\ astray' = IF Consumed(s) = <<>> THEN astray ELSE astray \cup {Peer(s)}
    /\ UNCHANGED got

-----------------------------------------------------------------------------
Configure(s) ==
    /\ \E z \in Limits \ {max_packet_size[s]} :
          max_packet_size' = [max_packet_size EXCEPT ![s] = z]
    /\ UNCHANGED <<stream, log, moved, taken, from, expects, call, up, got, astray, faults>>

LoseConnection ==
    /\ up
    /\ Fault
    /\ up' = FALSE
    /\ UNCHANGED <<max_packet_size, stream, log, moved, taken, from, expects, call, got, astray>>

Receiving(s) == Take(s) \/ Accept(s) \/ Return(s) \/ Refuse(s)

Next ==
    \/ \E s \in Side :
          \/ handler_send(s) \/ handler_send_recv(s) \/ SendStops(s)
          \/ Move(s) \/ Flushed(s) \/ FlushStops(s)
          \/ handler_recv(s) \/ Receiving(s) \/ RecvStops(s)
          \/ Configure(s)
    \/ LoseConnection

Spec == Init /\ [][Next]_vars

\* A started call is polled to its end; flush moves bytes while there is room.
\* Nobody has to start a call.
Fairness ==
    \A s \in Side :
        /\ WF_vars(call[s] \in {"send", "send_recv"} /\ Move(s))
        /\ WF_vars(Flushed(s))
        /\ WF_vars(Receiving(s))

FairSpec == Spec /\ Fairness

-----------------------------------------------------------------------------
(* Properties *)

\* The cursors keep their order and stay within the connection's capacity, and a
\* side whose recv does not run expects no body and stands where it last read.
TypeOK ==
    \A s \in Side :
        /\ from[s] <= taken[s] /\ taken[s] <= moved[Peer(s)] /\ moved[s] <= Written(s)
        /\ moved[s] - taken[Peer(s)] <= Capacity
        /\ call[s] \in {"none", "send", "send_recv", "recv"}
        /\ call[s] # "recv" => from[s] = taken[s] /\ expects[s] = Nothing
        /\ max_packet_size[s] \in Limits
        /\ astray \subseteq Side /\ up \in BOOLEAN /\ faults \in 0..MaxFaults

\* The packets s has written; only the last of them can be a part, and s is then
\* astray.
Sent(s) == [i \in 1..Len(log[s]) |-> log[s][i].body]

\* Byte for byte, the packets received are the packets sent, until a call has
\* stopped inside a frame.  A recv dropped before its first byte, or a send
\* dropped in flush, does no harm.
Faithful ==
    \A s \in Side : Peer(s) \notin astray => IsPrefix(got[s], Sent(Peer(s)))

\* What the proofs need: the variables are what they seem to be,
Streams ==
    /\ max_packet_size \in [Side -> Limits]
    /\ stream \in [Side -> Seq(Byte)]
    /\ log \in [Side -> Seq([body : Body, bytes : Seq(Byte), start : Nat])]
    /\ moved \in [Side -> Nat] /\ taken \in [Side -> Nat] /\ from \in [Side -> Nat]
    /\ expects = [s \in Side |-> expects[s]]
    /\ \A s \in Side : \A e \in expects[s] : e.digits \in Nat
    /\ call \in [Side -> {"none", "send", "send_recv", "recv"}]
    /\ got \in [Side -> Seq(Seq(Byte))]

\* Where item i of s's log begins and ends.
Start(s, i) == IF i > Len(log[s]) THEN Written(s) ELSE log[s][i].start
Stop(s, i) == Start(s, i) + Len(log[s][i].bytes)

\* the stream is the items of the log, one behind the other, none of them empty
\* and whole until a call has stopped inside one,
Layout(s) ==
    /\ Start(s, 1) = 0
    /\ \A i \in 1..Len(log[s]) :
          /\ Stop(s, i) = Start(s, i + 1) /\ Stop(s, i) <= Written(s)
          /\ \A k \in 1..Len(log[s][i].bytes) :
                stream[s][log[s][i].start + k] = log[s][i].bytes[k]
          /\ s \notin astray => log[s][i].bytes = Frame[log[s][i].body]
    /\ \A i, j \in 1..(Len(log[s]) + 1) : i < j => Start(s, i) < Start(s, j)
    /\ \A x \in 0..(Written(s) - 1) : \E i \in 1..Len(log[s]) :
          Start(s, i) <= x /\ x < Stop(s, i)

\* a length is expected only once it has been read and has passed a limit,
Expecting(s) ==
    \A e \in expects[s] :
        /\ e.digits > 0 /\ from[s] + e.digits <= taken[s]
        /\ \E z \in Limits : e.length <= z

\* a recv that began where a whole frame begins is in the frame's length while
\* it expects nothing, in its body when it expects that very body,
Inside(s) ==
    \A i \in 1..Len(log[Peer(s)]) :
        LET item == log[Peer(s)][i]
        IN  from[s] = item.start /\ item.bytes = Frame[item.body] =>
               /\ expects[s] = Nothing => taken[s] <= from[s] + Len(Header(item.body))
               /\ \A e \in expects[s] :
                     /\ e = [digits |-> Len(Header(item.body)), length |-> Len(item.body)]
                     /\ taken[s] <= from[s] + e.digits + e.length

\* and a recv begins behind the n frames that have been returned.
Place(s, n) ==
    /\ n <= Len(log[Peer(s)])
    /\ \A i \in 1..n : got[s][i] = log[Peer(s)][i].body
    /\ from[s] = Start(Peer(s), n + 1)

IInv ==
    /\ Streams /\ TypeOK
    /\ \A s \in Side :
          /\ Layout(s) /\ Expecting(s) /\ Inside(s)
          /\ Peer(s) \notin astray => Place(s, Len(got[s]))

\* What s has written and its peer has not read.
Backlog(s) == Written(s) - taken[Peer(s)]

\* Two handlers whose calls of handler_send_recv cross do not wait for each
\* other for ever if the connection can hold what one of them has sent.
Exchange ==
    \A s \in Side, n \in 0 .. MaxSends - 1 :
        /\ \A t \in Side : call[t] = "send_recv" /\ taken[Peer(t)] <= Last(log[t]).start
        /\ \E t \in Side : Backlog(t) <= Capacity
        /\ Len(got[s]) = n
        ~> Len(got[s]) > n \/ faults > 0 \/ astray # {}

-----------------------------------------------------------------------------
(* The packets of PacketLayer, found again in the bytes *)

\* The item of the peer's log that s is reading: the one that holds the last
\* byte its running recv has consumed, or else the next byte.
Current(s) ==
    IF from[s] < taken[s]
    THEN CHOOSE i \in 1..Len(log[Peer(s)]) :
            Start(Peer(s), i) < taken[s] /\ taken[s] <= Stop(Peer(s), i)
    ELSE CHOOSE i \in 1..(Len(log[Peer(s)]) + 1) :
            /\ Start(Peer(s), i) <= taken[s]
            /\ i <= Len(log[Peer(s)]) => taken[s] < Stop(Peer(s), i)

\* The first item none of whose bytes has been moved.
Unmoved(s) ==
    CHOOSE i \in 1..(Len(log[s]) + 1) :
        /\ i <= Len(log[s]) => moved[s] <= Start(s, i)
        /\ i > 1 => Start(s, i - 1) < moved[s]

LayerPacket(b) == [body |-> b, len |-> Len(b)]

LayerItem(i) == [pkt |-> LayerPacket(i.body), cut |-> i.bytes # Frame[i.body]]

LayerItems(s, i, j) == [k \in 1..(j - i + 1) |-> LayerItem(log[s][i + k - 1])]

Configuration(size) == [max_packet_size |-> size, compression |-> 6]

Layer == INSTANCE PacketLayer WITH
    Config    <- {Configuration(z) : z \in Limits},
    AutoFlush <- TRUE,
    CONFIG    <- [s \in Side |-> Configuration(max_packet_size[s])],
    wire      <- [s \in Side |-> LayerItems(s, Current(Peer(s)), Unmoved(s) - 1)],
    out       <- [s \in Side |-> LayerItems(s, Unmoved(s), Len(log[s]))],
    skew      <- [s \in Side |-> from[s] # Start(Peer(s), Current(s))]

\* What becomes of a step: every one that PacketLayer sees is one of its own.
\* The one packet a recv may return is the head of the stream, unless it
\* misreads.
LayerNext ==
    \/ \E s \in Side :
          \/ /\ stream'[s] # stream[s]
             /\ \E b \in Body : \/ Layer!WritePacket(s, LayerPacket(b))
                                \/ Layer!WriteInterrupted(s, LayerPacket(b))
             /\ UNCHANGED got
          \/ moved'[s] # moved[s] /\ Layer!Drain(s) /\ UNCHANGED got
          \/ /\ got'[s] # got[s]
             /\ \/ /\ Layer!ReadPacket(s)
                   /\ got' = [got EXCEPT ![s] = Append(@, Head(Layer!Incoming(s)).pkt.body)]
                \/ Layer!Misread(s) /\ got'[Peer(s)] = got[Peer(s)]
          \/ /\ from'[s] # from[s] \/ taken'[s] # taken[s]
             /\ \/ Layer!ReadTooLarge(s) \/ Layer!ReadInterrupted(s)
                \/ Layer!Misread(s) \/ Layer!MisreadOn(s)
             /\ UNCHANGED got
          \/ /\ max_packet_size'[s] # max_packet_size[s]
             /\ Layer!set_config(s, Configuration(max_packet_size'[s]))
             /\ UNCHANGED got
    \/ up' # up /\ Layer!Disconnect /\ UNCHANGED got

ImplementsLayer == Layer!InitLayer /\ [][LayerNext]_<<Layer!layerVars, got>>
=============================================================================
