---------------------------- MODULE PlainChannel ----------------------------
(***************************************************************************)
(* send and recv of the raw and compress protocols                         *)
(* (src/protocols/raw.rs, compress.rs) between the two ends of an          *)
(* established connection.                                                 *)
(*                                                                         *)
(* Nothing is shared between the two directions and nothing is kept        *)
(* between two calls, except the caller's buffer: send consumes it, and    *)
(* raw and compress consume it at different moments.                       *)
(***************************************************************************)
EXTENDS PacketLayer

CONSTANTS
    Message,     \* the messages an application may send
    Size,        \* their lengths in bytes
    Deflate(_, _), \* the lengths DeflateEncoder may produce at a level from n bytes
    Compressed,  \* FALSE: raw, TRUE: compress
    MaxSends,    \* bound: packets written by the two sides together, and the
                 \* items a writer that fails again and again is left with
    MaxFaults    \* bound: lost connections and dropped futures

\* What a caller's Buf holds of a message: all of it, what an interrupted
\* write_packet has left, or nothing.
Part == {"all", "rest", "none"}
Payload == [msg : Message, part : Part]
Bytes(b) ==
    CASE b.part = "all"  -> Size[b.msg]
      [] b.part = "rest" -> Size[b.msg] \div 2
      [] b.part = "none" -> 0

Packet == [payload : Payload, len : Nat]

ASSUME PlainAssumption ==
    /\ Size \in [Message -> Nat]
    /\ \A l \in Level, b \in Payload : Deflate(l, Bytes(b)) \subseteq Nat
    /\ Compressed \in BOOLEAN
    /\ MaxSends \in Nat
    /\ MaxFaults \in Nat

VARIABLES
    buffer,    \* per side: the Buf of its last send, if any
    packet,    \* per side: the packet its running send writes, if any
    sending,   \* per side: how far its running send has come
    sendRes,   \* per side: how its last send ended
    sent,      \* history, per side: what the packets it has written hold
    got,       \* history, per side: what its recv has returned with Ok
    reported,  \* history: the sides whose messages a send or recv has failed on
    faults     \* the number of faults so far

plainVars == <<buffer, packet, sending, sendRes, sent, got, reported, faults>>
vars == <<layerVars, plainVars>>

\* Bytes that no send was given.
Garbage == [msg |-> "garbage", part |-> "garbage"]

Result == {"none", "Ok", "TooLarge", "IO", "Cancelled"}

Init ==
    /\ InitLayer
    /\ buffer   = [s \in Side |-> {}]
    /\ packet   = [s \in Side |-> {}]
    /\ sending  = [s \in Side |-> "idle"]
    /\ sendRes  = [s \in Side |-> "none"]
    /\ sent     = [s \in Side |-> <<>>]
    /\ got      = [s \in Side |-> <<>>]
    /\ reported = {}
    /\ faults   = 0

Fault ==
    /\ faults < MaxFaults
    /\ faults' = faults + 1

-----------------------------------------------------------------------------
(* send *)

\* A new message, or once more the Buf of a send that has failed.
Sendable(s) ==
    {[msg |-> m, part |-> "all"] : m \in Message}
        \cup IF sendRes[s] = "Ok" THEN {} ELSE buffer[s]

\* Mutant: raw consumes the Buf before write_packet sees the packet.
RawPacketConsumed(s, b) ==
    /\ packet' = [packet EXCEPT ![s] = {[payload |-> b, len |-> Bytes(b)]}]
    /\ buffer' = [buffer EXCEPT ![s] = {[b EXCEPT !.part = "none"]}]

\* raw: the packet is the Buf, which write_packet will consume.
RawPacket(s, b) ==
    /\ packet' = [packet EXCEPT ![s] = {[payload |-> b, len |-> Bytes(b)]}]
    /\ buffer' = [buffer EXCEPT ![s] = {b}]

\* compress: the encoder consumes the Buf before write_packet sees the packet.
CompressPacket(s, b) ==
    /\ \E d \in Deflate(get_compression(s), Bytes(b)) :
          packet' = [packet EXCEPT ![s] = {[payload |-> b, len |-> d]}]
    /\ buffer' = [buffer EXCEPT ![s] = {[b EXCEPT !.part = "none"]}]

Start(s) ==
    /\ sending[s] = "idle"
    /\ Len(sent[s]) + Len(sent[Peer(s)]) < MaxSends
    /\ Len(out[s]) < MaxSends
    /\ \E b \in Sendable(s) : IF Compressed THEN CompressPacket(s, b) ELSE RawPacket(s, b)
    /\ sending' = [sending EXCEPT ![s] = "ready"]
    /\ UNCHANGED <<layerVars, sendRes, sent, got, reported, faults>>

Consumed(s, part) ==
    buffer' = [buffer EXCEPT ![s] = {[b EXCEPT !.part = part] : b \in @}]

Write(s) ==
    /\ sending[s] = "ready"
    /\ \E p \in packet[s] :
          /\ WritePacket(s, p)
          /\ sent' = [sent EXCEPT ![s] = Append(@, p.payload)]
    /\ Consumed(s, "none")
    /\ sending' = [sending EXCEPT ![s] = "flushing"]
    /\ UNCHANGED <<packet, sendRes, got, reported, faults>>

\* Mutant: the packet outlives its send.
EndSendKeepsPacket(s, r) ==
    /\ sending' = [sending EXCEPT ![s] = "idle"]
    /\ sendRes' = [sendRes EXCEPT ![s] = r]
    /\ UNCHANGED <<packet, sent, got>>

EndSend(s, r) ==
    /\ sending' = [sending EXCEPT ![s] = "idle"]
    /\ packet' = [packet EXCEPT ![s] = {}]
    /\ sendRes' = [sendRes EXCEPT ![s] = r]
    /\ UNCHANGED <<sent, got>>

SendTooLarge(s) ==
    /\ sending[s] = "ready"
    /\ \E p \in packet[s] : WriteTooLarge(s, p)
    /\ EndSend(s, "TooLarge")
    /\ UNCHANGED <<buffer, reported, faults>>

Flush(s) ==
    /\ sending[s] = "flushing"
    /\ Flushed(s)
    /\ EndSend(s, "Ok")
    /\ UNCHANGED <<buffer, reported, faults>>

\* send stops at an await, in write_packet or in flush.  A Buf that
\* write_packet consumes itself may have been consumed in part.
StopSend(s) ==
    /\ reported' = reported \cup {s}
    /\ \/ /\ sending[s] = "ready"
          /\ \E p \in packet[s] : WriteInterrupted(s, p)
          /\ \/ UNCHANGED buffer
             \/ ~Compressed /\ out' # out /\ Consumed(s, "rest")
       \/ /\ sending[s] = "flushing"
          /\ UNCHANGED <<layerVars, buffer>>

SendIO(s) ==
    /\ ~up
    /\ StopSend(s)
    /\ EndSend(s, "IO")
    /\ UNCHANGED faults

CancelSend(s) ==
    /\ Fault
    /\ StopSend(s)
    /\ EndSend(s, "Cancelled")

-----------------------------------------------------------------------------
(* recv *)

\* recv returns Ok(x).
RecvOk(s, x) ==
    /\ got' = [got EXCEPT ![s] = Append(@, x)]
    /\ UNCHANGED <<buffer, packet, sending, sendRes, sent, reported, faults>>

\* recv returns an error.
RecvFails(s) ==
    /\ reported' = reported \cup {Peer(s)}
    /\ UNCHANGED <<buffer, packet, sending, sendRes, sent, got>>

Read(s) ==
    /\ ReadPacket(s)
    /\ RecvOk(s, Head(Incoming(s)).pkt.payload)

\* Bytes that are not a packet are returned.
ReadGarbage(s) ==
    /\ Misread(s)
    /\ Len(got[s]) < MaxSends
    /\ RecvOk(s, Garbage)

\* A misread packet goes on into the next item.
ReadOn(s) == MisreadOn(s) /\ UNCHANGED plainVars

\* A packet over the limit, or bytes that are not a packet and are taken for
\* one over the limit, or that the decoder of compress refuses.
RecvRefuses(s) ==
    /\ ReadTooLarge(s) \/ Misread(s)
    /\ RecvFails(s)
    /\ UNCHANGED faults

RecvIO(s) ==
    /\ ~up
    /\ ReadInterrupted(s)
    /\ RecvFails(s)
    /\ UNCHANGED faults

CancelRecv(s) ==
    /\ Fault
    /\ ReadInterrupted(s)
    /\ RecvFails(s)

-----------------------------------------------------------------------------
(* The connection and the configuration *)

Transmit(s) == Drain(s) /\ UNCHANGED plainVars

Configure(s) == \E c \in Config : set_config(s, c) /\ UNCHANGED plainVars

LoseConnection ==
    /\ Fault
    /\ Disconnect
    /\ UNCHANGED <<buffer, packet, sending, sendRes, sent, got, reported>>

SendStep(s) ==
    \/ Start(s) \/ Write(s) \/ SendTooLarge(s) \/ Flush(s)
    \/ SendIO(s) \/ CancelSend(s)

RecvStep(s) ==
    \/ Read(s) \/ ReadGarbage(s) \/ ReadOn(s)
    \/ RecvRefuses(s) \/ RecvIO(s) \/ CancelRecv(s)

Next ==
    \/ \E s \in Side : SendStep(s) \/ RecvStep(s) \/ Transmit(s) \/ Configure(s)
    \/ LoseConnection

Spec == Init /\ [][Next]_vars

\* A started send is polled to its end, a caller that waits for a message polls
\* recv, and flush drives the writer until it is empty.
Fairness ==
    \A s \in Side :
        /\ WF_vars(Write(s) \/ SendTooLarge(s) \/ Flush(s))
        /\ WF_vars(sending[s] = "flushing" /\ AutoFlush /\ Transmit(s))
        /\ WF_vars(Read(s))

FairSpec == Spec /\ Fairness

-----------------------------------------------------------------------------
(* Properties *)

\* Every variable keeps its type, and a send has a packet while it runs.
TypeOK ==
    /\ CONFIG \in [Side -> Config]
    /\ out \in [Side -> Seq([pkt : Packet, cut : BOOLEAN])]
    /\ wire \in [Side -> Seq([pkt : Packet, cut : BOOLEAN])]
    /\ skew \in [Side -> BOOLEAN]
    /\ up \in BOOLEAN
    /\ buffer \in [Side -> SUBSET Payload]
    /\ packet \in [Side -> SUBSET Packet]
    /\ sending \in [Side -> {"idle", "ready", "flushing"}]
    /\ sendRes \in [Side -> Result]
    /\ sent \in [Side -> Seq(Payload)]
    /\ got \in [Side -> Seq(Payload \cup {Garbage})]
    /\ reported \subseteq Side
    /\ faults \in 0..MaxFaults
    /\ \A s \in Side : packet[s] = {} <=> sending[s] = "idle"

Prefix(q, r) == Len(q) <= Len(r) /\ \A i \in 1..Len(q) : q[i] = r[i]

\* As long as every recv on one side has succeeded and every send on the other
\* has succeeded or returned TooLarge, the packets come in as they were
\* written: only a call that fails may precede wrong data.
Faithful ==
    \A s \in Side : Peer(s) \notin reported => Prefix(got[s], sent[Peer(s)])

\* Until then every message received is also a whole message of the sender:
\* no retry after TooLarge turns it into something else.
WholeMessages ==
    \A s \in Side : Peer(s) \notin reported =>
        \A i \in 1..Len(got[s]) : got[s][i].part = "all"

\* Without faults recv never returns data that nobody sent: a packet over the
\* limit costs that packet and no more.
GarbageFree == \A s \in Side : \A i \in 1..Len(got[s]) : got[s][i] # Garbage

\* Every packet written is received in the end.
Delivered ==
    \A s \in Side : \A n \in 1..MaxSends :
        Len(sent[s]) >= n ~> Len(got[Peer(s)]) >= n

\* What the proofs need besides TypeOK.  As long as no call has failed on the
\* messages of one side, the reader stands at the beginning of an item, and
\* what it has returned, what is on the wire and what the writer holds are
\* together what was written.
IsWhole(i, b) == ~i.cut /\ i.pkt.payload = b

Carried(returned, moving, held, written) ==
    LET n == Len(returned)
        m == n + Len(moving)
    IN  /\ m + Len(held) = Len(written)
        /\ \A i \in 1..n : returned[i] = written[i]
        /\ \A i \in 1..Len(moving) : IsWhole(moving[i], written[n + i])
        /\ \A i \in 1..Len(held) : IsWhole(held[i], written[m + i])

InTransit ==
    \A s \in Side : s \notin reported =>
        /\ ~skew[Peer(s)]
        /\ Carried(got[Peer(s)], wire[s], out[s], sent[s])

\* raw: what a caller may send again is whole, and so is what it has sent.
RawWhole ==
    ~Compressed => \A s \in Side : s \notin reported =>
        /\ \A i \in 1..Len(sent[s]) : sent[s][i].part = "all"
        /\ sending[s] = "ready" => \A p \in packet[s] : p.payload.part = "all"
        /\ sending[s] = "ready" \/ (sending[s] = "idle" /\ sendRes[s] # "Ok") =>
              \A b \in buffer[s] : b.part = "all"

\* What is written has passed somebody's limit.
WithinLimits ==
    \A s \in Side :
        /\ \A i \in 1..Len(out[s]) : checked_bytes_len(out[s][i].pkt.len)
        /\ \A i \in 1..Len(wire[s]) : checked_bytes_len(wire[s][i].pkt.len)

\* Where all configurations have one limit, only a fault makes a call fail
\* on what has been written.
OneLimit == \A c, d \in Config : c.max_packet_size = d.max_packet_size

OnlyFaults ==
    /\ ~up => faults > 0
    /\ OneLimit /\ faults = 0 => reported = {}

IInv == TypeOK /\ InTransit /\ RawWhole /\ WithinLimits /\ OnlyFaults

\* With one limit for both sides and no fault the two directions together are
\* the abstract channel, however the sends cross.
Channel == INSTANCE MessageChannel

Refinement == Channel!Spec
=============================================================================
