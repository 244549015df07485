---------------------------- MODULE PacketLayer ----------------------------
(***************************************************************************)
(* The packet framing of src/protocols/common.rs and the size limit of     *)
(* src/config.rs, over the two byte streams of one connection.             *)
(*                                                                         *)
(* A packet is its length (a varint) followed by that many bytes.  The     *)
(* stream keeps no other mark of where a packet begins, so the model keeps *)
(* packets as the items of a FIFO and records, per reader, whether its     *)
(* next byte is the first byte of an item (~skew) or lies inside one.      *)
(***************************************************************************)
EXTENDS Integers, Sequences

CONSTANTS
    Config,     \* the configurations set_config may be given
    AutoFlush   \* is the crate built with the auto_flush feature?

Level == 0..9   \* flate2::Compression

ASSUME LayerAssumption ==
    /\ Config \subseteq [max_packet_size : Nat, compression : Level]
    /\ Config # {}
    /\ AutoFlush \in BOOLEAN

VARIABLES
    CONFIG,  \* per side: the global configuration of its process
    out,     \* per side: items its writer has accepted and not yet put on the wire
    wire,    \* per side: items it has sent that the peer has not read
    skew,    \* per side: its reader stands inside an item, not at a packet's length
    up       \* is the connection still up?

layerVars == <<CONFIG, out, wire, skew, up>>

Side == {"client", "server"}
Peer(s) == IF s = "client" THEN "server" ELSE "client"

(***************************************************************************)
(* What the streams carry: packets written whole, and the beginnings of    *)
(* packets whose writing stopped half way.                                 *)
(***************************************************************************)
Whole(p) == [pkt |-> p, cut |-> FALSE]
Cut(p)   == [pkt |-> p, cut |-> TRUE]

InitLayer ==
    /\ CONFIG \in [Side -> Config]
    /\ out  = [s \in Side |-> <<>>]
    /\ wire = [s \in Side |-> <<>>]
    /\ skew = [s \in Side |-> FALSE]
    /\ up   = TRUE

-----------------------------------------------------------------------------
(* config.rs *)

\* Another thread of s's process replaces the global configuration as a whole.
set_config(s, c) ==
    /\ c # CONFIG[s]
    /\ CONFIG' = [CONFIG EXCEPT ![s] = c]
    /\ UNCHANGED <<out, wire, skew, up>>

\* The getters take the lock one by one: a send that asks for the level and
\* then for the limit may see two configurations.
get_max_packet_size(s) == CONFIG[s].max_packet_size
get_compression(s) == CONFIG[s].compression

\* check_bytes_len succeeds: the limit is read afresh at every call.
check_bytes_len(s, len) == len <= get_max_packet_size(s)

\* A packet has passed check_bytes_len: read_packet asks once, when it has the
\* length, and set_config may lower the limit while the body is on its way.
checked_bytes_len(len) == \E c \in Config : len <= c.max_packet_size

-----------------------------------------------------------------------------
(* write_packet and flush *)

\* Mutant: a resumed write begins the packet again.
WritePacketTwice(s, p) ==
    /\ check_bytes_len(s, p.len)
    /\ out' = [out EXCEPT ![s] = @ \o <<Cut(p), Whole(p)>>]
    /\ UNCHANGED <<CONFIG, wire, skew, up>>

\* write_packet runs to its end.
WritePacket(s, p) ==
    /\ check_bytes_len(s, p.len)
    /\ out' = [out EXCEPT ![s] = Append(@, Whole(p))]
    /\ UNCHANGED <<CONFIG, wire, skew, up>>

\* write_packet returns TooLarge before its first write.
WriteTooLarge(s, p) ==
    /\ ~check_bytes_len(s, p.len)
    /\ UNCHANGED layerVars

\* write_packet ends at one of its awaits, by an i/o error or because the
\* caller dropped the future: none or some of the bytes have been accepted.
WriteInterrupted(s, p) ==
    /\ check_bytes_len(s, p.len)
    /\ \/ UNCHANGED out
       \/ out' = [out EXCEPT ![s] = Append(@, Cut(p))]
    /\ UNCHANGED <<CONFIG, wire, skew, up>>

\* The writer hands its oldest item to the connection.  An unbuffered writer
\* does so at once, a BufWriter when it is flushed or runs full.
Drain(s) ==
    /\ up
    /\ out[s] # <<>>
    /\ wire' = [wire EXCEPT ![s] = Append(@, Head(out[s]))]
    /\ out' = [out EXCEPT ![s] = Tail(@)]
    /\ UNCHANGED <<CONFIG, skew, up>>

\* Mutant: flush does not flush.
NotFlushed(s) == UNCHANGED layerVars

\* flush returns Ok: with auto_flush once the writer holds nothing, without
\* it at once.
Flushed(s) ==
    /\ AutoFlush => out[s] = <<>>
    /\ UNCHANGED layerVars

-----------------------------------------------------------------------------
(* read_packet *)

Incoming(s) == wire[Peer(s)]

\* The reader will not take its next bytes for what their writer meant.
Misaligned(s) ==
    /\ Incoming(s) # <<>>
    /\ skew[s] \/ Head(Incoming(s)).cut

Aligned(s) ==
    /\ Incoming(s) # <<>>
    /\ ~skew[s]
    /\ ~Head(Incoming(s)).cut

DropItem(s) == wire' = [wire EXCEPT ![Peer(s)] = Tail(@)]

\* Mutant: the packet stays in the stream.
PeekPacket(s) ==
    /\ Aligned(s)
    /\ checked_bytes_len(Head(Incoming(s)).pkt.len)
    /\ UNCHANGED layerVars

\* read_packet returns the packet at the head of the stream.
ReadPacket(s) ==
    /\ Aligned(s)
    /\ checked_bytes_len(Head(Incoming(s)).pkt.len)
    /\ DropItem(s)
    /\ UNCHANGED <<CONFIG, out, skew, up>>

\* read_packet returns TooLarge: the length has been consumed, the body has not.
ReadTooLarge(s) ==
    /\ Aligned(s)
    /\ ~check_bytes_len(s, Head(Incoming(s)).pkt.len)
    /\ skew' = [skew EXCEPT ![s] = TRUE]
    /\ UNCHANGED <<CONFIG, out, wire, up>>

\* A misaligned read_packet takes some bytes for a length and stops inside the
\* item or, by luck, at its end.  It returns TooLarge or a packet nobody sent.
Misread(s) ==
    /\ Misaligned(s)
    /\ \/ /\ skew' = [skew EXCEPT ![s] = TRUE]
          /\ UNCHANGED wire
       \/ /\ skew' = [skew EXCEPT ![s] = FALSE]
          /\ DropItem(s)
    /\ UNCHANGED <<CONFIG, out, up>>

\* A misaligned read_packet wants more bytes than the item has.
MisreadOn(s) ==
    /\ Misaligned(s)
    /\ skew' = [skew EXCEPT ![s] = TRUE]
    /\ DropItem(s)
    /\ UNCHANGED <<CONFIG, out, up>>

\* read_packet ends at one of its awaits, with none or some of the bytes of the
\* item at the head of the stream consumed; if it was misaligned, by luck all.
ReadInterrupted(s) ==
    /\ \/ UNCHANGED <<skew, wire>>
       \/ /\ Incoming(s) # <<>>
          /\ skew' = [skew EXCEPT ![s] = TRUE]
          /\ UNCHANGED wire
       \/ /\ Misaligned(s)
          /\ skew' = [skew EXCEPT ![s] = FALSE]
          /\ DropItem(s)
    /\ UNCHANGED <<CONFIG, out, up>>

-----------------------------------------------------------------------------
\* The connection is lost: nothing more is drained, and either side may get an
\* i/o error at any await from now on.
Disconnect ==
    /\ up
    /\ up' = FALSE
    /\ UNCHANGED <<CONFIG, out, wire, skew>>
=============================================================================
