------------------------- MODULE PacketLayerProofs -------------------------
(***************************************************************************)
(* Lemmas about the framing, for whatever packets are sent over it: the    *)
(* facts on sides and sequences that the proofs about the channels share,  *)
(* and what the steps of PacketLayer do to the items in the streams.       *)
(***************************************************************************)
EXTENDS PacketLayer, SequenceTheorems, TLAPS

-----------------------------------------------------------------------------
(* Sides and sequences *)

\* The two sides are each other's peers.
LEMMA PeerFacts ==
    ASSUME NEW s \in Side
    PROVE  /\ Peer(s) \in Side
           /\ Peer(s) # s
           /\ Peer(Peer(s)) = s
           /\ \A t \in Side : t = s \/ t = Peer(s)
  BY DEF Side, Peer

\* A function of the sides may be updated at one of them.
LEMMA UpdateType ==
    ASSUME NEW S, NEW f \in [Side -> S], NEW s \in Side, NEW v \in S
    PROVE  [f EXCEPT ![s] = v] \in [Side -> S]
  OBVIOUS

\* Appending to and removing from one side's sequence keeps the type.
LEMMA SequenceUpdates ==
    ASSUME NEW S, NEW f \in [Side -> Seq(S)], NEW s \in Side
    PROVE  /\ \A v \in S : [f EXCEPT ![s] = Append(@, v)] \in [Side -> Seq(S)]
           /\ f[s] # <<>> =>
                 /\ Head(f[s]) \in S
                 /\ [f EXCEPT ![s] = Tail(@)] \in [Side -> Seq(S)]
  <1>1. \A v \in S : Append(f[s], v) \in Seq(S)
    BY AppendProperties
  <1>2. f[s] # <<>> => Head(f[s]) \in S /\ Tail(f[s]) \in Seq(S)
    BY HeadTailProperties
  <1> QED BY <1>1, <1>2

\* Where the elements of a longer sequence come from.
LEMMA AppendElement ==
    ASSUME NEW S, NEW q \in Seq(S), NEW v \in S
    PROVE  /\ Len(Append(q, v)) = Len(q) + 1
           /\ Append(q, v)[Len(q) + 1] = v
           /\ \A k \in 1..Len(q) : Append(q, v)[k] = q[k]
           /\ \A k \in 1..Len(Append(q, v)) :
                 Append(q, v)[k] = v \/ (k \in 1..Len(q) /\ Append(q, v)[k] = q[k])
  BY AppendProperties

\* Where the elements of the tail of a sequence come from.
LEMMA TailElement ==
    ASSUME NEW S, NEW q \in Seq(S), q # <<>>
    PROVE  /\ 1 \in 1..Len(q) /\ Head(q) = q[1]
           /\ Len(Tail(q)) = Len(q) - 1
           /\ \A k \in 1..Len(Tail(q)) : k + 1 \in 1..Len(q) /\ Tail(q)[k] = q[k + 1]
  BY HeadTailProperties

-----------------------------------------------------------------------------
(* The steps of the framing *)

\* What the writers hold and the streams carry are items.
LayerType(Items) ==
    /\ CONFIG \in [Side -> Config]
    /\ out \in [Side -> Seq(Items)]
    /\ wire \in [Side -> Seq(Items)]
    /\ skew \in [Side -> BOOLEAN]
    /\ up \in BOOLEAN

\* The item at the head of a stream is one, and the rest of the stream is one.
LEMMA IncomingType ==
    ASSUME NEW Items, LayerType(Items), NEW s \in Side, Incoming(s) # <<>>
    PROVE  /\ Head(Incoming(s)) \in Items
           /\ [wire EXCEPT ![Peer(s)] = Tail(@)] \in [Side -> Seq(Items)]
  <1>1. Peer(s) \in Side
    BY PeerFacts
  <1> QED BY <1>1, SequenceUpdates DEF Incoming, LayerType

\* However read_packet ends, the reader's stream loses at most its head.
LEMMA ReadingType ==
    ASSUME NEW Items, LayerType(Items), NEW s \in Side,
           ReadPacket(s) \/ Misread(s) \/ MisreadOn(s)
              \/ ReadTooLarge(s) \/ ReadInterrupted(s)
    PROVE  LayerType(Items)' /\ UNCHANGED <<CONFIG, out, up>>
  <1>1. UNCHANGED <<CONFIG, out, up>>
    BY DEF ReadPacket, Misread, MisreadOn, ReadTooLarge, ReadInterrupted
  <1>2. \/ wire' = wire
        \/ Incoming(s) # <<>> /\ DropItem(s)
    BY DEF ReadPacket, Misread, MisreadOn, ReadTooLarge, ReadInterrupted,
           Aligned, Misaligned
  <1>3. wire' \in [Side -> Seq(Items)]
    <2>1. CASE wire' = wire
      BY <2>1 DEF LayerType
    <2>2. CASE Incoming(s) # <<>> /\ DropItem(s)
      <3>1. [wire EXCEPT ![Peer(s)] = Tail(@)] \in [Side -> Seq(Items)]
        BY <2>2, IncomingType
      <3> QED BY <2>2, <3>1 DEF DropItem
    <2> QED BY <1>2, <2>1, <2>2
  <1>4. skew' \in [Side -> BOOLEAN]
    BY DEF ReadPacket, Misread, MisreadOn, ReadTooLarge, ReadInterrupted, LayerType
  <1> QED BY <1>1, <1>3, <1>4 DEF LayerType

\* However write_packet ends, the writer holds at most one item more.
LEMMA WritingType ==
    ASSUME NEW Items, LayerType(Items), NEW s \in Side, NEW p,
           Whole(p) \in Items, Cut(p) \in Items,
           WritePacket(s, p) \/ WriteTooLarge(s, p) \/ WriteInterrupted(s, p)
    PROVE  LayerType(Items)' /\ UNCHANGED <<CONFIG, wire, skew, up>>
  <1>1. UNCHANGED <<CONFIG, wire, skew, up>>
    BY DEF WritePacket, WriteTooLarge, WriteInterrupted, layerVars
  <1>2. \/ out' = out
        \/ \E i \in Items : out' = [out EXCEPT ![s] = Append(@, i)]
    BY DEF WritePacket, WriteTooLarge, WriteInterrupted, layerVars
  <1>3. out \in [Side -> Seq(Items)]
    BY DEF LayerType
  <1>4. \A i \in Items : [out EXCEPT ![s] = Append(@, i)] \in [Side -> Seq(Items)]
    BY <1>3, SequenceUpdates
  <1>5. out' \in [Side -> Seq(Items)]
    BY <1>2, <1>3, <1>4
  <1> QED BY <1>1, <1>5 DEF LayerType

\* A writer passes on what it holds, in order.
LEMMA DrainType ==
    ASSUME NEW Items, LayerType(Items), NEW s \in Side, Drain(s)
    PROVE  LayerType(Items)'
  <1>1. wire' \in [Side -> Seq(Items)] /\ out' \in [Side -> Seq(Items)]
    BY SequenceUpdates DEF Drain, LayerType
  <1> QED BY <1>1 DEF Drain, LayerType
=============================================================================
