------------------------ MODULE PlainChannelProofs ------------------------
(***************************************************************************)
(* Proofs about PlainChannel, for every set of messages, every encoder,    *)
(* every limit and every bound.                                            *)
(***************************************************************************)
EXTENDS PlainChannel, PacketLayerProofs

-----------------------------------------------------------------------------
(* Types *)

Item == [pkt : Packet, cut : BOOLEAN]

\* A Buf holds some number of bytes.
LEMMA BytesType ==
    ASSUME NEW b \in Payload
    PROVE  Bytes(b) \in Nat
  <1>1. b.part \in {"all", "rest", "none"} /\ Size[b.msg] \in Nat
    BY PlainAssumption DEF Payload, Part
  <1>2. Size[b.msg] \div 2 \in Nat
    BY <1>1
  <1> QED BY <1>1, <1>2 DEF Bytes

\* Consuming a Buf changes how much of its message it holds.
LEMMA PartType ==
    ASSUME NEW b \in Payload, NEW x \in Part
    PROVE  /\ [b EXCEPT !.part = x] \in Payload
           /\ [b EXCEPT !.part = x].part = x
  BY DEF Payload

\* What a caller gives to send is a Buf.
LEMMA SendableType ==
    ASSUME TypeOK, NEW s \in Side, NEW b \in Sendable(s)
    PROVE  b \in Payload
  BY DEF Sendable, TypeOK, Payload, Part

\* Start makes one packet of one Buf.
LEMMA StartType ==
    ASSUME TypeOK, NEW s \in Side, NEW b \in Sendable(s),
           IF Compressed THEN CompressPacket(s, b) ELSE RawPacket(s, b)
    PROVE  \E p \in Packet, r \in Payload :
              /\ p.payload = b
              /\ ~Compressed => r = b
              /\ packet' = [packet EXCEPT ![s] = {p}]
              /\ buffer' = [buffer EXCEPT ![s] = {r}]
  <1>1. b \in Payload /\ Bytes(b) \in Nat
    BY SendableType, BytesType
  <1>2. CASE Compressed
    <2>1. PICK d \in Deflate(get_compression(s), Bytes(b)) :
             packet' = [packet EXCEPT ![s] = {[payload |-> b, len |-> d]}]
      BY <1>2 DEF CompressPacket
    <2>2. get_compression(s) \in Level
      BY LayerAssumption DEF get_compression, TypeOK
    <2>3. d \in Nat
      BY <1>1, <2>2, PlainAssumption
    <2>4. [payload |-> b, len |-> d] \in Packet
      BY <1>1, <2>3 DEF Packet
    <2>5. [b EXCEPT !.part = "none"] \in Payload
      BY <1>1, PartType DEF Part
    <2>6. buffer' = [buffer EXCEPT ![s] = {[b EXCEPT !.part = "none"]}]
      BY <1>2 DEF CompressPacket
    <2> QED BY <1>2, <2>1, <2>4, <2>5, <2>6
  <1>3. CASE ~Compressed
    <2>1. [payload |-> b, len |-> Bytes(b)] \in Packet
      BY <1>1 DEF Packet
    <2> QED BY <1>1, <1>3, <2>1 DEF RawPacket
  <1> QED BY <1>2, <1>3

\* write_packet, and a stopped send, may have consumed the Buf.
LEMMA ConsumedType ==
    ASSUME TypeOK, NEW s \in Side, NEW x \in Part, Consumed(s, x)
    PROVE  buffer' \in [Side -> SUBSET Payload]
  <1>1. \A b \in buffer[s] : [b EXCEPT !.part = x] \in Payload
    BY PartType DEF TypeOK
  <1>2. {[b EXCEPT !.part = x] : b \in buffer[s]} \in SUBSET Payload
    BY <1>1
  <1>3. buffer' = [buffer EXCEPT ![s] = {[b EXCEPT !.part = x] : b \in buffer[s]}]
    BY DEF Consumed
  <1>4. buffer \in [Side -> SUBSET Payload]
    BY DEF TypeOK
  <1> QED BY <1>2, <1>3, <1>4

\* The streams carry items.
LEMMA StreamType == TypeOK => LayerType(Item)
  BY DEF TypeOK, LayerType, Item

\* What a packet becomes in the stream is an item.
LEMMA ItemType ==
    ASSUME NEW p \in Packet
    PROVE  Whole(p) \in Item /\ Cut(p) \in Item
  BY DEF Whole, Cut, Item

\* The variables of PlainChannel itself are well typed.
PlainType ==
    /\ buffer \in [Side -> SUBSET Payload]
    /\ packet \in [Side -> SUBSET Packet]
    /\ sending \in [Side -> {"idle", "ready", "flushing"}]
    /\ sendRes \in [Side -> Result]
    /\ sent \in [Side -> Seq(Payload)]
    /\ got \in [Side -> Seq(Payload \cup {Garbage})]
    /\ reported \subseteq Side
    /\ faults \in 0..MaxFaults
    /\ \A s \in Side : packet[s] = {} <=> sending[s] = "idle"

\* TypeOK is the types of the streams and those of the rest.
LEMMA TypeSplit == TypeOK => LayerType(Item) /\ PlainType
  BY DEF TypeOK, LayerType, PlainType, Item

LEMMA TypeJoin == LayerType(Item)' /\ PlainType' => TypeOK'
  BY DEF TypeOK, LayerType, PlainType, Item

\* A fault is counted.
LEMMA FaultType ==
    ASSUME PlainType, Fault
    PROVE  faults' \in 0..MaxFaults /\ faults' > 0
  BY PlainAssumption DEF PlainType, Fault

\* A send that has ended has no packet any more.
LEMMA EndSendType ==
    ASSUME PlainType, NEW s \in Side, NEW r \in Result, EndSend(s, r),
           buffer' \in [Side -> SUBSET Payload], reported' \subseteq Side,
           faults' \in 0..MaxFaults
    PROVE  PlainType'
  BY DEF PlainType, EndSend

\* A send that stops leaves its writer with an item more, or as it was.
LEMMA StopSendType ==
    ASSUME TypeOK, NEW s \in Side, StopSend(s)
    PROVE  /\ LayerType(Item)'
           /\ buffer' \in [Side -> SUBSET Payload]
           /\ reported' \subseteq Side
  <1>1. reported' \subseteq Side /\ LayerType(Item)
    BY TypeSplit DEF StopSend, PlainType
  <1>2. CASE /\ sending[s] = "ready"
             /\ \E p \in packet[s] : WriteInterrupted(s, p)
             /\ \/ UNCHANGED buffer
                \/ ~Compressed /\ out' # out /\ Consumed(s, "rest")
    <2>1. PICK p \in packet[s] : WriteInterrupted(s, p)
      BY <1>2
    <2>2. p \in Packet
      BY DEF TypeOK
    <2>3. LayerType(Item)'
      BY <1>1, <2>1, <2>2, ItemType, WritingType
    <2>4. buffer' \in [Side -> SUBSET Payload]
      BY <1>2, ConsumedType DEF Part, TypeOK
    <2> QED BY <1>1, <2>3, <2>4
  <1>3. CASE UNCHANGED <<layerVars, buffer>>
    BY <1>1, <1>3 DEF layerVars, LayerType, TypeOK
  <1> QED BY <1>2, <1>3 DEF StopSend

\* Every step of a send keeps every variable well typed.
LEMMA TypeSend ==
    ASSUME TypeOK, NEW s \in Side, SendStep(s)
    PROVE  TypeOK'
  <1>1. LayerType(Item) /\ PlainType
    BY TypeSplit
  <1>2. CASE Start(s)
    <2>1. PICK b \in Sendable(s) :
             IF Compressed THEN CompressPacket(s, b) ELSE RawPacket(s, b)
      BY <1>2 DEF Start
    <2>2. PICK p \in Packet, r \in Payload :
             /\ packet' = [packet EXCEPT ![s] = {p}]
             /\ buffer' = [buffer EXCEPT ![s] = {r}]
      BY <2>1, StartType
    <2>3. /\ sending' = [sending EXCEPT ![s] = "ready"]
          /\ UNCHANGED <<layerVars, sendRes, sent, got, reported, faults>>
      BY <1>2 DEF Start
    <2>4. LayerType(Item)'
      BY <1>1, <2>3 DEF layerVars, LayerType
    <2>5. PlainType'
      BY <1>1, <2>2, <2>3 DEF PlainType
    <2> QED BY <2>4, <2>5, TypeJoin
  <1>3. CASE Write(s)
    <2>1. PICK p \in packet[s] :
             /\ WritePacket(s, p)
             /\ sent' = [sent EXCEPT ![s] = Append(@, p.payload)]
      BY <1>3 DEF Write
    <2>2. p \in Packet /\ p.payload \in Payload
      BY <1>1 DEF PlainType, Packet
    <2>3. LayerType(Item)'
      BY <1>1, <2>1, <2>2, ItemType, WritingType
    <2>4. sent' \in [Side -> Seq(Payload)]
      BY <1>1, <2>1, <2>2, SequenceUpdates DEF PlainType
    <2>5. buffer' \in [Side -> SUBSET Payload]
      BY <1>3, ConsumedType DEF Write, Part
    <2>6. /\ sending[s] = "ready" /\ sending' = [sending EXCEPT ![s] = "flushing"]
          /\ UNCHANGED <<packet, sendRes, got, reported, faults>>
      BY <1>3 DEF Write
    <2>7. PlainType'
      BY <1>1, <2>4, <2>5, <2>6 DEF PlainType
    <2> QED BY <2>3, <2>7, TypeJoin
  <1>4. CASE SendTooLarge(s) \/ Flush(s)
    <2>1. UNCHANGED <<layerVars, buffer, reported, faults>>
      BY <1>4 DEF SendTooLarge, Flush, WriteTooLarge, Flushed
    <2>2. EndSend(s, "TooLarge") \/ EndSend(s, "Ok")
      BY <1>4 DEF SendTooLarge, Flush
    <2>3. PlainType'
      <3>1. "TooLarge" \in Result /\ "Ok" \in Result
        BY DEF Result
      <3>2. /\ buffer' \in [Side -> SUBSET Payload] /\ reported' \subseteq Side
            /\ faults' \in 0..MaxFaults
        BY <1>1, <2>1 DEF PlainType
      <3> QED BY <1>1, <2>2, <3>1, <3>2, EndSendType
    <2>4. LayerType(Item)'
      BY <1>1, <2>1 DEF layerVars, LayerType
    <2> QED BY <2>3, <2>4, TypeJoin
  <1>5. CASE SendIO(s) \/ CancelSend(s)
    <2>1. StopSend(s)
      BY <1>5 DEF SendIO, CancelSend
    <2>2. PICK r \in Result : EndSend(s, r)
      BY <1>5 DEF SendIO, CancelSend, Result
    <2>3. faults' \in 0..MaxFaults
      BY <1>1, <1>5, FaultType DEF SendIO, CancelSend, PlainType
    <2>4. LayerType(Item)' /\ buffer' \in [Side -> SUBSET Payload] /\ reported' \subseteq Side
      BY <2>1, StopSendType
    <2>5. PlainType'
      BY <1>1, <2>2, <2>3, <2>4, EndSendType
    <2> QED BY <2>4, <2>5, TypeJoin
  <1> QED BY <1>2, <1>3, <1>4, <1>5 DEF SendStep

\* Every step of a recv keeps every variable well typed.
LEMMA TypeRecv ==
    ASSUME TypeOK, NEW s \in Side, RecvStep(s)
    PROVE  TypeOK'
  <1>1. LayerType(Item) /\ PlainType
    BY TypeSplit
  <1>2. LayerType(Item)'
    <2>1. ReadPacket(s) \/ Misread(s) \/ MisreadOn(s) \/ ReadTooLarge(s) \/ ReadInterrupted(s)
      BY DEF RecvStep, Read, ReadGarbage, ReadOn, RecvRefuses, RecvIO, CancelRecv
    <2> QED BY <1>1, <2>1, ReadingType
  <1>3. ASSUME NEW x \in Payload \cup {Garbage}, RecvOk(s, x) PROVE PlainType'
    <2>1. got' \in [Side -> Seq(Payload \cup {Garbage})]
      BY <1>1, <1>3, SequenceUpdates DEF RecvOk, PlainType
    <2> QED BY <1>1, <1>3, <2>1 DEF RecvOk, PlainType
  <1>4. ASSUME RecvFails(s), faults' \in 0..MaxFaults PROVE PlainType'
    BY <1>1, <1>4, PeerFacts DEF RecvFails, PlainType
  <1>5. CASE Read(s)
    <2>1. Incoming(s) # <<>> /\ RecvOk(s, Head(Incoming(s)).pkt.payload)
      BY <1>5 DEF Read, ReadPacket, Aligned
    <2>2. Head(Incoming(s)) \in Item
      BY <1>1, <2>1, IncomingType
    <2>3. Head(Incoming(s)).pkt.payload \in Payload
      BY <2>2 DEF Item, Packet
    <2>4. PlainType'
      BY <1>3, <2>1, <2>3
    <2> QED BY <1>2, <2>4, TypeJoin
  <1>6. CASE ReadGarbage(s)
    BY <1>2, <1>3, <1>6, TypeJoin DEF ReadGarbage
  <1>7. CASE ReadOn(s)
    BY <1>1, <1>2, <1>7, TypeJoin DEF ReadOn, plainVars, PlainType
  <1>8. CASE RecvRefuses(s) \/ RecvIO(s) \/ CancelRecv(s)
    <2>1. faults' \in 0..MaxFaults
      BY <1>1, <1>8, FaultType DEF RecvRefuses, RecvIO, CancelRecv, PlainType
    <2>2. RecvFails(s)
      BY <1>8 DEF RecvRefuses, RecvIO, CancelRecv
    <2> QED BY <1>2, <1>4, <2>1, <2>2, TypeJoin
  <1> QED BY <1>5, <1>6, <1>7, <1>8 DEF RecvStep

\* So does every step of the connection and of the configuration.
LEMMA TypeOther ==
    ASSUME TypeOK,
           \/ \E s \in Side : Transmit(s) \/ Configure(s)
           \/ LoseConnection
           \/ UNCHANGED vars
    PROVE  TypeOK'
  <1>1. LayerType(Item) /\ PlainType
    BY TypeSplit
  <1>2. ASSUME NEW s \in Side, Transmit(s) PROVE TypeOK'
    <2>1. LayerType(Item)'
      BY <1>1, <1>2, DrainType DEF Transmit
    <2>2. PlainType'
      BY <1>1, <1>2 DEF Transmit, plainVars, PlainType
    <2> QED BY <2>1, <2>2, TypeJoin
  <1>3. ASSUME NEW s \in Side, Configure(s) PROVE TypeOK'
    <2>1. LayerType(Item)'
      BY <1>1, <1>3 DEF Configure, set_config, LayerType
    <2>2. PlainType'
      BY <1>1, <1>3 DEF Configure, plainVars, PlainType
    <2> QED BY <2>1, <2>2, TypeJoin
  <1>4. ASSUME LoseConnection PROVE TypeOK'
    <2>1. LayerType(Item)'
      BY <1>1, <1>4 DEF LoseConnection, Disconnect, LayerType
    <2>2. PlainType'
      BY <1>1, <1>4, FaultType DEF LoseConnection, PlainType
    <2> QED BY <2>1, <2>2, TypeJoin
  <1>5. ASSUME UNCHANGED vars PROVE TypeOK'
    <2>1. LayerType(Item)'
      BY <1>1, <1>5 DEF vars, layerVars, LayerType
    <2>2. PlainType'
      BY <1>1, <1>5 DEF vars, plainVars, PlainType
    <2> QED BY <2>1, <2>2, TypeJoin
  <1> QED BY <1>2, <1>3, <1>4, <1>5

\* The initial states are well typed.
LEMMA TypeInit == Init => TypeOK
  BY PlainAssumption DEF Init, InitLayer, TypeOK, Result

\* Every step keeps every variable well typed.
LEMMA TypeNext == TypeOK /\ [Next]_vars => TypeOK'
  BY TypeSend, TypeRecv, TypeOther DEF Next

\* Every reachable state is well typed, and a send has a packet exactly while
\* it runs.
THEOREM TypeCorrect == Spec => []TypeOK
  BY TypeInit, TypeNext, PTL DEF Spec

-----------------------------------------------------------------------------
(* What is in transit *)

\* What has been read, what is on the wire, what the writer holds and what was
\* written.
Received == Payload \cup {Garbage}

\* A packet written whole is carried behind all others.
LEMMA CarriedWrite ==
    ASSUME NEW g \in Seq(Received), NEW w \in Seq(Item), NEW o \in Seq(Item),
           NEW q \in Seq(Payload), Carried(g, w, o, q),
           NEW p \in Packet
    PROVE  Carried(g, w, Append(o, Whole(p)), Append(q, p.payload))
  <1> DEFINE n == Len(g)
             l == Len(w)
             k == Len(o)
             j == Len(q)
             o2 == Append(o, Whole(p))
             q2 == Append(q, p.payload)
  <1>1. n \in Nat /\ l \in Nat /\ k \in Nat /\ j \in Nat
    OBVIOUS
  <1>2. n + l + k = j
    BY DEF Carried
  <1>3. /\ \A i \in 1..n : g[i] = q[i]
        /\ \A i \in 1..l : IsWhole(w[i], q[n + i])
        /\ \A i \in 1..k : IsWhole(o[i], q[n + l + i])
    BY DEF Carried
  <1>4. p.payload \in Payload /\ Whole(p) \in Item
    BY ItemType DEF Packet
  <1>5. /\ Len(q2) = j + 1 /\ q2[j + 1] = p.payload
        /\ \A i \in 1..j : q2[i] = q[i]
    BY <1>4, AppendElement
  <1>6. /\ Len(o2) = k + 1 /\ o2[k + 1] = Whole(p)
        /\ \A i \in 1..k : o2[i] = o[i]
    BY <1>4, AppendElement
  <1>7. IsWhole(Whole(p), p.payload)
    BY DEF IsWhole, Whole
  <1> HIDE DEF n, l, k, j, o2, q2
  <1>8. n + l + (k + 1) = j + 1
    BY <1>1, <1>2
  <1>9. /\ \A i \in 1..n : i \in 1..j
        /\ \A i \in 1..l : n + i \in 1..j
        /\ \A i \in 1..k : n + l + i \in 1..j
        /\ \A i \in 1..(k + 1) : i \in 1..k \/ i = k + 1
    BY <1>1, <1>2
  <1>10. \A i \in 1..n : g[i] = q2[i]
    BY <1>3, <1>5, <1>9
  <1>11. \A i \in 1..l : IsWhole(w[i], q2[n + i])
    BY <1>3, <1>5, <1>9
  <1>12. \A i \in 1..(k + 1) : IsWhole(o2[i], q2[n + l + i])
    <2>1. \A i \in 1..k : IsWhole(o2[i], q2[n + l + i])
      BY <1>3, <1>5, <1>6, <1>9
    <2>2. IsWhole(o2[k + 1], q2[n + l + (k + 1)])
      BY <1>5, <1>6, <1>7, <1>8
    <2> QED BY <1>9, <2>1, <2>2
  <1>13. /\ n + l + Len(o2) = Len(q2)
         /\ \A i \in 1..Len(o2) : IsWhole(o2[i], q2[n + l + i])
    BY <1>5, <1>6, <1>8, <1>12
  <1> QED BY <1>10, <1>11, <1>13 DEF Carried, n, l, o2, q2

\* What a writer passes on is carried on the wire behind what is there.
LEMMA CarriedDrain ==
    ASSUME NEW g \in Seq(Received), NEW w \in Seq(Item), NEW o \in Seq(Item),
           NEW q \in Seq(Payload), Carried(g, w, o, q),
           o # <<>>
    PROVE  Carried(g, Append(w, Head(o)), Tail(o), q)
  <1> DEFINE n == Len(g)
             l == Len(w)
             k == Len(o)
             j == Len(q)
             w2 == Append(w, Head(o))
             o2 == Tail(o)
  <1>1. n \in Nat /\ l \in Nat /\ k \in Nat /\ j \in Nat
    OBVIOUS
  <1>2. n + l + k = j
    BY DEF Carried
  <1>3. /\ \A i \in 1..n : g[i] = q[i]
        /\ \A i \in 1..l : IsWhole(w[i], q[n + i])
        /\ \A i \in 1..k : IsWhole(o[i], q[n + l + i])
    BY DEF Carried
  <1>4. /\ 1 \in 1..k /\ Head(o) = o[1] /\ Len(o2) = k - 1
        /\ \A i \in 1..Len(o2) : i + 1 \in 1..k /\ o2[i] = o[i + 1]
    BY TailElement
  <1>5. Head(o) \in Item
    BY <1>4
  <1>6. /\ Len(w2) = l + 1 /\ w2[l + 1] = Head(o)
        /\ \A i \in 1..l : w2[i] = w[i]
    BY <1>5, AppendElement
  <1> HIDE DEF n, l, k, j, w2, o2
  <1>7. n + (l + 1) = n + l + 1 /\ n + (l + 1) + (k - 1) = j
    BY <1>1, <1>2
  <1>8. /\ \A i \in 1..(l + 1) : i \in 1..l \/ i = l + 1
        /\ \A i \in 1..(k - 1) : n + l + (i + 1) = n + (l + 1) + i
    BY <1>1, <1>4
  <1>9. \A i \in 1..(l + 1) : IsWhole(w2[i], q[n + i])
    <2>1. \A i \in 1..l : IsWhole(w2[i], q[n + i])
      BY <1>3, <1>6
    <2>2. IsWhole(w2[l + 1], q[n + (l + 1)])
      BY <1>3, <1>4, <1>6, <1>7
    <2> QED BY <1>8, <2>1, <2>2
  <1>10. \A i \in 1..(k - 1) : IsWhole(o2[i], q[n + (l + 1) + i])
    BY <1>3, <1>4, <1>8
  <1>11. /\ n + Len(w2) + Len(o2) = j
         /\ \A i \in 1..Len(w2) : IsWhole(w2[i], q[n + i])
         /\ \A i \in 1..Len(o2) : IsWhole(o2[i], q[n + Len(w2) + i])
    BY <1>4, <1>6, <1>7, <1>9, <1>10
  <1> QED BY <1>3, <1>11 DEF Carried, n, j, w2, o2

\* What a reader returns is carried to its caller behind what it has returned.
LEMMA CarriedRead ==
    ASSUME NEW g \in Seq(Received), NEW w \in Seq(Item), NEW o \in Seq(Item),
           NEW q \in Seq(Payload), Carried(g, w, o, q),
           w # <<>>
    PROVE  /\ ~Head(w).cut
           /\ Len(g) < Len(q) /\ Head(w).pkt.payload = q[Len(g) + 1]
           /\ Carried(Append(g, Head(w).pkt.payload), Tail(w), o, q)
  <1> DEFINE n == Len(g)
             l == Len(w)
             k == Len(o)
             j == Len(q)
             x == Head(w).pkt.payload
             g2 == Append(g, x)
             w2 == Tail(w)
  <1>1. n \in Nat /\ l \in Nat /\ k \in Nat /\ j \in Nat
    OBVIOUS
  <1>2. n + l + k = j
    BY DEF Carried
  <1>3. /\ \A i \in 1..n : g[i] = q[i]
        /\ \A i \in 1..l : IsWhole(w[i], q[n + i])
        /\ \A i \in 1..k : IsWhole(o[i], q[n + l + i])
    BY DEF Carried
  <1>4. /\ 1 \in 1..l /\ Head(w) = w[1] /\ Len(w2) = l - 1
        /\ \A i \in 1..Len(w2) : i + 1 \in 1..l /\ w2[i] = w[i + 1]
    BY TailElement
  <1>5. ~Head(w).cut /\ x = q[n + 1]
    BY <1>3, <1>4 DEF IsWhole
  <1>6. x \in Received
    <2>1. Head(w) \in Item
      BY <1>4
    <2>2. x \in Payload
      BY <2>1 DEF Item, Packet
    <2> QED BY <2>2 DEF Received
  <1>7. /\ Len(g2) = n + 1 /\ g2[n + 1] = x
        /\ \A i \in 1..n : g2[i] = g[i]
    BY <1>6, AppendElement
  <1> HIDE DEF n, l, k, j, x, g2, w2
  <1>8. (n + 1) + (l - 1) = n + l /\ n < j
    BY <1>1, <1>2, <1>4
  <1>9. /\ \A i \in 1..(n + 1) : i \in 1..n \/ i = n + 1
        /\ \A i \in 1..(l - 1) : n + (i + 1) = (n + 1) + i
    BY <1>1, <1>4
  <1>10. \A i \in 1..(n + 1) : g2[i] = q[i]
    BY <1>3, <1>5, <1>7, <1>9
  <1>11. \A i \in 1..(l - 1) : IsWhole(w2[i], q[(n + 1) + i])
    BY <1>3, <1>4, <1>9
  <1>12. /\ Len(g2) + Len(w2) + k = j
         /\ \A i \in 1..Len(g2) : g2[i] = q[i]
         /\ \A i \in 1..Len(w2) : IsWhole(w2[i], q[Len(g2) + i])
         /\ \A i \in 1..k : IsWhole(o[i], q[Len(g2) + Len(w2) + i])
    BY <1>2, <1>3, <1>4, <1>7, <1>8, <1>10, <1>11
  <1>13. Carried(g2, w2, o, q)
    BY <1>12 DEF Carried, k, j
  <1> QED BY <1>5, <1>8, <1>13 DEF n, j, x, g2, w2

\* What TypeOK says of one direction.
LEMMA DirectionTypes ==
    ASSUME TypeOK, NEW s \in Side
    PROVE  /\ got[Peer(s)] \in Seq(Received)
           /\ wire[s] \in Seq(Item) /\ out[s] \in Seq(Item)
           /\ sent[s] \in Seq(Payload)
  BY PeerFacts DEF TypeOK, Item, Received

\* A send carries one packet more, or none, or its side is reported.
LEMMA TransitSend ==
    ASSUME TypeOK, InTransit, NEW s \in Side, SendStep(s)
    PROVE  InTransit'
  <1>1. /\ Peer(s) \in Side /\ Peer(s) # s /\ Peer(Peer(s)) = s
        /\ \A t \in Side : t = s \/ t = Peer(s)
    BY PeerFacts
  <1>2. CASE Start(s) \/ SendTooLarge(s) \/ Flush(s)
    <2>1. UNCHANGED <<skew, got, wire, out, sent, reported>>
      BY <1>2 DEF Start, SendTooLarge, WriteTooLarge, Flush, Flushed, EndSend, layerVars
    <2> QED BY <2>1 DEF InTransit
  <1>3. CASE Write(s)
    <2>1. PICK p \in packet[s] :
             /\ WritePacket(s, p)
             /\ sent' = [sent EXCEPT ![s] = Append(@, p.payload)]
      BY <1>3 DEF Write
    <2>2. p \in Packet
      BY DEF TypeOK
    <2>3. out' = [out EXCEPT ![s] = Append(@, Whole(p))]
      BY <2>1 DEF WritePacket
    <2>4. UNCHANGED <<skew, got, wire, reported>>
      BY <1>3, <2>1 DEF Write, WritePacket
    <2>5. /\ out'[s] = Append(out[s], Whole(p))
          /\ sent'[s] = Append(sent[s], p.payload)
          /\ out'[Peer(s)] = out[Peer(s)] /\ sent'[Peer(s)] = sent[Peer(s)]
      BY <1>1, <2>1, <2>3 DEF TypeOK
    <2>6. s \notin reported =>
             Carried(got[Peer(s)], wire[s], out'[s], sent'[s])
      BY <2>2, <2>5, CarriedWrite, DirectionTypes DEF InTransit
    <2>7. s \notin reported => ~skew[Peer(s)]
      BY DEF InTransit
    <2>8. Peer(s) \notin reported' =>
             /\ ~skew'[s]
             /\ Carried(got'[s], wire'[Peer(s)], out'[Peer(s)], sent'[Peer(s)])
      BY <1>1, <2>4, <2>5 DEF InTransit
    <2> QED BY <1>1, <2>4, <2>6, <2>7, <2>8 DEF InTransit
  <1>4. CASE SendIO(s) \/ CancelSend(s)
    <2>1. StopSend(s) /\ UNCHANGED <<sent, got>>
      BY <1>4 DEF SendIO, CancelSend, EndSend
    <2>2. reported' = reported \cup {s}
      BY <2>1 DEF StopSend
    <2>3. /\ UNCHANGED <<wire, skew>>
          /\ out'[Peer(s)] = out[Peer(s)]
      BY <1>1, <2>1 DEF StopSend, WriteInterrupted, layerVars, TypeOK
    <2>4. Peer(s) \notin reported' =>
             /\ ~skew'[s]
             /\ Carried(got'[s], wire'[Peer(s)], out'[Peer(s)], sent'[Peer(s)])
      BY <1>1, <2>1, <2>2, <2>3 DEF InTransit
    <2> QED BY <1>1, <2>2, <2>4 DEF InTransit
  <1> QED BY <1>2, <1>3, <1>4 DEF SendStep

\* As long as nothing is reported a reader is never misaligned.
LEMMA NotMisaligned ==
    ASSUME TypeOK, InTransit, NEW s \in Side, Peer(s) \notin reported
    PROVE  ~Misaligned(s)
  <1>1. Peer(s) \in Side /\ Peer(Peer(s)) = s
    BY PeerFacts
  <1>2. /\ got[s] \in Seq(Received) /\ wire[Peer(s)] \in Seq(Item)
        /\ out[Peer(s)] \in Seq(Item) /\ sent[Peer(s)] \in Seq(Payload)
    BY <1>1, DirectionTypes
  <1>3. ~skew[s] /\ Carried(got[s], wire[Peer(s)], out[Peer(s)], sent[Peer(s)])
    BY <1>1 DEF InTransit
  <1>4. wire[Peer(s)] # <<>> => ~Head(wire[Peer(s)]).cut
    BY <1>2, <1>3, CarriedRead
  <1> QED BY <1>3, <1>4 DEF Misaligned, Incoming

\* A recv returns the next packet, or its peer is reported.
LEMMA TransitRecv ==
    ASSUME TypeOK, InTransit, NEW s \in Side, RecvStep(s)
    PROVE  InTransit'
  <1> DEFINE p == Peer(s)
  <1>1. /\ p \in Side /\ p # s /\ Peer(p) = s /\ Peer(s) = p
        /\ \A t \in Side : t = s \/ t = p
    BY PeerFacts
  <1>2. UNCHANGED <<out, sent>>
    BY DEF RecvStep, Read, ReadGarbage, ReadOn, RecvRefuses, RecvIO, CancelRecv,
           RecvOk, RecvFails, ReadPacket, Misread, MisreadOn, ReadTooLarge,
           ReadInterrupted, plainVars
  <1>3. /\ wire'[s] = wire[s] /\ skew'[p] = skew[p] /\ got'[p] = got[p]
        /\ s \in reported => s \in reported'
    BY <1>1 DEF RecvStep, Read, ReadGarbage, ReadOn, RecvRefuses, RecvIO, CancelRecv,
           RecvOk, RecvFails, ReadPacket, Misread, MisreadOn, ReadTooLarge,
           ReadInterrupted, plainVars, DropItem, TypeOK
  <1>4. s \notin reported' =>
           ~skew'[p] /\ Carried(got'[p], wire'[s], out'[s], sent'[s])
    BY <1>1, <1>2, <1>3 DEF InTransit
  <1>5. p \notin reported' =>
           ~skew'[s] /\ Carried(got'[s], wire'[p], out'[p], sent'[p])
    <2>1. CASE Read(s)
      <3>1. /\ wire[p] # <<>>
            /\ wire' = [wire EXCEPT ![p] = Tail(@)]
            /\ got' = [got EXCEPT ![s] = Append(@, Head(wire[p]).pkt.payload)]
            /\ UNCHANGED <<skew, reported>>
        BY <2>1 DEF Read, ReadPacket, Aligned, Incoming, DropItem, RecvOk
      <3>2. /\ wire'[p] = Tail(wire[p])
            /\ got'[s] = Append(got[s], Head(wire[p]).pkt.payload)
        BY <1>1, <3>1 DEF TypeOK
      <3>3. /\ got[s] \in Seq(Received) /\ wire[p] \in Seq(Item)
            /\ out[p] \in Seq(Item) /\ sent[p] \in Seq(Payload)
        BY <1>1, DirectionTypes
      <3>4. p \notin reported =>
               ~skew[s] /\ Carried(got[s], wire[p], out[p], sent[p])
        BY <1>1 DEF InTransit
      <3>5. p \notin reported => Carried(got'[s], wire'[p], out[p], sent[p])
        BY <3>1, <3>2, <3>3, <3>4, CarriedRead
      <3> QED BY <1>2, <3>1, <3>4, <3>5
    <2>2. CASE ReadGarbage(s) \/ ReadOn(s)
      <3>1. Misaligned(s) /\ UNCHANGED reported
        BY <2>2 DEF ReadGarbage, Misread, RecvOk, ReadOn, MisreadOn, plainVars
      <3> QED BY <3>1, NotMisaligned
    <2>3. CASE RecvRefuses(s) \/ RecvIO(s) \/ CancelRecv(s)
      BY <2>3 DEF RecvRefuses, RecvIO, CancelRecv, RecvFails
    <2> QED BY <2>1, <2>2, <2>3 DEF RecvStep
  <1> QED BY <1>1, <1>4, <1>5 DEF InTransit

\* Every step carries on.
LEMMA TransitNext ==
    ASSUME TypeOK, InTransit, [Next]_vars
    PROVE  InTransit'
  <1>1. ASSUME NEW s \in Side, Transmit(s) PROVE InTransit'
    <2>1. Peer(s) \in Side /\ Peer(s) # s /\ \A t \in Side : t = s \/ t = Peer(s)
      BY PeerFacts
    <2>2. /\ out[s] # <<>>
          /\ wire' = [wire EXCEPT ![s] = Append(@, Head(out[s]))]
          /\ out' = [out EXCEPT ![s] = Tail(@)]
          /\ UNCHANGED <<skew, got, sent, reported>>
      BY <1>1 DEF Transmit, Drain, plainVars
    <2>3. /\ wire'[s] = Append(wire[s], Head(out[s])) /\ out'[s] = Tail(out[s])
          /\ wire'[Peer(s)] = wire[Peer(s)] /\ out'[Peer(s)] = out[Peer(s)]
      BY <2>1, <2>2 DEF TypeOK
    <2>4. s \notin reported => Carried(got[Peer(s)], wire'[s], out'[s], sent[s])
      BY <2>2, <2>3, CarriedDrain, DirectionTypes DEF InTransit
    <2> QED BY <2>1, <2>2, <2>3, <2>4 DEF InTransit
  <1>2. ASSUME UNCHANGED <<skew, got, wire, out, sent, reported>> PROVE InTransit'
    BY <1>2 DEF InTransit
  <1>3. ASSUME NEW s \in Side, Configure(s) PROVE InTransit'
    BY <1>2, <1>3 DEF Configure, set_config, plainVars
  <1>4. ASSUME LoseConnection PROVE InTransit'
    BY <1>2, <1>4 DEF LoseConnection, Disconnect
  <1>5. CASE UNCHANGED vars
    BY <1>2, <1>5 DEF vars, layerVars, plainVars
  <1> QED BY <1>1, <1>3, <1>4, <1>5, TransitSend, TransitRecv DEF Next

-----------------------------------------------------------------------------
(* What raw may send again *)

\* RawWhole of one side.
WholeSide(s) ==
    s \notin reported =>
        /\ \A i \in 1..Len(sent[s]) : sent[s][i].part = "all"
        /\ sending[s] = "ready" => \A p \in packet[s] : p.payload.part = "all"
        /\ sending[s] = "ready" \/ (sending[s] = "idle" /\ sendRes[s] # "Ok") =>
              \A b \in buffer[s] : b.part = "all"

\* A step that leaves a side's sends alone leaves that side as it was.
LEMMA WholeKept ==
    ASSUME NEW s \in Side, WholeSide(s), s \in reported => s \in reported',
           sent'[s] = sent[s], packet'[s] = packet[s], sending'[s] = sending[s],
           sendRes'[s] = sendRes[s], buffer'[s] = buffer[s]
    PROVE  WholeSide(s)'
  BY DEF WholeSide

\* raw: a send begins with a whole Buf, keeps it until write_packet has
\* consumed it, and then returns Ok or is reported.
LEMMA WholeSend ==
    ASSUME TypeOK, ~Compressed, NEW s \in Side, WholeSide(s), SendStep(s)
    PROVE  WholeSide(s)'
  <1>typ. /\ buffer \in [Side -> SUBSET Payload] /\ packet \in [Side -> SUBSET Packet]
          /\ sending \in [Side -> {"idle", "ready", "flushing"}]
          /\ sendRes \in [Side -> Result] /\ sent \in [Side -> Seq(Payload)]
    BY DEF TypeOK
  <1>1. CASE Start(s)
    <2>1. PICK b \in Sendable(s) : RawPacket(s, b)
      BY <1>1 DEF Start
    <2>2. /\ packet'[s] = {[payload |-> b, len |-> Bytes(b)]}
          /\ buffer'[s] = {b}
      BY <1>typ, <2>1 DEF RawPacket
    <2>3. /\ sending[s] = "idle" /\ sending'[s] = "ready"
          /\ UNCHANGED <<sendRes, sent, reported>>
      BY <1>typ, <1>1 DEF Start
    <2>4. s \notin reported => b.part = "all"
      BY <2>3 DEF Sendable, WholeSide
    <2>5. s \notin reported' =>
             /\ \A p \in packet'[s] : p.payload.part = "all"
             /\ \A c \in buffer'[s] : c.part = "all"
      BY <2>2, <2>3, <2>4
    <2>6. s \notin reported' => \A i \in 1..Len(sent'[s]) : sent'[s][i].part = "all"
      BY <2>3 DEF WholeSide
    <2> QED BY <2>5, <2>6 DEF WholeSide
  <1>2. CASE Write(s)
    <2>1. PICK p \in packet[s] : sent' = [sent EXCEPT ![s] = Append(@, p.payload)]
      BY <1>2 DEF Write
    <2>2. p.payload \in Payload /\ sent[s] \in Seq(Payload)
      BY <1>typ DEF Packet
    <2>3. sending[s] = "ready" /\ sending'[s] = "flushing" /\ UNCHANGED reported
      BY <1>typ, <1>2 DEF Write
    <2>4. sent'[s] = Append(sent[s], p.payload)
      BY <1>typ, <2>1
    <2>5. \A i \in 1..Len(sent'[s]) :
             sent'[s][i] = p.payload \/ (i \in 1..Len(sent[s]) /\ sent'[s][i] = sent[s][i])
      BY <2>2, <2>4, AppendElement
    <2>6. s \notin reported' =>
             /\ p.payload.part = "all"
             /\ \A i \in 1..Len(sent[s]) : sent[s][i].part = "all"
      BY <2>3 DEF WholeSide
    <2>7. s \notin reported' => \A i \in 1..Len(sent'[s]) : sent'[s][i].part = "all"
      BY <2>5, <2>6
    <2>8. sending'[s] # "ready" /\ sending'[s] # "idle"
      BY <2>3
    <2> QED BY <2>7, <2>8 DEF WholeSide
  <1>3. CASE SendTooLarge(s)
    <2>1. /\ sending[s] = "ready" /\ sending'[s] = "idle"
          /\ UNCHANGED <<buffer, sent, reported>>
      BY <1>typ, <1>3 DEF SendTooLarge, EndSend
    <2> QED BY <2>1 DEF WholeSide
  <1>4. CASE Flush(s)
    <2>1. /\ sending'[s] = "idle" /\ sendRes'[s] = "Ok"
          /\ UNCHANGED <<sent, reported>>
      BY <1>typ, <1>4 DEF Flush, EndSend
    <2> QED BY <2>1 DEF WholeSide
  <1>5. CASE SendIO(s) \/ CancelSend(s)
    BY <1>5 DEF SendIO, CancelSend, StopSend, WholeSide
  <1> QED BY <1>1, <1>2, <1>3, <1>4, <1>5 DEF SendStep

\* No step of raw spoils what a side may send again, unless it is reported.
LEMMA WholeNext ==
    ASSUME TypeOK, RawWhole, [Next]_vars
    PROVE  RawWhole'
  <1> SUFFICES ASSUME ~Compressed, NEW s \in Side PROVE WholeSide(s)'
    BY DEF RawWhole, WholeSide
  <1>1. WholeSide(s)
    BY DEF RawWhole, WholeSide
  <1>2. CASE SendStep(s)
    BY <1>1, <1>2, WholeSend
  <1>3. ASSUME NEW t \in Side, SendStep(t), t # s PROVE WholeSide(s)'
    <2>1. /\ sent'[s] = sent[s] /\ sending'[s] = sending[s]
          /\ packet'[s] = packet[s] /\ sendRes'[s] = sendRes[s]
          /\ buffer'[s] = buffer[s]
      <3>1. CASE Start(t)
        BY <1>3, <3>1 DEF Start, RawPacket, TypeOK
      <3>2. CASE Write(t)
        BY <1>3, <3>2 DEF Write, Consumed, TypeOK
      <3>3. CASE SendTooLarge(t) \/ Flush(t)
        BY <1>3, <3>3 DEF SendTooLarge, Flush, EndSend, TypeOK
      <3>4. CASE SendIO(t) \/ CancelSend(t)
        BY <1>3, <3>4 DEF SendIO, CancelSend, StopSend, EndSend, Consumed, TypeOK
      <3> QED BY <1>3, <3>1, <3>2, <3>3, <3>4 DEF SendStep
    <2>2. s \in reported => s \in reported'
      BY <1>3 DEF SendStep, Start, Write, SendTooLarge, Flush, SendIO, CancelSend, StopSend
    <2> QED BY <1>1, <2>1, <2>2, WholeKept
  <1>4. ASSUME NEW t \in Side, RecvStep(t) \/ Transmit(t) \/ Configure(t)
        PROVE  WholeSide(s)'
    <2>1. UNCHANGED <<buffer, packet, sending, sendRes, sent>>
      BY <1>4 DEF RecvStep, Read, ReadGarbage, ReadOn, RecvRefuses, RecvIO, CancelRecv,
            RecvOk, RecvFails, Transmit, Configure, plainVars
    <2>2. s \in reported => s \in reported'
      BY <1>4 DEF RecvStep, Read, ReadGarbage, ReadOn, RecvRefuses, RecvIO, CancelRecv,
            RecvOk, RecvFails, Transmit, Configure, plainVars
    <2> QED BY <1>1, <2>1, <2>2, WholeKept
  <1>5. CASE LoseConnection \/ UNCHANGED vars
    BY <1>1, <1>5, WholeKept DEF LoseConnection, vars, plainVars
  <1> QED BY <1>2, <1>3, <1>4, <1>5 DEF Next

-----------------------------------------------------------------------------
(* Limits and faults *)

\* A packet that has passed the present limit has passed that of some
\* configuration.
LEMMA CheckedLimit ==
    ASSUME TypeOK, NEW s \in Side, NEW n, check_bytes_len(s, n)
    PROVE  checked_bytes_len(n)
  BY DEF TypeOK, check_bytes_len, checked_bytes_len, get_max_packet_size

\* A step puts an item that has passed a limit into a writer, moves one to the
\* wire, takes one away, or leaves the streams alone.
LEMMA LimitsNext ==
    ASSUME TypeOK, WithinLimits, [Next]_vars
    PROVE  WithinLimits'
  <1>1. ASSUME UNCHANGED <<out, wire>> PROVE WithinLimits'
    BY <1>1 DEF WithinLimits
  <1>2. out \in [Side -> Seq(Item)] /\ wire \in [Side -> Seq(Item)]
    BY StreamType DEF LayerType
  <1>3. ASSUME NEW s \in Side, NEW i \in Item, checked_bytes_len(i.pkt.len),
               out' = [out EXCEPT ![s] = Append(@, i)], UNCHANGED wire
        PROVE  WithinLimits'
    <2>1. out'[s] = Append(out[s], i) /\ \A t \in Side : t # s => out'[t] = out[t]
      BY <1>2, <1>3
    <2>2. \A k \in 1..Len(out'[s]) :
             out'[s][k] = i \/ (k \in 1..Len(out[s]) /\ out'[s][k] = out[s][k])
      BY <1>2, <2>1, AppendElement
    <2> QED BY <1>3, <2>1, <2>2 DEF WithinLimits
  <1>4. ASSUME NEW s \in Side, wire[s] # <<>>, wire' = [wire EXCEPT ![s] = Tail(@)],
               UNCHANGED out
        PROVE  WithinLimits'
    <2>1. wire'[s] = Tail(wire[s]) /\ \A t \in Side : t # s => wire'[t] = wire[t]
      BY <1>2, <1>4
    <2>2. \A k \in 1..Len(wire'[s]) :
             k + 1 \in 1..Len(wire[s]) /\ wire'[s][k] = wire[s][k + 1]
      BY <1>2, <1>4, <2>1, TailElement
    <2> QED BY <1>4, <2>1, <2>2 DEF WithinLimits
  <1>5. ASSUME NEW s \in Side, Transmit(s) PROVE WithinLimits'
    <2>1. /\ out[s] # <<>>
          /\ wire' = [wire EXCEPT ![s] = Append(@, Head(out[s]))]
          /\ out' = [out EXCEPT ![s] = Tail(@)]
      BY <1>5 DEF Transmit, Drain
    <2>2. /\ 1 \in 1..Len(out[s]) /\ Head(out[s]) = out[s][1] /\ Head(out[s]) \in Item
          /\ \A k \in 1..Len(Tail(out[s])) :
                k + 1 \in 1..Len(out[s]) /\ Tail(out[s])[k] = out[s][k + 1]
      BY <1>2, <2>1, TailElement
    <2>3. \A k \in 1..Len(Append(wire[s], Head(out[s]))) :
             \/ Append(wire[s], Head(out[s]))[k] = Head(out[s])
             \/ k \in 1..Len(wire[s]) /\ Append(wire[s], Head(out[s]))[k] = wire[s][k]
      BY <1>2, <2>2, AppendElement
    <2>4. /\ out'[s] = Tail(out[s]) /\ wire'[s] = Append(wire[s], Head(out[s]))
          /\ \A t \in Side : t # s => out'[t] = out[t] /\ wire'[t] = wire[t]
      BY <1>2, <2>1
    <2>5. \A k \in 1..Len(out'[s]) : checked_bytes_len(out'[s][k].pkt.len)
      BY <2>2, <2>4 DEF WithinLimits
    <2>6. \A k \in 1..Len(wire'[s]) : checked_bytes_len(wire'[s][k].pkt.len)
      BY <2>2, <2>3, <2>4 DEF WithinLimits
    <2> QED BY <2>4, <2>5, <2>6 DEF WithinLimits
  <1>6. ASSUME NEW s \in Side, NEW p \in packet[s],
               WritePacket(s, p) \/ WriteInterrupted(s, p)
        PROVE  WithinLimits'
    <2>1. p \in Packet /\ Whole(p) \in Item /\ Cut(p) \in Item
      BY ItemType DEF TypeOK
    <2>2. checked_bytes_len(p.len)
      BY <1>6, CheckedLimit DEF WritePacket, WriteInterrupted
    <2>3. Whole(p).pkt = p /\ Cut(p).pkt = p
      BY DEF Whole, Cut
    <2>4. \/ UNCHANGED <<out, wire>>
          \/ out' = [out EXCEPT ![s] = Append(@, Whole(p))] /\ UNCHANGED wire
          \/ out' = [out EXCEPT ![s] = Append(@, Cut(p))] /\ UNCHANGED wire
      BY <1>6 DEF WritePacket, WriteInterrupted
    <2> QED BY <1>1, <1>3, <2>1, <2>2, <2>3, <2>4
  <1>7. ASSUME NEW s \in Side, SendStep(s) PROVE WithinLimits'
    <2>1. CASE Start(s) \/ SendTooLarge(s) \/ Flush(s)
      BY <1>1, <2>1 DEF Start, SendTooLarge, WriteTooLarge, Flush, Flushed, layerVars
    <2>2. CASE Write(s)
      BY <1>6, <2>2 DEF Write
    <2>3. CASE SendIO(s) \/ CancelSend(s)
      BY <1>1, <1>6, <2>3 DEF SendIO, CancelSend, StopSend, layerVars
    <2> QED BY <1>7, <2>1, <2>2, <2>3 DEF SendStep
  <1>8. ASSUME NEW s \in Side, RecvStep(s) PROVE WithinLimits'
    <2>1. \/ UNCHANGED <<out, wire>>
          \/ Incoming(s) # <<>> /\ DropItem(s) /\ UNCHANGED out
      BY <1>8 DEF RecvStep, Read, ReadGarbage, ReadOn, RecvRefuses, RecvIO, CancelRecv,
            ReadPacket, Misread, MisreadOn, ReadTooLarge, ReadInterrupted,
            Aligned, Misaligned
    <2>2. Peer(s) \in Side
      BY PeerFacts
    <2> QED BY <1>1, <1>4, <2>1, <2>2 DEF Incoming, DropItem
  <1>9. ASSUME NEW s \in Side, Configure(s) PROVE WithinLimits'
    BY <1>1, <1>9 DEF Configure, set_config
  <1>10. CASE LoseConnection \/ UNCHANGED vars
    BY <1>1, <1>10 DEF LoseConnection, Disconnect, vars, layerVars
  <1> QED BY <1>5, <1>7, <1>8, <1>9, <1>10 DEF Next

\* With one limit a packet that has been written is never too large to read.
LEMMA NeverRefused ==
    ASSUME TypeOK, InTransit, WithinLimits, OneLimit,
           NEW s \in Side, Peer(s) \notin reported
    PROVE  ~ReadTooLarge(s) /\ ~Misread(s)
  <1>1. Peer(s) \in Side
    BY PeerFacts
  <1>2. ASSUME Incoming(s) # <<>>
        PROVE  checked_bytes_len(Head(Incoming(s)).pkt.len)
    <2>1. wire[Peer(s)] \in Seq(Item)
      BY <1>1, StreamType DEF LayerType
    <2>2. 1 \in 1..Len(wire[Peer(s)]) /\ Head(Incoming(s)) = wire[Peer(s)][1]
      BY <1>2, <2>1, TailElement DEF Incoming
    <2> QED BY <1>1, <2>2 DEF WithinLimits
  <1>3. ASSUME NEW n, checked_bytes_len(n) PROVE check_bytes_len(s, n)
    <2>1. PICK c \in Config : n <= c.max_packet_size
      BY <1>3 DEF checked_bytes_len
    <2>2. CONFIG[s] \in Config
      BY DEF TypeOK
    <2>3. c.max_packet_size = CONFIG[s].max_packet_size
      BY <2>1, <2>2 DEF OneLimit
    <2> QED BY <2>1, <2>3 DEF check_bytes_len, get_max_packet_size
  <1>4. ~ReadTooLarge(s)
    BY <1>2, <1>3 DEF ReadTooLarge, Aligned
  <1> QED BY <1>4, NotMisaligned DEF Misread

\* Faults are counted and never forgotten.
LEMMA FaultsGrow ==
    ASSUME TypeOK, [Next]_vars
    PROVE  faults \in Nat /\ faults' \in Nat /\ faults <= faults'
  <1>1. faults \in Nat
    BY PlainAssumption DEF TypeOK
  <1>2. faults' = faults \/ faults' = faults + 1
    BY DEF Next, SendStep, RecvStep, Start, Write, SendTooLarge, Flush, SendIO, CancelSend,
           Read, ReadGarbage, ReadOn, RecvRefuses, RecvIO, CancelRecv, RecvOk,
           Transmit, Configure, LoseConnection, Fault, vars, plainVars
  <1> QED BY <1>1, <1>2

\* Only a fault takes the connection down, and with one limit only a fault
\* makes a call fail on what has been written.
LEMMA FaultsNext ==
    ASSUME TypeOK, InTransit, WithinLimits, OnlyFaults, [Next]_vars
    PROVE  OnlyFaults'
  <1>1. faults \in Nat /\ faults' \in Nat /\ faults <= faults'
    BY FaultsGrow
  <1>2. Fault => faults' > 0
    BY <1>1 DEF Fault
  <1>3. ~up' => faults' > 0
    <2>1. CASE up' = up
      BY <1>1, <2>1 DEF OnlyFaults
    <2>2. up' = up \/ Fault
      BY DEF Next, SendStep, RecvStep, Start, Write, SendTooLarge, Flush, SendIO,
             CancelSend, StopSend, Read, ReadGarbage, ReadOn, RecvRefuses, RecvIO,
             CancelRecv, Transmit, Configure, LoseConnection, vars, layerVars,
             WritePacket, WriteTooLarge, WriteInterrupted, Flushed, ReadPacket, Misread,
             MisreadOn, ReadTooLarge, ReadInterrupted, Drain, set_config
    <2> QED BY <1>2, <2>1, <2>2
  <1>4. ASSUME OneLimit, faults' = 0 PROVE reported' = {}
    <2>1. faults = 0 /\ reported = {} /\ up /\ ~Fault
      BY <1>1, <1>2, <1>4 DEF OnlyFaults
    <2>2. ASSUME NEW s \in Side, SendStep(s) PROVE UNCHANGED reported
      BY <2>1, <2>2 DEF SendStep, Start, Write, SendTooLarge, Flush, SendIO, CancelSend
    <2>3. ASSUME NEW s \in Side, RecvStep(s) PROVE UNCHANGED reported
      <3>1. ~ReadTooLarge(s) /\ ~Misread(s)
        BY <1>4, <2>1, NeverRefused
      <3> QED BY <2>1, <2>3, <3>1 DEF RecvStep, Read, ReadGarbage, ReadOn, RecvRefuses,
                 RecvIO, CancelRecv, RecvOk, plainVars
    <2>4. ASSUME NEW s \in Side, Transmit(s) \/ Configure(s) PROVE UNCHANGED reported
      BY <2>4 DEF Transmit, Configure, plainVars
    <2> QED BY <2>1, <2>2, <2>3, <2>4 DEF Next, LoseConnection, vars, plainVars
  <1> QED BY <1>3, <1>4 DEF OnlyFaults

-----------------------------------------------------------------------------
(* The theorems *)

\* At the beginning nothing is in transit and nothing has failed.
LEMMA InvInit == Init => IInv
  <1> SUFFICES ASSUME Init PROVE IInv
    OBVIOUS
  <1>1. TypeOK
    BY TypeInit
  <1>2. \A s \in Side : /\ out[s] = <<>> /\ wire[s] = <<>>
                        /\ got[s] = <<>> /\ sent[s] = <<>>
                        /\ skew[s] = FALSE /\ buffer[s] = {} /\ sending[s] = "idle"
    BY DEF Init, InitLayer
  <1>3. Len(<<>>) = 0
    OBVIOUS
  <1>4. Carried(<<>>, <<>>, <<>>, <<>>)
    BY <1>3 DEF Carried
  <1>5. InTransit
    BY <1>2, <1>4, PeerFacts DEF InTransit
  <1>6. RawWhole
    BY <1>2, <1>3 DEF RawWhole
  <1>7. WithinLimits
    BY <1>2, <1>3 DEF WithinLimits
  <1>8. OnlyFaults
    BY DEF Init, InitLayer, OnlyFaults
  <1> QED BY <1>1, <1>5, <1>6, <1>7, <1>8 DEF IInv

\* Every step keeps the invariant.
LEMMA InvNext == IInv /\ [Next]_vars => IInv'
  BY TypeNext, TransitNext, WholeNext, LimitsNext, FaultsNext DEF IInv

\* In every reachable state, as long as no call has failed on the messages of
\* one side, they are all somewhere between its writer and the peer's caller,
\* whole and in order; and raw never holds less than a whole message to send.
THEOREM Invariant == Spec => []IInv
  BY InvInit, InvNext, PTL DEF Spec

\* What has been returned is the beginning of what was written.
LEMMA InvFaithful == IInv => Faithful
  <1> SUFFICES ASSUME IInv, NEW s \in Side, Peer(s) \notin reported
               PROVE  Prefix(got[s], sent[Peer(s)])
    BY DEF Faithful
  <1> DEFINE n == Len(got[s])
             l == Len(wire[Peer(s)])
             k == Len(out[Peer(s)])
             j == Len(sent[Peer(s)])
  <1>1. Peer(s) \in Side /\ Peer(Peer(s)) = s
    BY PeerFacts
  <1>2. n \in Nat /\ l \in Nat /\ k \in Nat /\ j \in Nat
    BY <1>1 DEF IInv, TypeOK
  <1>3. Carried(got[s], wire[Peer(s)], out[Peer(s)], sent[Peer(s)])
    BY <1>1 DEF IInv, InTransit
  <1>4. n + l + k = j
    BY <1>3 DEF Carried
  <1>5. \A i \in 1..n : got[s][i] = sent[Peer(s)][i]
    BY <1>3 DEF Carried
  <1> HIDE DEF n, l, k, j
  <1>6. n <= j
    BY <1>2, <1>4
  <1> QED BY <1>5, <1>6 DEF Prefix, n, j

\* Only a call that fails may precede wrong data: until then each side returns
\* the packets of its peer as they were written, in order, without a gap.
THEOREM FaithfulUntilReported == Spec => []Faithful
  BY Invariant, InvFaithful, PTL

\* raw: until a call has failed every message received is a whole message of
\* the sender, though TooLarge was returned and the same Buf sent again.
THEOREM RawMessagesWhole ==
    ASSUME ~Compressed
    PROVE  Spec => []WholeMessages
  <1>1. IInv => WholeMessages
    <2> SUFFICES ASSUME IInv, NEW s \in Side, Peer(s) \notin reported,
                        NEW i \in 1..Len(got[s])
                 PROVE  got[s][i].part = "all"
      BY DEF WholeMessages
    <2>1. Peer(s) \in Side
      BY PeerFacts
    <2>2. Prefix(got[s], sent[Peer(s)])
      BY InvFaithful DEF Faithful
    <2>3. Len(got[s]) \in Nat /\ Len(sent[Peer(s)]) \in Nat
      BY <2>1 DEF IInv, TypeOK
    <2>4. got[s][i] = sent[Peer(s)][i]
      BY <2>2 DEF Prefix
    <2>5. i \in 1..Len(sent[Peer(s)])
      BY <2>2, <2>3 DEF Prefix
    <2> QED BY <2>1, <2>4, <2>5 DEF IInv, RawWhole
  <1> QED BY Invariant, <1>1, PTL

\* What the abstract channel does in a step.
LEMMA ChannelStep ==
    ASSUME IInv, [Next]_vars, OneLimit, faults = 0
    PROVE  [Channel!Next]_(Channel!chanVars)
  <1>1. TypeOK /\ InTransit /\ WithinLimits /\ reported = {}
    BY DEF IInv, OnlyFaults
  <1>2. ASSUME NEW s \in Side, Write(s) PROVE Channel!Next
    <2>1. PICK p \in packet[s] : sent' = [sent EXCEPT ![s] = Append(@, p.payload)]
      BY <1>2 DEF Write
    <2>2. p.payload \in Payload
      BY <1>1 DEF TypeOK, Packet
    <2>3. UNCHANGED got
      BY <1>2 DEF Write
    <2>4. s \in Channel!End
      BY DEF Side, Channel!End
    <2>5. Channel!Send(s, p.payload)
      BY <2>1, <2>3 DEF Channel!Send
    <2> QED BY <2>2, <2>4, <2>5 DEF Channel!Next
  <1>3. ASSUME NEW s \in Side, Read(s) PROVE Channel!Next
    <2> DEFINE p == Peer(s)
    <2>1. p \in Side /\ Peer(p) = s
      BY PeerFacts
    <2>2. /\ wire[p] # <<>>
          /\ got' = [got EXCEPT ![s] = Append(@, Head(wire[p]).pkt.payload)]
          /\ UNCHANGED sent
      BY <1>3 DEF Read, ReadPacket, Aligned, Incoming, RecvOk
    <2>3. /\ got[s] \in Seq(Received) /\ wire[p] \in Seq(Item)
          /\ out[p] \in Seq(Item) /\ sent[p] \in Seq(Payload)
      BY <1>1, <2>1, DirectionTypes
    <2>4. Carried(got[s], wire[p], out[p], sent[p])
      BY <1>1, <2>1 DEF InTransit
    <2>5. /\ Len(got[s]) < Len(sent[p])
          /\ Head(wire[p]).pkt.payload = sent[p][Len(got[s]) + 1]
      BY <2>2, <2>3, <2>4, CarriedRead
    <2>6. got' = [got EXCEPT ![s] = Append(@, sent[p][Len(@) + 1])]
      BY <2>2, <2>5
    <2>7. s \in Channel!End /\ Channel!Other(s) = p
      BY DEF Side, Peer, Channel!End, Channel!Other
    <2> HIDE DEF p
    <2>8. Channel!Deliver(s)
      BY <2>2, <2>5, <2>6, <2>7 DEF Channel!Deliver
    <2> QED BY <2>7, <2>8 DEF Channel!Next
  <1>4. ASSUME UNCHANGED <<sent, got>> PROVE UNCHANGED Channel!chanVars
    BY <1>4 DEF Channel!chanVars
  <1>5. ASSUME NEW s \in Side, SendStep(s), ~Write(s) PROVE UNCHANGED <<sent, got>>
    BY <1>5 DEF SendStep, Start, SendTooLarge, Flush, SendIO, CancelSend, EndSend
  <1>6. ASSUME NEW s \in Side, RecvStep(s), ~Read(s) PROVE UNCHANGED <<sent, got>>
    <2>1. ~Misaligned(s)
      BY <1>1, NotMisaligned
    <2> QED BY <1>6, <2>1 DEF RecvStep, ReadGarbage, Misread, ReadOn, MisreadOn,
               RecvRefuses, RecvIO, CancelRecv, RecvFails
  <1>7. ASSUME NEW s \in Side, Transmit(s) \/ Configure(s) PROVE UNCHANGED <<sent, got>>
    BY <1>7 DEF Transmit, Configure, plainVars
  <1>8. CASE LoseConnection \/ UNCHANGED vars
    BY <1>4, <1>8 DEF LoseConnection, vars, plainVars
  <1> QED BY <1>2, <1>3, <1>4, <1>5, <1>6, <1>7, <1>8 DEF Next

\* With one limit for both sides and no fault the two directions implement the
\* abstract channel.
THEOREM ImplementsMessageChannel ==
    ASSUME OneLimit, MaxFaults = 0
    PROVE  Spec => Refinement
  <1>1. Init => Channel!Init
    BY DEF Init, Channel!Init, Side, Channel!End
  <1>2. IInv => faults = 0
    BY DEF IInv, TypeOK
  <1>3. IInv /\ [Next]_vars => [Channel!Next]_(Channel!chanVars)
    BY <1>2, ChannelStep
  <1> QED BY <1>1, <1>3, Invariant, PTL DEF Spec, Refinement, Channel!Spec
=============================================================================
