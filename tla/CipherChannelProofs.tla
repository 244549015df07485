------------------------ MODULE CipherChannelProofs ------------------------
(***************************************************************************)
(* Proofs about CipherChannel, for every set of messages, every limit and  *)
(* every bound.                                                            *)
(***************************************************************************)
EXTENDS CipherChannel, PacketLayerProofs

-----------------------------------------------------------------------------
(* Operators *)

\* What Packets builds are packets with the nonces it was given.
LEMMA PacketsType ==
    ASSUME NEW s \in Side, CONFIG \in [Side -> Config],
           NEW m \in Message, NEW k \in Int, NEW x \in Int,
           NEW p \in Packets(s, m, k, x)
    PROVE  p \in Packet /\ p.key = k /\ p.next = x
  <1>1. CASE Compressed
    <2>1. PICK d \in Deflate(get_compression(s), NonceLen + Size[m]) :
             p = [key |-> k, next |-> x, msg |-> m, len |-> d + TagLen]
      BY <1>1 DEF Packets, CompressEncryptPackets
    <2>2. get_compression(s) \in Level
      BY LayerAssumption DEF get_compression
    <2>3. d \in Nat
      BY <2>2, CipherAssumption
    <2>4. d + TagLen \in Nat
      BY <2>3 DEF TagLen
    <2> QED BY <2>1, <2>4 DEF Packet
  <1>2. CASE ~Compressed
    <2>1. p = [key |-> k, next |-> x, msg |-> m, len |-> NonceLen + Size[m] + TagLen]
      BY <1>2 DEF Packets, EncryptPackets
    <2>2. NonceLen + Size[m] + TagLen \in Nat
      BY CipherAssumption DEF NonceLen, TagLen
    <2> QED BY <2>1, <2>2 DEF Packet
  <1> QED BY <1>1, <1>2

-----------------------------------------------------------------------------
(* Types *)

\* The running send has sealed its packet before it writes it.
SealedType == \A s \in Side : sending[s] = "sealed" => sealed[s] # <<>>

TypeInv == TypeOK /\ SealedType

\* The initial states are well typed.
LEMMA TypeInit == Init => TypeInv
  BY LayerAssumption DEF Init, InitLayer, TypeInv, TypeOK, SealedType, Result

\* Every step keeps every variable well typed.
LEMMA TypeNext == TypeInv /\ [Next]_vars => TypeInv'
  <1> SUFFICES ASSUME TypeInv, [Next]_vars PROVE TypeInv'
    OBVIOUS
  <1> USE DEF TypeInv, TypeOK, SealedType
  <1>1. ASSUME UNCHANGED vars PROVE TypeInv'
    BY <1>1 DEF vars, layerVars, cipherVars
  <1>2. ASSUME NEW s \in Side, Seal(s) PROVE TypeInv'
    <2>1. PICK m \in Message : \E p \in Packets(s, m, cipher[s], fresh) :
             sealed' = [sealed EXCEPT ![s] = Append(@, p)]
      BY <1>2 DEF Seal
    <2>2. PICK p \in Packets(s, m, cipher[s], fresh) :
             sealed' = [sealed EXCEPT ![s] = Append(@, p)]
      BY <2>1
    <2>3. p \in Packet
      BY PacketsType, cipher[s] \in Int, fresh \in Int
    <2>4. sealed' \in [Side -> Seq(Packet)] /\ sealed'[s] # <<>>
      BY <2>2, <2>3, SequenceUpdates, AppendProperties
    <2>5. \A t \in Side : t # s => sealed'[t] = sealed[t]
      BY <2>2
    <2>6. /\ cipher' \in [Side -> Int]
          /\ fresh' \in Nat
          /\ sending' \in [Side -> {"idle", "sealed", "flushing"}]
          /\ \A t \in Side : t # s => sending'[t] = sending[t]
      BY <1>2 DEF Seal
    <2>7. UNCHANGED <<layerVars, opening, sendRes, recvRes, delivered, okSends, faults>>
      BY <1>2 DEF Seal
    <2>8. SealedType'
      BY <2>4, <2>5, <2>6
    <2> QED BY <2>4, <2>6, <2>7, <2>8 DEF layerVars
  <1>3. ASSUME NEW s \in Side, SealBroken(s) PROVE TypeInv'
    BY <1>3 DEF SealBroken, layerVars, Result
  <1>4. ASSUME NEW s \in Side, SealFails(s) PROVE TypeInv'
    BY <1>4 DEF SealFails, layerVars, Result, None, Fault
  <1>5. ASSUME NEW s \in Side, sending[s] = "sealed"
        PROVE  Sealed(s) \in Packet /\ Whole(Sealed(s)) \in Item /\ Cut(Sealed(s)) \in Item
    BY <1>5 DEF Sealed, Whole, Cut, Item
  <1>6. ASSUME NEW s \in Side, Write(s) PROVE TypeInv'
    <2>1. out' \in [Side -> Seq(Item)]
      BY <1>5, <1>6, SequenceUpdates DEF Write, WritePacket
    <2> QED BY <1>6, <2>1 DEF Write, WritePacket
  <1>7. ASSUME NEW s \in Side, SendTooLarge(s) PROVE TypeInv'
    BY <1>7 DEF SendTooLarge, WriteTooLarge, EndSend, layerVars, Result
  <1>8. ASSUME NEW s \in Side, Flush(s) PROVE TypeInv'
    BY <1>8 DEF Flush, Flushed, EndSend, layerVars, Result
  <1>9. ASSUME NEW s \in Side, StopSend(s)
        PROVE  /\ out' \in [Side -> Seq(Item)]
               /\ UNCHANGED <<CONFIG, wire, skew, up>>
    <2>1. CASE sending[s] = "sealed" /\ WriteInterrupted(s, Sealed(s))
      <3>1. Cut(Sealed(s)) \in Item
        BY <1>5, <2>1
      <3>2. [out EXCEPT ![s] = Append(@, Cut(Sealed(s)))] \in [Side -> Seq(Item)]
        BY <3>1, SequenceUpdates
      <3>3. out' \in [Side -> Seq(Item)]
        BY <2>1, <3>2 DEF WriteInterrupted
      <3> QED BY <2>1, <3>3 DEF WriteInterrupted
    <2>2. CASE UNCHANGED layerVars
      BY <2>2 DEF layerVars
    <2> QED BY <1>9, <2>1, <2>2 DEF StopSend
  <1>10. ASSUME NEW s \in Side, SendIO(s) PROVE TypeInv'
    BY <1>9, <1>10 DEF SendIO, EndSend, Result
  <1>11. ASSUME NEW s \in Side, CancelSend(s) PROVE TypeInv'
    BY <1>9, <1>11 DEF CancelSend, EndSend, Fault, Result
  <1>12. ASSUME NEW s \in Side, Incoming(s) # <<>>
         PROVE  /\ Head(Incoming(s)) \in Item
                /\ Cut(Head(Incoming(s)).pkt) \in Item
                /\ [wire EXCEPT ![Peer(s)] = Tail(@)] \in [Side -> Seq(Item)]
    <2>1. Peer(s) \in Side
      BY PeerFacts
    <2> QED BY <1>12, <2>1, SequenceUpdates DEF Incoming, Cut, Item
  <1>13. ASSUME NEW s \in Side, ReadPacket(s) \/ Misread(s) \/ MisreadOn(s)
                                   \/ ReadTooLarge(s) \/ ReadInterrupted(s)
         PROVE  /\ wire' \in [Side -> Seq(Item)]
                /\ skew' \in [Side -> BOOLEAN]
                /\ UNCHANGED <<CONFIG, out, up>>
    BY <1>12, <1>13 DEF ReadPacket, Misread, MisreadOn, ReadTooLarge,
          ReadInterrupted, DropItem, Aligned, Misaligned
  <1>14. ASSUME NEW s \in Side, Read(s) PROVE TypeInv'
    <2>1. Head(Incoming(s)) \in Item
      BY <1>12, <1>14 DEF Read, ReadPacket, Aligned
    <2> QED BY <1>13, <1>14, <2>1 DEF Read, Recv
  <1>15. ASSUME NEW s \in Side, ReadGarbage(s) PROVE TypeInv'
    <2>1. Cut(Head(Incoming(s)).pkt) \in Item
      BY <1>12, <1>15 DEF ReadGarbage, Misread, Misaligned
    <2> QED BY <1>13, <1>15, <2>1 DEF ReadGarbage, Recv
  <1>16. ASSUME NEW s \in Side, ReadOn(s) \/ RecvTooLarge(s) \/ RecvIO(s)
         PROVE  TypeInv'
    BY <1>13, <1>16 DEF ReadOn, RecvTooLarge, RecvIO, Recv, Result
  <1>17. ASSUME NEW s \in Side, CancelRecv(s) PROVE TypeInv'
    BY <1>13, <1>17 DEF CancelRecv, Recv, Fault, Result
  <1>18. ASSUME NEW s \in Side, OpenOk(s) PROVE TypeInv'
    <2>1. PICK i \in opening[s] :
             /\ cipher' = [cipher EXCEPT ![s] = i.pkt.next]
             /\ delivered' = [delivered EXCEPT ![s] = Append(@, i.pkt)]
      BY <1>18 DEF OpenOk
    <2>2. i.pkt \in Packet /\ i.pkt.next \in Int
      BY DEF Item, Packet
    <2>3. delivered' \in [Side -> Seq(Packet)]
      BY <2>1, <2>2, SequenceUpdates
    <2> QED BY <1>18, <2>1, <2>2, <2>3 DEF OpenOk, OpenItem, layerVars, Result
  <1>19. ASSUME NEW s \in Side, OpenFails(s) \/ OpenBroken(s) PROVE TypeInv'
    <2>1. "AES" \in Result /\ "Broken" \in Result /\ None \in Int
      BY DEF Result, None
    <2>2. \/ cipher' = [cipher EXCEPT ![s] = None]
          \/ cipher' = cipher
      BY <1>19 DEF OpenFails, OpenBroken
    <2>3. \/ recvRes' = [recvRes EXCEPT ![s] = "AES"]
          \/ recvRes' = [recvRes EXCEPT ![s] = "Broken"]
      BY <1>19 DEF OpenFails, OpenBroken
    <2>4. cipher' \in [Side -> Int]
      BY <2>1, <2>2, UpdateType
    <2>5. recvRes' \in [Side -> Result]
      BY <2>1, <2>3, UpdateType
    <2>6. opening' \in [Side -> SUBSET Item]
      BY <1>19 DEF OpenFails, OpenBroken, OpenItem
    <2>7. UNCHANGED <<layerVars, fresh, sending, sendRes, sealed, delivered,
                      okSends, faults>>
      BY <1>19 DEF OpenFails, OpenBroken, OpenItem
    <2> QED BY <2>4, <2>5, <2>6, <2>7 DEF layerVars
  <1>20. ASSUME NEW s \in Side, Transmit(s) PROVE TypeInv'
    <2>1. wire' \in [Side -> Seq(Item)] /\ out' \in [Side -> Seq(Item)]
      BY <1>20, SequenceUpdates DEF Transmit, Drain
    <2> QED BY <1>20, <2>1 DEF Transmit, Drain, cipherVars
  <1>21. ASSUME NEW s \in Side, Configure(s) PROVE TypeInv'
    BY <1>21 DEF Configure, set_config, cipherVars
  <1>22. ASSUME LoseConnection PROVE TypeInv'
    <2>1. up' \in BOOLEAN
      BY <1>22 DEF LoseConnection, Disconnect
    <2>2. faults' \in Nat
      BY <1>22 DEF LoseConnection, Fault
    <2>3. UNCHANGED <<CONFIG, out, wire, skew, cipher, fresh, sending,
                      opening, sendRes, recvRes, sealed, delivered, okSends>>
      BY <1>22 DEF LoseConnection, Disconnect
    <2> QED BY <2>1, <2>2, <2>3
  <1> QED
    BY <1>1, <1>2, <1>3, <1>4, <1>6, <1>7, <1>8, <1>10, <1>11, <1>14, <1>15,
       <1>16, <1>17, <1>18, <1>19, <1>20, <1>21, <1>22
    DEF Next, SendStep, RecvStep

\* Every reachable state of the channel is well typed.
THEOREM TypeCorrect == Spec => []TypeOK
  <1>1. TypeInv => TypeOK
    BY DEF TypeInv
  <1> QED BY TypeInit, TypeNext, <1>1, PTL DEF Spec

-----------------------------------------------------------------------------
(* What travels was sealed *)

\* Only Seal touches the history of sealed packets, and it adds one.
LEMMA SealedStep ==
    ASSUME TypeInv, [Next]_vars
    PROVE  \/ sealed' = sealed
           \/ \E s \in Side : Seal(s)
  BY DEF Next, SendStep, RecvStep, vars, layerVars, cipherVars,
         SealBroken, SealFails, Write, SendTooLarge, Flush, SendIO, CancelSend,
         EndSend, Read, ReadGarbage, ReadOn, RecvTooLarge, RecvIO, CancelRecv,
         Recv, OpenOk, OpenFails, OpenBroken, OpenItem, Transmit, Configure,
         LoseConnection

\* Seal appends one packet, built from the nonce in the Cipher, to one side's
\* history.
LEMMA SealEffect ==
    ASSUME TypeInv, NEW s \in Side, Seal(s)
    PROVE  \E p \in Packet :
              /\ p.key = cipher[s] /\ p.next = fresh
              /\ Len(sealed'[s]) = Len(sealed[s]) + 1
              /\ sealed'[s][Len(sealed[s]) + 1] = p
              /\ \A j \in 1..Len(sealed[s]) : sealed'[s][j] = sealed[s][j]
              /\ sealed'[Peer(s)] = sealed[Peer(s)]
  <1>1. PICK m \in Message : \E p \in Packets(s, m, cipher[s], fresh) :
           sealed' = [sealed EXCEPT ![s] = Append(@, p)]
    BY DEF Seal
  <1>2. PICK p \in Packets(s, m, cipher[s], fresh) :
           sealed' = [sealed EXCEPT ![s] = Append(@, p)]
    BY <1>1
  <1>3. /\ cipher[s] \in Int /\ fresh \in Int /\ sealed \in [Side -> Seq(Packet)]
        /\ CONFIG \in [Side -> Config]
    BY DEF TypeInv, TypeOK
  <1>4. p \in Packet /\ p.key = cipher[s] /\ p.next = fresh
    BY <1>3, PacketsType
  <1>5. sealed'[s] = Append(sealed[s], p) /\ sealed'[Peer(s)] = sealed[Peer(s)]
    BY <1>2, <1>3, PeerFacts
  <1> QED BY <1>3, <1>4, <1>5, AppendElement

\* What has been sealed stays sealed.
LEMMA SealedStays ==
    ASSUME TypeInv, [Next]_vars, NEW s \in Side, NEW p, IsSealed(s, p)
    PROVE  IsSealed(s, p)'
  <1>1. CASE sealed' = sealed
    BY <1>1 DEF IsSealed
  <1>2. CASE \E t \in Side : Seal(t)
    <2>1. PICK t \in Side : Seal(t)
      BY <1>2
    <2>2. /\ Len(sealed[s]) \in Nat
          /\ Len(sealed'[s]) >= Len(sealed[s]) /\ Len(sealed'[s]) \in Nat
          /\ \A j \in 1..Len(sealed[s]) : sealed'[s][j] = sealed[s][j]
      <3>1. Len(sealed[s]) \in Nat
        BY DEF TypeInv, TypeOK
      <3>2. CASE s = t
        BY <2>1, <3>1, <3>2, SealEffect
      <3>3. CASE s = Peer(t)
        BY <2>1, <3>1, <3>3, SealEffect
      <3> QED BY <3>2, <3>3, PeerFacts
    <2> QED BY <2>2 DEF IsSealed
  <1> QED BY <1>1, <1>2, SealedStep

\* Every step leaves in the streams and in a running recv only what was there
\* or what the sender has just written.
Carries ==
    \A s \in Side :
        /\ \A k \in 1..Len(out'[s]) : IsSealed(s, out'[s][k].pkt)
        /\ \A k \in 1..Len(wire'[s]) : IsSealed(s, wire'[s][k].pkt)
        /\ \A i \in opening'[Peer(s)] : IsSealed(s, i.pkt)

\* A step moves packets from a writer to the wire, to a reader or away; apart
\* from the one Write takes from the history it brings in no packet.
LEMMA CarriesStep ==
    ASSUME TypeInv, Genuine, [Next]_vars
    PROVE  Carries
  <1>1. CASE UNCHANGED <<out, wire, opening>>
    BY <1>1 DEF Genuine, Carries
  <1>2. ASSUME NEW s \in Side,
               \/ out' = [out EXCEPT ![s] = Append(@, Whole(Sealed(s)))]
               \/ out' = [out EXCEPT ![s] = Append(@, Cut(Sealed(s)))],
               sending[s] = "sealed",
               UNCHANGED <<wire, opening>>
        PROVE  Carries
    <2>1. sealed[s] \in Seq(Packet) /\ sealed[s] # <<>>
      BY <1>2 DEF TypeInv, TypeOK, SealedType
    <2>2. Len(sealed[s]) \in 1..Len(sealed[s]) /\ Sealed(s) \in Packet
      BY <2>1 DEF Sealed
    <2>3. IsSealed(s, Sealed(s))
      BY <2>2 DEF IsSealed, Sealed
    <2>4. \A t \in Side \ {s} : out'[t] = out[t]
      BY <1>2 DEF TypeInv, TypeOK
    <2>5. PICK i \in Item : i.pkt = Sealed(s) /\ out'[s] = Append(out[s], i)
      BY <1>2, <2>2 DEF TypeInv, TypeOK, Item, Whole, Cut
    <2>6. \A k \in 1..Len(out'[s]) :
             out'[s][k] = i \/ (k \in 1..Len(out[s]) /\ out'[s][k] = out[s][k])
      BY <2>5, AppendElement DEF TypeInv, TypeOK
    <2>7. \A k \in 1..Len(out'[s]) : IsSealed(s, out'[s][k].pkt)
      BY <2>3, <2>5, <2>6 DEF Genuine
    <2> QED BY <1>2, <2>4, <2>7 DEF Genuine, Carries
  <1>3. ASSUME NEW s \in Side, DropItem(s) \/ UNCHANGED wire,
               Incoming(s) # <<>> \/ UNCHANGED wire,
               \A i \in opening'[s] :
                  Incoming(s) # <<>> /\ i.pkt = Head(Incoming(s)).pkt,
               \A t \in Side \ {s} : opening'[t] = opening[t],
               UNCHANGED out
        PROVE  Carries
    <2>1. Peer(s) \in Side /\ Peer(Peer(s)) = s
      BY PeerFacts
    <2>2. wire \in [Side -> Seq(Item)]
      BY DEF TypeInv, TypeOK
    <2>3. Incoming(s) # <<>> =>
             1 \in 1..Len(wire[Peer(s)]) /\ Head(Incoming(s)) = wire[Peer(s)][1]
      BY <2>1, <2>2, TailElement DEF Incoming
    <2>4. \A i \in opening'[s] : IsSealed(Peer(s), i.pkt)
      BY <1>3, <2>1, <2>3 DEF Genuine
    <2>5. \A t \in Side : \A k \in 1..Len(wire'[t]) : IsSealed(t, wire'[t][k].pkt)
      <3>1. CASE UNCHANGED wire
        BY <3>1 DEF Genuine
      <3>2. CASE Incoming(s) # <<>> /\ DropItem(s)
        <4>1. wire'[Peer(s)] = Tail(wire[Peer(s)])
          BY <2>1, <2>2, <3>2 DEF DropItem
        <4>2. \A t \in Side : t # Peer(s) => wire'[t] = wire[t]
          BY <2>2, <3>2 DEF DropItem
        <4>3. wire[Peer(s)] \in Seq(Item) /\ wire[Peer(s)] # <<>>
          BY <2>1, <2>2, <3>2 DEF Incoming
        <4>4. \A k \in 1..Len(wire'[Peer(s)]) :
                 k + 1 \in 1..Len(wire[Peer(s)])
                 /\ wire'[Peer(s)][k] = wire[Peer(s)][k + 1]
          <5> DEFINE w == wire[Peer(s)]
          <5>1. w \in Seq(Item) /\ w # <<>> /\ wire'[Peer(s)] = Tail(w)
            BY <4>1, <4>3
          <5> HIDE DEF w
          <5>2. \A k \in 1..Len(Tail(w)) : k + 1 \in 1..Len(w) /\ Tail(w)[k] = w[k + 1]
            BY <5>1, TailElement
          <5> QED BY <5>1, <5>2 DEF w
        <4> QED BY <2>1, <4>2, <4>4 DEF Genuine
      <3> QED BY <1>3, <3>1, <3>2
    <2>6. \A t \in Side : \A i \in opening'[Peer(t)] : IsSealed(t, i.pkt)
      BY <1>3, <2>4, PeerFacts DEF Genuine
    <2> QED BY <1>3, <2>5, <2>6 DEF Genuine, Carries
  <1>4. ASSUME NEW s \in Side, UNCHANGED <<out, wire>>,
               opening' = [opening EXCEPT ![s] = {}]
        PROVE  Carries
    <2>1. \A t \in Side : \A i \in opening'[t] : i \in opening[t]
      BY <1>4 DEF TypeInv, TypeOK
    <2> QED BY <1>4, <2>1, PeerFacts DEF Genuine, Carries
  <1>5. ASSUME NEW s \in Side, Transmit(s) PROVE Carries
    <2>1. /\ out \in [Side -> Seq(Item)] /\ wire \in [Side -> Seq(Item)]
          /\ out[s] # <<>>
          /\ wire' = [wire EXCEPT ![s] = Append(@, Head(out[s]))]
          /\ out' = [out EXCEPT ![s] = Tail(@)]
          /\ UNCHANGED opening
      BY <1>5 DEF Transmit, Drain, cipherVars, TypeInv, TypeOK
    <2>2. /\ 1 \in 1..Len(out[s]) /\ Head(out[s]) = out[s][1]
          /\ \A k \in 1..Len(out'[s]) :
                k + 1 \in 1..Len(out[s]) /\ out'[s][k] = out[s][k + 1]
      BY <2>1, TailElement
    <2>3. Head(out[s]) \in Item
      BY <2>1, SequenceUpdates
    <2>4. \A k \in 1..Len(wire'[s]) :
             \/ wire'[s][k] = Head(out[s])
             \/ k \in 1..Len(wire[s]) /\ wire'[s][k] = wire[s][k]
      BY <2>1, <2>3, AppendElement
    <2>5. \A t \in Side : t # s => out'[t] = out[t] /\ wire'[t] = wire[t]
      BY <2>1
    <2>6. \A t \in Side : \A k \in 1..Len(out'[t]) : IsSealed(t, out'[t][k].pkt)
      BY <2>2, <2>5 DEF Genuine
    <2>7. \A t \in Side : \A k \in 1..Len(wire'[t]) : IsSealed(t, wire'[t][k].pkt)
      BY <2>2, <2>4, <2>5 DEF Genuine
    <2> QED BY <2>1, <2>6, <2>7 DEF Genuine, Carries
  <1>6. ASSUME NEW s \in Side, SendStep(s) PROVE Carries
    <2>1. CASE Seal(s) \/ SealBroken(s) \/ SealFails(s)
      BY <1>1, <2>1 DEF Seal, SealBroken, SealFails, layerVars
    <2>2. CASE Write(s)
      BY <1>2, <2>2 DEF Write, WritePacket
    <2>3. CASE SendTooLarge(s) \/ Flush(s)
      BY <1>1, <2>3 DEF SendTooLarge, WriteTooLarge, Flush, Flushed, EndSend, layerVars
    <2>4. CASE SendIO(s) \/ CancelSend(s)
      <3>1. UNCHANGED opening /\ StopSend(s)
        BY <2>4 DEF SendIO, CancelSend, EndSend
      <3>2. CASE sending[s] = "sealed" /\ WriteInterrupted(s, Sealed(s))
        BY <1>1, <1>2, <3>1, <3>2 DEF WriteInterrupted
      <3>3. CASE UNCHANGED layerVars
        BY <1>1, <3>1, <3>3 DEF layerVars
      <3> QED BY <3>1, <3>2, <3>3 DEF StopSend
    <2> QED BY <1>6, <2>1, <2>2, <2>3, <2>4 DEF SendStep
  <1>7. ASSUME NEW s \in Side, RecvStep(s) PROVE Carries
    <2>1. ASSUME NEW items, Recv(s, items)
          PROVE  opening'[s] = items /\ \A t \in Side \ {s} : opening'[t] = opening[t]
      BY <2>1 DEF Recv, TypeInv, TypeOK
    <2>2. CASE Read(s)
      <3>1. Incoming(s) # <<>> /\ DropItem(s) /\ UNCHANGED out
        BY <2>2 DEF Read, ReadPacket, Aligned
      <3>2. Recv(s, {Head(Incoming(s))})
        BY <2>2 DEF Read
      <3> QED BY <1>3, <2>1, <3>1, <3>2
    <2>3. CASE ReadGarbage(s)
      <3>1. Incoming(s) # <<>> /\ (DropItem(s) \/ UNCHANGED wire) /\ UNCHANGED out
        BY <2>3 DEF ReadGarbage, Misread, Misaligned
      <3>2. Recv(s, {Cut(Head(Incoming(s)).pkt)})
        BY <2>3 DEF ReadGarbage
      <3>3. \A i \in {Cut(Head(Incoming(s)).pkt)} : i.pkt = Head(Incoming(s)).pkt
        BY DEF Cut
      <3> QED BY <1>3, <2>1, <3>1, <3>2, <3>3
    <2>4. CASE ReadOn(s)
      BY <1>3, <2>1, <2>4 DEF ReadOn, MisreadOn, Misaligned
    <2>5. CASE RecvTooLarge(s) \/ RecvIO(s) \/ CancelRecv(s)
      <3>1. Recv(s, {})
        BY <2>5 DEF RecvTooLarge, RecvIO, CancelRecv
      <3>2. /\ UNCHANGED wire \/ (Incoming(s) # <<>> /\ DropItem(s))
            /\ UNCHANGED out
        BY <2>5 DEF RecvTooLarge, RecvIO, CancelRecv, ReadTooLarge, Misread,
              Misaligned, ReadInterrupted
      <3> QED BY <1>3, <2>1, <3>1, <3>2
    <2>6. CASE OpenOk(s) \/ OpenFails(s) \/ OpenBroken(s)
      BY <1>4, <2>6 DEF OpenOk, OpenFails, OpenBroken, OpenItem, layerVars
    <2> QED BY <1>7, <2>2, <2>3, <2>4, <2>5, <2>6 DEF RecvStep
  <1>8. ASSUME NEW s \in Side, Configure(s) PROVE Carries
    BY <1>1, <1>8 DEF Configure, set_config, cipherVars
  <1>9. ASSUME LoseConnection PROVE Carries
    BY <1>1, <1>9 DEF LoseConnection, Disconnect
  <1>10. CASE UNCHANGED vars
    BY <1>1, <1>10 DEF vars, layerVars, cipherVars
  <1> QED BY <1>5, <1>6, <1>7, <1>8, <1>9, <1>10 DEF Next

\* Every step keeps Genuine: nothing travels that its sender has not sealed.
LEMMA GenuineNext ==
    ASSUME TypeInv, Genuine, [Next]_vars
    PROVE  Genuine'
  <1>1. Carries
    BY CarriesStep
  <1>2. \A s \in Side : \A p : IsSealed(s, p) => IsSealed(s, p)'
    BY SealedStays
  <1> QED BY <1>1, <1>2 DEF Carries, Genuine

-----------------------------------------------------------------------------
(* The chain of nonces *)

CoreUnchanged == UNCHANGED <<cipher, fresh, sealed, delivered>>

\* A Cipher breaks: its nonce is gone and nothing else happens to the chain.
Breaks(s) ==
    /\ cipher' = [cipher EXCEPT ![s] = None]
    /\ fresh' \in Nat /\ fresh <= fresh'
    /\ UNCHANGED <<sealed, delivered>>

\* There are four kinds of steps as far as the chain is concerned.
LEMMA CoreStep ==
    ASSUME TypeInv, [Next]_vars
    PROVE  \/ CoreUnchanged
           \/ \E s \in Side : Seal(s) \/ Breaks(s) \/ OpenOk(s)
  <1>1. CASE UNCHANGED vars
    BY <1>1 DEF vars, cipherVars, CoreUnchanged
  <1>2. ASSUME NEW s \in Side, SendStep(s)
        PROVE  CoreUnchanged \/ Seal(s) \/ Breaks(s)
    <2>1. CASE SealFails(s)
      BY <2>1 DEF SealFails, Breaks, TypeInv, TypeOK
    <2>2. CASE SealBroken(s) \/ Write(s) \/ SendTooLarge(s) \/ Flush(s)
                  \/ SendIO(s) \/ CancelSend(s)
      BY <2>2 DEF SealBroken, Write, SendTooLarge, Flush, SendIO, CancelSend,
            EndSend, CoreUnchanged
    <2> QED BY <1>2, <2>1, <2>2 DEF SendStep
  <1>3. ASSUME NEW s \in Side, RecvStep(s)
        PROVE  CoreUnchanged \/ OpenOk(s) \/ Breaks(s)
    <2>1. CASE OpenFails(s)
      BY <2>1 DEF OpenFails, OpenItem, Breaks, TypeInv, TypeOK
    <2>2. CASE OpenBroken(s) \/ Read(s) \/ ReadGarbage(s) \/ ReadOn(s)
                  \/ RecvTooLarge(s) \/ RecvIO(s) \/ CancelRecv(s)
      BY <2>2 DEF OpenBroken, OpenItem, Read, ReadGarbage, ReadOn,
            RecvTooLarge, RecvIO, CancelRecv, Recv, CoreUnchanged
    <2> QED BY <1>3, <2>1, <2>2 DEF RecvStep
  <1>4. ASSUME NEW s \in Side, Transmit(s) \/ Configure(s)
        PROVE  CoreUnchanged
    BY <1>4 DEF Transmit, Configure, cipherVars, CoreUnchanged
  <1>5. ASSUME LoseConnection PROVE CoreUnchanged
    BY <1>5 DEF LoseConnection, CoreUnchanged
  <1> QED BY <1>1, <1>2, <1>3, <1>4, <1>5 DEF Next

\* What the conjuncts of TypeOK say of the histories.
LEMMA HistoryTypes ==
    ASSUME TypeInv, NEW s \in Side
    PROVE  /\ cipher[s] \in Int /\ fresh \in Int
           /\ Len(sealed[s]) \in Nat /\ Len(delivered[s]) \in Nat
           /\ \A j \in 1..Len(sealed[s]) :
                 sealed[s][j].key \in Int /\ sealed[s][j].next \in Int
  <1>1. /\ cipher[s] \in Int /\ fresh \in Int
        /\ sealed[s] \in Seq(Packet) /\ delivered[s] \in Seq(Packet)
    BY DEF TypeInv, TypeOK
  <1>2. \A j \in 1..Len(sealed[s]) : sealed[s][j] \in Packet
    BY <1>1
  <1>3. \A q \in Packet : q.key \in Int /\ q.next \in Int
    BY DEF Packet
  <1>4. Len(sealed[s]) \in Nat /\ Len(delivered[s]) \in Nat
    BY <1>1
  <1> QED BY <1>1, <1>2, <1>3, <1>4

\* The packet Seal adds prolongs the chain of nonces.
LEMMA ChainSeal ==
    ASSUME TypeInv, TypeInv', NonceChain, NEW s \in Side, Seal(s)
    PROVE  NonceChain'
  <1> DEFINE p == Peer(s)
             n == Len(sealed[s])
  <1>1. /\ s \in Side /\ p \in Side /\ p # s /\ Peer(p) = s /\ Peer(s) = p
        /\ \A t \in Side : t = s \/ t = p
    BY PeerFacts
  <1>2. PICK q \in Packet :
           /\ q.key = cipher[s] /\ q.next = fresh
           /\ Len(sealed'[s]) = n + 1
           /\ sealed'[s][n + 1] = q
           /\ \A j \in 1..n : sealed'[s][j] = sealed[s][j]
           /\ sealed'[p] = sealed[p]
    BY SealEffect
  <1>3. /\ cipher[s] # None
        /\ cipher'[s] = fresh /\ cipher'[p] = cipher[p]
        /\ fresh' = fresh + 1
        /\ delivered' = delivered
    BY <1>1 DEF Seal, TypeInv, TypeOK
  <1>4. /\ n \in Nat /\ Len(sealed[p]) \in Nat
        /\ cipher[s] \in Int /\ cipher[p] \in Int /\ fresh \in Int
        /\ Len(delivered[s]) \in Nat /\ Len(delivered[p]) \in Nat
    BY <1>1, HistoryTypes
  <1>5. \A j \in 1..Len(sealed'[s]) :
           \/ j \in 1..n /\ sealed'[s][j] = sealed[s][j]
           \/ j = n + 1 /\ sealed'[s][j].key = cipher[s] /\ sealed'[s][j].next = fresh
    BY <1>2, <1>4
  <1>6. /\ Len(sealed'[p]) = Len(sealed[p])
        /\ \A j \in 1..Len(sealed'[p]) : sealed'[p][j] = sealed[p][j]
    BY <1>2
  <1>7. \A t \in Side :
           /\ -1 <= cipher[t] /\ cipher[t] < fresh
           /\ \A j \in 1..Len(sealed[t]) :
                 /\ 0 <= sealed[t][j].key /\ sealed[t][j].key < fresh
                 /\ 0 < sealed[t][j].next /\ sealed[t][j].next < fresh
                 /\ sealed[t][j].key \in Int /\ sealed[t][j].next \in Int
    BY HistoryTypes DEF NonceChain, Generated, None
  <1>8. 0 < fresh /\ -1 < cipher[s] /\ cipher[s] < fresh /\ cipher[p] < fresh
    BY <1>1, <1>3, <1>4, <1>7 DEF NonceChain, Generated, None
  <1>int. n \in Nat /\ fresh \in Int
    BY <1>4
  <1>own. \A j \in 1..Len(sealed'[s]) :
           \/ /\ j \in 1..n
              /\ sealed'[s][j].key = sealed[s][j].key
              /\ sealed'[s][j].next = sealed[s][j].next
              /\ 0 <= sealed'[s][j].key /\ sealed'[s][j].key < fresh
              /\ 0 < sealed'[s][j].next /\ sealed'[s][j].next < fresh
              /\ sealed'[s][j].key \in Int /\ sealed'[s][j].next \in Int
           \/ j = n + 1 /\ sealed'[s][j].key = cipher[s] /\ sealed'[s][j].next = fresh
    <2>1. TAKE j \in 1..Len(sealed'[s])
    <2>2. CASE j \in 1..n /\ sealed'[s][j] = sealed[s][j]
      BY <1>4, <1>7, <2>2
    <2> QED BY <1>5, <2>2
  <1>peer. \A j \in 1..Len(sealed'[p]) :
           /\ j \in 1..Len(sealed[p])
           /\ sealed'[p][j].key = sealed[p][j].key
           /\ sealed'[p][j].next = sealed[p][j].next
           /\ 0 <= sealed'[p][j].key /\ sealed'[p][j].key < fresh
           /\ 0 < sealed'[p][j].next /\ sealed'[p][j].next < fresh
           /\ sealed'[p][j].key \in Int /\ sealed'[p][j].next \in Int
    BY <1>1, <1>4, <1>6, <1>7
  <1> HIDE DEF p
  <1>9. Generated'
    <2>1. ASSUME NEW j \in 1..Len(sealed'[s])
          PROVE  /\ 0 <= sealed'[s][j].key /\ sealed'[s][j].key < fresh'
                 /\ 0 < sealed'[s][j].next /\ sealed'[s][j].next < fresh'
      <3>1. /\ fresh' = fresh + 1 /\ fresh \in Int /\ cipher[s] \in Int
            /\ 0 < fresh /\ 0 <= cipher[s] /\ cipher[s] < fresh
        BY <1>3, <1>4, <1>8
      <3>2. CASE /\ 0 <= sealed'[s][j].key /\ sealed'[s][j].key < fresh
                 /\ 0 < sealed'[s][j].next /\ sealed'[s][j].next < fresh
                 /\ sealed'[s][j].key \in Int /\ sealed'[s][j].next \in Int
        BY <3>1, <3>2
      <3>3. CASE sealed'[s][j].key = cipher[s] /\ sealed'[s][j].next = fresh
        BY <3>1, <3>3
      <3> QED BY <1>own, <3>2, <3>3
    <2>2. ASSUME NEW j \in 1..Len(sealed'[p])
          PROVE  /\ 0 <= sealed'[p][j].key /\ sealed'[p][j].key < fresh'
                 /\ 0 < sealed'[p][j].next /\ sealed'[p][j].next < fresh'
      BY <1>1, <1>3, <1>4, <1>6, <1>7
    <2>3. fresh' > 0 /\ -1 <= cipher'[s] /\ -1 <= cipher'[p] /\ cipher'[s] < fresh' /\ cipher'[p] < fresh'
      BY <1>1, <1>3, <1>4, <1>7, <1>8
    <2> QED BY <1>1, <2>1, <2>2, <2>3 DEF Generated, None
  <1>10. Distinct'
    <2>1. \A j, k \in 1..n : sealed[s][j].next = sealed[s][k].next => j = k
      BY DEF NonceChain, Distinct
    <2>2. \A j \in 1..n, k \in 1..Len(sealed[p]) : sealed[s][j].next # sealed[p][k].next
      BY <1>1 DEF NonceChain, Distinct
    <2>3. \A j, k \in 1..Len(sealed[p]) : sealed[p][j].next = sealed[p][k].next => j = k
      BY <1>1 DEF NonceChain, Distinct
    <2>4. \A j, k \in 1..Len(sealed'[s]) : sealed'[s][j].next = sealed'[s][k].next => j = k
      BY <1>int, <1>own, <2>1
    <2>5. ASSUME NEW j \in 1..Len(sealed'[s]), NEW k \in 1..Len(sealed'[p])
          PROVE  sealed'[s][j].next # sealed'[p][k].next
      <3>1. /\ k \in 1..Len(sealed[p]) /\ sealed'[p][k].next = sealed[p][k].next
            /\ sealed'[p][k].next < fresh /\ sealed'[p][k].next \in Int
        BY <1>peer
      <3>2. CASE j \in 1..n /\ sealed'[s][j].next = sealed[s][j].next
        BY <2>2, <3>1, <3>2
      <3>3. CASE sealed'[s][j].next = fresh
        BY <1>int, <3>1, <3>3
      <3> QED BY <1>own, <3>2, <3>3
    <2>6. \A j, k \in 1..Len(sealed'[p]) : sealed'[p][j].next = sealed'[p][k].next => j = k
      BY <1>6, <2>3
    <2>7. ASSUME NEW t \in Side, NEW u \in Side,
                 NEW j \in 1..Len(sealed'[t]), NEW k \in 1..Len(sealed'[u]),
                 sealed'[t][j].next = sealed'[u][k].next
          PROVE  t = u /\ j = k
      <3>1. CASE t = s /\ u = s
        BY <2>4, <2>7, <3>1
      <3>2. CASE t = s /\ u = p
        BY <2>5, <2>7, <3>2
      <3>3. CASE t = p /\ u = s
        BY <2>5, <2>7, <3>3
      <3>4. CASE t = p /\ u = p
        BY <2>6, <2>7, <3>4
      <3> QED BY <1>1, <3>1, <3>2, <3>3, <3>4
    <2> QED BY <2>7 DEF Distinct
  <1>11. Chain'
    <2>1. \A j \in 1..n :
             /\ cipher[s] = sealed[s][j].next => j = n
             /\ \A k \in 1..n : sealed[s][k].key = sealed[s][j].next => k = j + 1
      BY DEF NonceChain, Chain
    <2>2. \A j \in 1..Len(sealed[p]) :
             /\ cipher[p] = sealed[p][j].next => j = Len(sealed[p])
             /\ \A k \in 1..Len(sealed[p]) : sealed[p][k].key = sealed[p][j].next => k = j + 1
      BY <1>1 DEF NonceChain, Chain
    <2>3. \A j \in 1..Len(sealed'[s]) :
             cipher'[s] = sealed'[s][j].next => j = Len(sealed'[s])
      BY <1>2, <1>3, <1>4, <1>own
    <2>4. ASSUME NEW j \in 1..Len(sealed'[s]), NEW k \in 1..Len(sealed'[s]),
                 sealed'[s][k].key = sealed'[s][j].next
          PROVE  k = j + 1
      <3>1. sealed'[s][k].key < fresh /\ sealed'[s][k].key \in Int
        BY <1>4, <1>8, <1>own
      <3>2. j \in 1..n /\ sealed'[s][j].next = sealed[s][j].next
        BY <1>int, <1>own, <2>4, <3>1
      <3>3. CASE k \in 1..n /\ sealed'[s][k].key = sealed[s][k].key
        BY <2>1, <2>4, <3>2, <3>3
      <3>4. CASE k = n + 1 /\ sealed'[s][k].key = cipher[s]
        BY <2>1, <2>4, <3>2, <3>4
      <3> QED BY <1>own, <3>3, <3>4
    <2>5. \A j \in 1..Len(sealed'[p]) :
             /\ cipher'[p] = sealed'[p][j].next => j = Len(sealed'[p])
             /\ \A k \in 1..Len(sealed'[p]) : sealed'[p][k].key = sealed'[p][j].next => k = j + 1
      BY <1>3, <1>6, <2>2
    <2> QED BY <1>1, <2>3, <2>4, <2>5 DEF Chain
  <1>12. Expected'
    <2>1. \A j \in 1..Len(sealed[p]) : sealed'[p][j].key # cipher'[s]
      BY <1>1, <1>3, <1>4, <1>6, <1>7
    <2>2. ASSUME NEW j \in 1..Len(sealed'[s]), sealed'[s][j].key = cipher'[p]
          PROVE  j = Len(delivered[p]) + 1 /\ Len(delivered[s]) = Len(sealed[p])
      <3>1. CASE j \in 1..n /\ sealed'[s][j] = sealed[s][j]
        BY <1>1, <1>3, <2>2, <3>1 DEF NonceChain, Expected
      <3>2. CASE j = n + 1 /\ sealed'[s][j].key = cipher[s]
        <4>1. cipher[p] = cipher[s]
          BY <1>3, <2>2, <3>2
        <4>2. cipher["client"] = cipher["server"] /\ cipher["client"] # None
          BY <1>1, <1>3, <4>1 DEF Side
        <4>3. \A t \in Side : Len(delivered[t]) = Len(sealed[Peer(t)])
          BY <4>2 DEF NonceChain, InSync
        <4> QED BY <1>1, <1>4, <3>2, <4>3
      <3> QED BY <1>5, <2>2, <3>1, <3>2
    <2> QED BY <1>1, <1>3, <1>6, <2>1, <2>2 DEF Expected
  <1>13. Returned'
    <2>1. \A j \in 1..Len(sealed[p]) :
             /\ cipher[s] = sealed[p][j].next => j <= Len(delivered[s])
             /\ \A k \in 1..n : sealed[s][k].key = sealed[p][j].next => j <= Len(delivered[s])
      BY <1>1 DEF NonceChain, Returned
    <2>2. \A j \in 1..n : \A k \in 1..Len(sealed[p]) :
             sealed[p][k].key = sealed[s][j].next => j <= Len(delivered[p])
      BY <1>1 DEF NonceChain, Returned
    <2>3. \A j \in 1..n : cipher[p] = sealed[s][j].next => j <= Len(delivered[p])
      BY <1>1 DEF NonceChain, Returned
    <2>4. \A k \in 1..Len(sealed[p]) : sealed[p][k].key # cipher[p]
      BY <1>1 DEF NonceChain, Returned
    <2>5. /\ \A k \in 1..Len(sealed'[s]) : sealed'[s][k].key # cipher'[s]
          /\ \A k \in 1..Len(sealed'[p]) : sealed'[p][k].key # cipher'[p]
      BY <1>3, <1>4, <1>8, <1>own, <1>peer, <2>4
    <2>6. ASSUME NEW j \in 1..Len(sealed'[p])
          PROVE  /\ cipher'[s] = sealed'[p][j].next => j <= Len(delivered'[s])
                 /\ \A k \in 1..Len(sealed'[s]) :
                       sealed'[s][k].key = sealed'[p][j].next => j <= Len(delivered'[s])
      <3>1. /\ j \in 1..Len(sealed[p]) /\ sealed'[p][j].next = sealed[p][j].next
            /\ sealed'[p][j].next < fresh /\ sealed'[p][j].next \in Int
        BY <1>peer
      <3>2. cipher'[s] # sealed'[p][j].next
        BY <1>3, <1>int, <3>1
      <3>3. ASSUME NEW k \in 1..Len(sealed'[s]), sealed'[s][k].key = sealed'[p][j].next
            PROVE  j <= Len(delivered'[s])
        <4>1. CASE k \in 1..n /\ sealed'[s][k].key = sealed[s][k].key
          BY <1>3, <2>1, <3>1, <3>3, <4>1
        <4>2. CASE sealed'[s][k].key = cipher[s]
          BY <1>3, <2>1, <3>1, <3>3, <4>2
        <4> QED BY <1>own, <4>1, <4>2
      <3> QED BY <3>2, <3>3
    <2>7. ASSUME NEW j \in 1..Len(sealed'[s]), cipher'[p] = sealed'[s][j].next
          PROVE  j <= Len(delivered'[p])
      <3>1. sealed'[s][j].next = cipher[p] /\ sealed'[s][j].next # fresh
        BY <1>3, <1>4, <1>8, <2>7
      <3>2. j \in 1..n /\ sealed'[s][j].next = sealed[s][j].next
        BY <1>own, <3>1
      <3> QED BY <1>3, <2>3, <3>1, <3>2
    <2>8. ASSUME NEW j \in 1..Len(sealed'[s]), NEW k \in 1..Len(sealed'[p]),
                 sealed'[p][k].key = sealed'[s][j].next
          PROVE  j <= Len(delivered'[p])
      <3>1. /\ k \in 1..Len(sealed[p]) /\ sealed'[p][k].key = sealed[p][k].key
            /\ sealed'[p][k].key < fresh /\ sealed'[p][k].key \in Int
        BY <1>peer
      <3>2. sealed'[s][j].next # fresh
        BY <1>int, <2>8, <3>1
      <3>3. j \in 1..n /\ sealed'[s][j].next = sealed[s][j].next
        BY <1>own, <3>2
      <3> QED BY <1>3, <2>2, <2>8, <3>1, <3>3
    <2> QED BY <1>1, <2>5, <2>6, <2>7, <2>8 DEF Returned
  <1>14. InSync'
    BY <1>1, <1>3, <1>4, <1>7 DEF InSync, Side
  <1>15. InOrder'
    <2>1. /\ Len(delivered[p]) <= n
          /\ \A j \in 1..Len(delivered[p]) : delivered[p][j] = sealed[s][j]
      BY <1>1 DEF NonceChain, InOrder
    <2>2. /\ Len(delivered[s]) <= Len(sealed[p])
          /\ \A j \in 1..Len(delivered[s]) : delivered[s][j] = sealed[p][j]
      BY <1>1 DEF NonceChain, InOrder
    <2>3. /\ Len(delivered'[p]) <= Len(sealed'[s])
          /\ \A j \in 1..Len(delivered'[p]) : delivered'[p][j] = sealed'[s][j]
      <3>1. Len(delivered[p]) \in Nat /\ \A j \in 1..Len(delivered[p]) : j \in 1..n
        BY <1>4, <2>1
      <3> QED BY <1>2, <1>3, <1>int, <2>1, <3>1
    <2>4. /\ Len(delivered'[s]) <= Len(sealed'[p])
          /\ \A j \in 1..Len(delivered'[s]) : delivered'[s][j] = sealed'[p][j]
      BY <1>2, <1>3, <2>2
    <2> QED BY <1>1, <2>3, <2>4 DEF InOrder
  <1>16. NonceOnce'
    <2>1. /\ \A i, j \in 1..n : sealed[s][i].key = sealed[s][j].key => i = j
          /\ \A i \in 1..n : sealed[s][i].key # cipher[s]
      BY DEF NonceChain, NonceOnce, Returned
    <2>2. \A i, j \in 1..Len(sealed[p]) : sealed[p][i].key = sealed[p][j].key => i = j
      BY <1>1 DEF NonceChain, NonceOnce
    <2>3. ASSUME NEW i \in 1..Len(sealed'[s]), NEW j \in 1..Len(sealed'[s]),
                 sealed'[s][i].key = sealed'[s][j].key
          PROVE  i = j
      <3>1. CASE i \in 1..n /\ sealed'[s][i] = sealed[s][i]
        <4>1. j \in 1..n /\ sealed'[s][j] = sealed[s][j]
          BY <1>5, <2>1, <2>3, <3>1
        <4> QED BY <2>1, <2>3, <3>1, <4>1
      <3>2. CASE i = n + 1 /\ sealed'[s][i].key = cipher[s]
        <4>1. j = n + 1
          BY <1>5, <2>1, <2>3, <3>2
        <4> QED BY <3>2, <4>1
      <3> QED BY <1>5, <3>1, <3>2
    <2> QED BY <1>1, <1>6, <2>2, <2>3 DEF NonceOnce
  <1> QED
    BY <1>9, <1>10, <1>11, <1>12, <1>13, <1>14, <1>15, <1>16 DEF NonceChain

\* Opening a packet moves the Cipher along the chain of nonces.
LEMMA ChainOpen ==
    ASSUME TypeInv, TypeInv', Genuine, NonceChain, NEW s \in Side, OpenOk(s)
    PROVE  NonceChain'
  <1> DEFINE p == Peer(s)
             n == Len(delivered[s])
  <1>1. /\ s \in Side /\ p \in Side /\ p # s /\ Peer(p) = s /\ Peer(s) = p
        /\ \A t \in Side : t = s \/ t = p
    BY PeerFacts
  <1>2. PICK i \in opening[s] :
           /\ Opens(s, i)
           /\ cipher' = [cipher EXCEPT ![s] = i.pkt.next]
           /\ delivered' = [delivered EXCEPT ![s] = Append(@, i.pkt)]
    BY DEF OpenOk
  <1>3. PICK m \in 1..Len(sealed[p]) : sealed[p][m] = i.pkt
    BY <1>1 DEF Genuine, IsSealed
  <1>4. /\ n \in Nat /\ Len(sealed[s]) \in Nat /\ Len(sealed[p]) \in Nat
        /\ cipher[s] \in Int /\ cipher[p] \in Int /\ fresh \in Int
        /\ \A j \in 1..Len(sealed[s]) :
              sealed[s][j].key \in Int /\ sealed[s][j].next \in Int
        /\ \A j \in 1..Len(sealed[p]) :
              sealed[p][j].key \in Int /\ sealed[p][j].next \in Int
        /\ Len(delivered[p]) \in Nat
    BY <1>1, HistoryTypes
  <1>5. sealed[p][m].key = cipher[s]
    BY <1>2, <1>3 DEF Opens
  <1>6. m = n + 1 /\ Len(delivered[p]) = Len(sealed[s])
    BY <1>1, <1>5 DEF NonceChain, Expected
  <1>7. /\ cipher[s] # None
        /\ cipher'[s] = sealed[p][m].next /\ cipher'[p] = cipher[p]
        /\ fresh' = fresh /\ sealed' = sealed
    BY <1>1, <1>2, <1>3 DEF OpenOk, OpenItem, TypeInv, TypeOK
  <1>8. /\ Len(delivered'[s]) = n + 1
        /\ delivered'[s][n + 1] = sealed[p][m]
        /\ \A j \in 1..n : delivered'[s][j] = delivered[s][j]
        /\ delivered'[p] = delivered[p]
    <2>1. delivered[s] \in Seq(Packet) /\ i.pkt \in Packet
      BY DEF TypeInv, TypeOK, Item
    <2>2. delivered'[s] = Append(delivered[s], i.pkt) /\ delivered'[p] = delivered[p]
      BY <1>1, <1>2 DEF TypeInv, TypeOK
    <2> QED BY <1>3, <2>1, <2>2, AppendElement
  <1> HIDE DEF p, n
  <1>9. Generated'
    <2>1. 0 < sealed[p][m].next /\ sealed[p][m].next < fresh /\ None <= sealed[p][m].next
      BY <1>1, <1>4 DEF NonceChain, Generated, None
    <2>2. None <= cipher'[s] /\ cipher'[s] < fresh /\ None <= cipher'[p] /\ cipher'[p] < fresh
      BY <1>1, <1>7, <2>1 DEF NonceChain, Generated
    <2>3. \A t \in Side : None <= cipher'[t] /\ cipher'[t] < fresh
      BY <1>1, <2>2
    <2> QED BY <1>7, <2>3 DEF NonceChain, Generated
  <1>10. Distinct'
    BY <1>7 DEF NonceChain, Distinct
  <1>11. Chain'
    BY <1>1, <1>4, <1>7 DEF NonceChain, Chain, Distinct
  <1>12. Expected'
    <2>1. ASSUME NEW j \in 1..Len(sealed[p]), sealed[p][j].key = sealed[p][m].next
          PROVE  j = n + 2
      <3>1. j = m + 1
        BY <1>1, <2>1 DEF NonceChain, Chain
      <3> QED BY <1>4, <1>6, <3>1
    <2>2. ASSUME NEW j \in 1..Len(sealed[s]), sealed[s][j].key = cipher[p]
          PROVE  FALSE
      <3>1. j = Len(delivered[p]) + 1
        BY <1>1, <2>2 DEF NonceChain, Expected
      <3> QED BY <1>4, <1>6, <3>1
    <2>3. ASSUME NEW j \in 1..Len(sealed'[p]), sealed'[p][j].key = cipher'[s]
          PROVE  j = Len(delivered'[s]) + 1 /\ Len(delivered'[p]) = Len(sealed'[s])
      <3>1. j \in 1..Len(sealed[p]) /\ sealed[p][j].key = sealed[p][m].next
        BY <1>7, <2>3
      <3>2. j = n + 2
        BY <2>1, <3>1
      <3>3. Len(delivered'[s]) + 1 = n + 2
        BY <1>4, <1>8
      <3>4. Len(delivered'[p]) = Len(sealed'[s])
        BY <1>6, <1>7, <1>8
      <3> QED BY <3>2, <3>3, <3>4
    <2>4. \A j \in 1..Len(sealed'[s]) : sealed'[s][j].key # cipher'[p]
      BY <1>7, <2>2
    <2> QED BY <1>1, <2>3, <2>4 DEF Expected
  <1>13. Returned'
    <2>1. \A j \in 1..Len(sealed[p]) : sealed[p][j].next = sealed[p][m].next => j = m
      BY <1>1 DEF NonceChain, Distinct
    <2>2. ASSUME NEW k \in 1..Len(sealed[s]), sealed[s][k].key = sealed[p][m].next
          PROVE  FALSE
      <3>1. m <= n
        BY <1>1, <2>2 DEF NonceChain, Returned, n
      <3> QED BY <1>4, <1>6, <3>1
    <2>3. \A j \in 1..Len(sealed[p]) : \A k \in 1..Len(sealed[s]) :
             sealed[s][k].key = sealed[p][j].next => j <= n
      BY <1>1 DEF NonceChain, Returned, n
    <2>4. /\ \A j \in 1..Len(sealed[s]) :
                /\ cipher[p] = sealed[s][j].next => j <= Len(delivered[p])
                /\ \A k \in 1..Len(sealed[p]) :
                      sealed[p][k].key = sealed[s][j].next => j <= Len(delivered[p])
          /\ \A k \in 1..Len(sealed[p]) : sealed[p][k].key # cipher[p]
      BY <1>1 DEF NonceChain, Returned
    <2>5. \A j \in 1..Len(sealed'[p]) :
             cipher'[s] = sealed'[p][j].next => j <= Len(delivered'[s])
      BY <1>4, <1>6, <1>7, <1>8, <2>1
    <2>6. \A j \in 1..Len(sealed'[p]) : j <= n => j <= Len(delivered'[s])
      BY <1>4, <1>8
    <2>7. \A j \in 1..Len(sealed'[p]) : \A k \in 1..Len(sealed'[s]) :
             sealed'[s][k].key = sealed'[p][j].next => j <= Len(delivered'[s])
      BY <1>7, <2>3, <2>6
    <2>8. \A k \in 1..Len(sealed'[s]) : sealed'[s][k].key # cipher'[s]
      BY <1>7, <2>2
    <2>9. /\ \A j \in 1..Len(sealed'[s]) :
                /\ cipher'[p] = sealed'[s][j].next => j <= Len(delivered'[p])
                /\ \A k \in 1..Len(sealed'[p]) :
                      sealed'[p][k].key = sealed'[s][j].next => j <= Len(delivered'[p])
          /\ \A k \in 1..Len(sealed'[p]) : sealed'[p][k].key # cipher'[p]
      BY <1>7, <1>8, <2>4
    <2> QED BY <1>1, <2>5, <2>7, <2>8, <2>9 DEF Returned
  <1>14. InSync'
    <2>1. cipher[p] = sealed[p][m].next => m = Len(sealed[p])
      BY <1>1 DEF NonceChain, Chain
    <2>2. cipher'[p] = cipher'[s] => Len(delivered'[s]) = Len(sealed'[p])
      BY <1>6, <1>7, <1>8, <2>1
    <2>3. Len(delivered'[p]) = Len(sealed'[s])
      BY <1>6, <1>7, <1>8
    <2> QED BY <1>1, <2>2, <2>3 DEF InSync, Side
  <1>15. InOrder'
    <2>1. \A j \in 1..n : delivered[s][j] = sealed[p][j]
      BY <1>1 DEF NonceChain, InOrder, n
    <2>2. /\ Len(delivered[p]) <= Len(sealed[s])
          /\ \A j \in 1..Len(delivered[p]) : delivered[p][j] = sealed[s][j]
      BY <1>1 DEF NonceChain, InOrder
    <2>3. /\ Len(delivered'[s]) <= Len(sealed'[p])
          /\ \A j \in 1..Len(delivered'[s]) : delivered'[s][j] = sealed'[p][j]
      <3>1. \A j \in 1..Len(delivered'[s]) : j \in 1..n \/ j = n + 1
        BY <1>4, <1>8
      <3>2. n + 1 <= Len(sealed[p])
        BY <1>4, <1>6
      <3> QED BY <1>6, <1>7, <1>8, <2>1, <3>1, <3>2
    <2> QED BY <1>1, <1>7, <1>8, <2>2, <2>3 DEF InOrder
  <1>16. NonceOnce'
    BY <1>7 DEF NonceChain, NonceOnce
  <1> QED
    BY <1>9, <1>10, <1>11, <1>12, <1>13, <1>14, <1>15, <1>16 DEF NonceChain

\* A Cipher that loses its nonce leaves the chain as it is.
LEMMA ChainBreaks ==
    ASSUME TypeInv, NonceChain, NEW s \in Side, Breaks(s)
    PROVE  NonceChain'
  <1>1. /\ \A t \in Side : cipher'[t] = IF t = s THEN None ELSE cipher[t]
        /\ fresh' \in Int /\ fresh <= fresh'
        /\ sealed' = sealed /\ delivered' = delivered
    BY DEF Breaks, TypeInv, TypeOK
  <1>2. \A t \in Side : \A j \in 1..Len(sealed[t]) :
           /\ sealed[t][j].key \in Int /\ sealed[t][j].next \in Int
           /\ 0 <= sealed[t][j].key /\ 0 < sealed[t][j].next
    BY HistoryTypes DEF NonceChain, Generated
  <1>3. None = -1 /\ fresh \in Int /\ \A t \in Side : cipher[t] \in Int
    BY DEF None, TypeInv, TypeOK
  <1>4. Generated'
    BY <1>1, <1>2, <1>3 DEF NonceChain, Generated
  <1>5. Distinct' /\ InOrder' /\ NonceOnce'
    <2>1. Distinct'
      BY <1>1 DEF NonceChain, Distinct
    <2>2. InOrder'
      BY <1>1 DEF NonceChain, InOrder
    <2>3. NonceOnce'
      BY <1>1 DEF NonceChain, NonceOnce
    <2> QED BY <2>1, <2>2, <2>3
  <1>6. Chain'
    BY <1>1, <1>2, <1>3 DEF NonceChain, Chain
  <1>7. Expected'
    BY <1>1, <1>2, <1>3, PeerFacts DEF NonceChain, Expected
  <1>8. Returned'
    BY <1>1, <1>2, <1>3, PeerFacts DEF NonceChain, Returned
  <1>9. InSync'
    BY <1>1, PeerFacts DEF NonceChain, InSync, Side
  <1> QED BY <1>4, <1>5, <1>6, <1>7, <1>8, <1>9 DEF NonceChain

\* A step that touches no nonce and no history keeps the chain.
LEMMA ChainUnchanged ==
    ASSUME NonceChain, CoreUnchanged
    PROVE  NonceChain'
  BY DEF CoreUnchanged, NonceChain, Generated, Distinct, Chain, Expected,
         Returned, InSync, InOrder, NonceOnce

-----------------------------------------------------------------------------
(* The theorems *)

\* The inductive invariant holds initially.
LEMMA IInvInit == Init => IInv /\ TypeInv
  <1> SUFFICES ASSUME Init PROVE IInv /\ TypeInv
    OBVIOUS
  <1>1. TypeInv
    BY TypeInit
  <1>2. /\ \A s \in Side : /\ cipher[s] = 0 /\ Len(sealed[s]) = 0
                           /\ Len(delivered[s]) = 0 /\ opening[s] = {}
                           /\ Len(out[s]) = 0 /\ Len(wire[s]) = 0
        /\ fresh = 1
    BY DEF Init, InitLayer
  <1>3. Genuine
    BY <1>2, PeerFacts DEF Genuine
  <1>4. Generated /\ Distinct /\ Chain /\ Expected /\ Returned
    BY <1>2, PeerFacts DEF Generated, Distinct, Chain, Expected, Returned, None
  <1>5. InSync /\ InOrder /\ NonceOnce
    BY <1>2, PeerFacts DEF InSync, InOrder, NonceOnce
  <1> QED BY <1>1, <1>3, <1>4, <1>5 DEF IInv, NonceChain, TypeInv

\* Every step keeps the inductive invariant.
LEMMA IInvNext ==
    ASSUME IInv, TypeInv, [Next]_vars
    PROVE  IInv' /\ TypeInv'
  <1>1. TypeInv'
    BY TypeNext
  <1>2. Genuine'
    BY GenuineNext DEF IInv
  <1>3. NonceChain'
    <2>1. ASSUME NEW s \in Side, Seal(s) PROVE NonceChain'
      BY <1>1, <2>1, ChainSeal DEF IInv
    <2>2. ASSUME NEW s \in Side, Breaks(s) PROVE NonceChain'
      BY <2>2, ChainBreaks DEF IInv
    <2>3. ASSUME NEW s \in Side, OpenOk(s) PROVE NonceChain'
      BY <1>1, <2>3, ChainOpen DEF IInv
    <2> QED BY <2>1, <2>2, <2>3, CoreStep, ChainUnchanged DEF IInv
  <1> QED BY <1>1, <1>2, <1>3 DEF IInv, TypeInv

\* The chain of nonces holds in every reachable state.
THEOREM ChainCorrect == Spec => []IInv
  <1>1. Init => IInv /\ TypeInv
    BY IInvInit
  <1>2. (IInv /\ TypeInv) /\ [Next]_vars => (IInv /\ TypeInv)'
    BY IInvNext
  <1> QED BY <1>1, <1>2, PTL DEF Spec

\* recv returns the messages of the other side's sends in order and without a
\* gap, whatever fails, is cancelled or is lost.
THEOREM DeliveryInOrder == Spec => []InOrder
  <1>1. IInv => InOrder
    BY DEF IInv, NonceChain
  <1> QED BY ChainCorrect, <1>1, PTL

\* Two working Ciphers with the same nonce have nothing outstanding.
THEOREM CiphersInSync == Spec => []InSync
  <1>1. IInv => InSync
    BY DEF IInv, NonceChain
  <1> QED BY ChainCorrect, <1>1, PTL

\* No side encrypts two packets under one nonce.
THEOREM NoNonceReuse == Spec => []NonceOnce
  <1>1. IInv => NonceOnce
    BY DEF IInv, NonceChain
  <1> QED BY ChainCorrect, <1>1, PTL

\* A broken Cipher stays broken and delivers nothing more.
THEOREM BrokenForGood == Spec => BrokenIsFinal
  <1> DEFINE Stays == \A s \in Side : cipher[s] = None =>
                          cipher'[s] = None /\ delivered'[s] = delivered[s]
  <1>1. TypeInv /\ [Next]_vars => Stays
    <2> SUFFICES ASSUME TypeInv, [Next]_vars, NEW s \in Side, cipher[s] = None
                 PROVE  cipher'[s] = None /\ delivered'[s] = delivered[s]
      OBVIOUS
    <2>1. CASE CoreUnchanged
      BY <2>1 DEF CoreUnchanged
    <2>2. ASSUME NEW t \in Side, Seal(t) \/ Breaks(t) \/ OpenOk(t)
          PROVE  cipher'[s] = None /\ delivered'[s] = delivered[s]
      BY <2>2 DEF Seal, Breaks, OpenOk, TypeInv, TypeOK
    <2> QED BY <2>1, <2>2, CoreStep
  <1>2. Spec => []TypeInv
    BY TypeInit, TypeNext, PTL DEF Spec
  <1>3. TypeInv /\ [Next]_vars => [Stays]_vars
    BY <1>1
  <1> QED BY <1>2, <1>3, PTL DEF Spec, BrokenIsFinal

-----------------------------------------------------------------------------
(* Refinement *)

\* The messages of a history form a sequence.
LEMMA MessagesType ==
    ASSUME NEW q \in Seq(Packet)
    PROVE  /\ MessagesOf(q) \in Seq(Message)
           /\ Len(MessagesOf(q)) = Len(q)
           /\ \A i \in 1..Len(q) : MessagesOf(q)[i] = q[i].msg
  <1>1. Len(q) \in Nat /\ \A i \in 1..Len(q) : q[i] \in Packet
    OBVIOUS
  <1>2. \A i \in 1..Len(q) : q[i].msg \in Message
    BY <1>1 DEF Packet
  <1> QED BY <1>1, <1>2, SeqDef DEF MessagesOf

\* A packet appended to a history appends its message.
LEMMA MessagesAppend ==
    ASSUME NEW q \in Seq(Packet), NEW p \in Packet
    PROVE  MessagesOf(Append(q, p)) = Append(MessagesOf(q), p.msg)
  <1> DEFINE a == Append(q, p)
             m == MessagesOf(q)
  <1>1. p.msg \in Message
    BY DEF Packet
  <1>2. a \in Seq(Packet) /\ Len(q) \in Nat
    BY AppendProperties
  <1>3. /\ Len(a) = Len(q) + 1 /\ a[Len(q) + 1] = p
        /\ \A k \in 1..Len(q) : a[k] = q[k]
    BY AppendElement
  <1>4. /\ m \in Seq(Message) /\ Len(m) = Len(q)
        /\ \A k \in 1..Len(q) : m[k] = q[k].msg
    BY MessagesType
  <1>5. /\ Append(m, p.msg) \in Seq(Message)
        /\ Len(Append(m, p.msg)) = Len(q) + 1 /\ Append(m, p.msg)[Len(q) + 1] = p.msg
        /\ \A k \in 1..Len(q) : Append(m, p.msg)[k] = m[k]
    <2> HIDE DEF m
    <2> QED BY <1>1, <1>4, AppendElement, AppendProperties
  <1>6. /\ MessagesOf(a) \in Seq(Message) /\ Len(MessagesOf(a)) = Len(a)
        /\ \A k \in 1..Len(a) : MessagesOf(a)[k] = a[k].msg
    <2> HIDE DEF a
    <2> QED BY <1>2, MessagesType
  <1> HIDE DEF a, m
  <1>7. \A k \in 1..Len(MessagesOf(a)) : k \in 1..Len(q) \/ k = Len(q) + 1
    BY <1>2, <1>3, <1>6
  <1>8. \A k \in 1..Len(MessagesOf(a)) : MessagesOf(a)[k] = Append(m, p.msg)[k]
    BY <1>3, <1>4, <1>5, <1>6, <1>7
  <1>9. MessagesOf(a) = Append(m, p.msg)
    BY <1>3, <1>5, <1>6, <1>8, SeqEqual
  <1> QED BY <1>9 DEF a, m

\* A history that grows at one side grows by one message at that side.
LEMMA MessagesUpdate ==
    ASSUME NEW h, NEW g, NEW s \in Side, NEW p \in Packet,
           h[s] \in Seq(Packet),
           g[s] = Append(h[s], p), \A t \in Side : t # s => g[t] = h[t]
    PROVE  /\ Messages(g)[s] = Append(Messages(h)[s], p.msg)
           /\ \A t \in Side : t # s => Messages(g)[t] = Messages(h)[t]
           /\ Messages(g) = [t \in Side |-> Messages(g)[t]]
           /\ Messages(h) = [t \in Side |-> Messages(h)[t]]
  <1>1. MessagesOf(g[s]) = Append(MessagesOf(h[s]), p.msg)
    BY MessagesAppend
  <1> QED BY <1>1 DEF Messages

\* Initial states map to initial states of the abstract channel.
LEMMA RefinementInit == Init => Channel!Init
  <1> SUFFICES ASSUME Init PROVE Channel!Init
    OBVIOUS
  <1>1. MessagesOf(<<>>) = <<>>
    <2>1. <<>> \in Seq(Packet) /\ <<>> \in Seq(Message) /\ Len(<<>>) = 0
      BY EmptySeq
    <2>2. MessagesOf(<<>>) \in Seq(Message) /\ Len(MessagesOf(<<>>)) = 0
      BY <2>1, MessagesType
    <2> QED BY <2>1, <2>2, SeqEqual
  <1> QED BY <1>1 DEF Init, Messages, Channel!Init, Channel!End, Side

\* Every step maps to a Send, a Deliver or a stutter of the abstract channel.
LEMMA RefinementNext ==
    ASSUME IInv, TypeInv, [Next]_vars
    PROVE  [Channel!Next]_(Channel!chanVars)
  <1>1. CASE sealed' = sealed /\ delivered' = delivered
    BY <1>1 DEF Messages, Channel!chanVars
  <1>2. ASSUME NEW s \in Side, Seal(s)
        PROVE  \E m \in Message : Channel!Send(s, m)
    <2>1. PICK m \in Message : \E p \in Packets(s, m, cipher[s], fresh) :
             sealed' = [sealed EXCEPT ![s] = Append(@, p)]
      BY <1>2 DEF Seal
    <2>2. PICK p \in Packets(s, m, cipher[s], fresh) :
             sealed' = [sealed EXCEPT ![s] = Append(@, p)]
      BY <2>1
    <2>3. /\ cipher[s] \in Int /\ fresh \in Int /\ sealed \in [Side -> Seq(Packet)]
          /\ CONFIG \in [Side -> Config]
      BY DEF TypeInv, TypeOK
    <2>4. p \in Packet /\ p.msg \in Message
      BY <2>3, PacketsType DEF Packet
    <2>5. Messages(sealed') = [Messages(sealed) EXCEPT ![s] = Append(@, p.msg)]
      <3>1. sealed[s] \in Seq(Packet) /\ sealed'[s] = Append(sealed[s], p)
        BY <2>2, <2>3
      <3>2. \A t \in Side : t # s => sealed'[t] = sealed[t]
        BY <2>2, <2>3
      <3>3. /\ Messages(sealed')[s] = Append(Messages(sealed)[s], p.msg)
            /\ \A t \in Side : t # s => Messages(sealed')[t] = Messages(sealed)[t]
            /\ Messages(sealed') = [t \in Side |-> Messages(sealed')[t]]
            /\ Messages(sealed) = [t \in Side |-> Messages(sealed)[t]]
        BY <2>4, <3>1, <3>2, MessagesUpdate
      <3> QED BY <3>3
    <2>6. Messages(delivered') = Messages(delivered)
      BY <1>2 DEF Seal
    <2> QED BY <2>4, <2>5, <2>6 DEF Channel!Send, Messages
  <1>3. ASSUME NEW s \in Side, OpenOk(s) PROVE Channel!Deliver(s)
    <2>1. PICK i \in opening[s] :
             /\ Opens(s, i)
             /\ delivered' = [delivered EXCEPT ![s] = Append(@, i.pkt)]
      BY <1>3 DEF OpenOk
    <2>2. Peer(s) \in Side /\ Peer(Peer(s)) = s /\ Peer(s) = Channel!Other(s)
      BY PeerFacts DEF Peer, Channel!Other
    <2>3. PICK j \in 1..Len(sealed[Peer(s)]) : sealed[Peer(s)][j] = i.pkt
      BY <2>2 DEF IInv, Genuine, IsSealed
    <2>4. j = Len(delivered[s]) + 1
      BY <2>1, <2>3 DEF IInv, NonceChain, Expected, Opens
    <2>5. /\ delivered \in [Side -> Seq(Packet)] /\ sealed \in [Side -> Seq(Packet)]
          /\ i.pkt \in Packet
      BY DEF TypeInv, TypeOK, Item
    <2>6. Messages(delivered') = [Messages(delivered) EXCEPT ![s] = Append(@, i.pkt.msg)]
      <3> PICK p \in Packet : p = i.pkt
        BY <2>5
      <3>1. delivered[s] \in Seq(Packet) /\ delivered'[s] = Append(delivered[s], p)
        BY <2>1, <2>5
      <3>2. \A t \in Side : t # s => delivered'[t] = delivered[t]
        BY <2>1, <2>5
      <3>3. /\ Messages(delivered')[s] = Append(Messages(delivered)[s], p.msg)
            /\ \A t \in Side : t # s => Messages(delivered')[t] = Messages(delivered)[t]
            /\ Messages(delivered') = [t \in Side |-> Messages(delivered')[t]]
            /\ Messages(delivered) = [t \in Side |-> Messages(delivered)[t]]
        BY <3>1, <3>2, MessagesUpdate
      <3> QED BY <3>3
    <2>7. /\ delivered[s] \in Seq(Packet) /\ sealed[Peer(s)] \in Seq(Packet)
          /\ Messages(delivered)[s] = MessagesOf(delivered[s])
          /\ Messages(sealed)[Peer(s)] = MessagesOf(sealed[Peer(s)])
      BY <2>2, <2>5 DEF Messages
    <2>8. /\ Len(Messages(delivered)[s]) = Len(delivered[s])
          /\ Len(Messages(sealed)[Peer(s)]) = Len(sealed[Peer(s)])
          /\ Messages(sealed)[Peer(s)][j] = i.pkt.msg
      BY <2>3, <2>7, MessagesType
    <2>9. Len(delivered[s]) \in Nat /\ Len(sealed[Peer(s)]) \in Nat
      BY <2>7
    <2>10. Len(Messages(delivered)[s]) < Len(Messages(sealed)[Peer(s)])
      BY <2>3, <2>4, <2>8, <2>9
    <2>11. Messages(delivered') =
             [Messages(delivered) EXCEPT ![s] =
                 Append(@, Messages(sealed)[Peer(s)][Len(@) + 1])]
      BY <2>4, <2>6, <2>8
    <2>12. Messages(sealed') = Messages(sealed)
      BY <1>3 DEF OpenOk, OpenItem
    <2> QED BY <2>2, <2>10, <2>11, <2>12 DEF Channel!Deliver, Messages
  <1>4. CASE CoreUnchanged \/ \E s \in Side : Breaks(s)
    BY <1>1, <1>4 DEF CoreUnchanged, Breaks
  <1>5. Side = Channel!End
    BY DEF Side, Channel!End
  <1> QED BY <1>2, <1>3, <1>4, <1>5, CoreStep DEF Channel!Next

\* The encrypted channel implements the abstract one.
THEOREM ImplementsMessageChannel == Spec => Refinement
  <1>1. Init => IInv /\ TypeInv
    BY IInvInit
  <1>2. (IInv /\ TypeInv) /\ [Next]_vars => (IInv /\ TypeInv)'
    BY IInvNext
  <1>3. (IInv /\ TypeInv) /\ [Next]_vars => [Channel!Next]_(Channel!chanVars)
    BY RefinementNext
  <1> QED BY <1>1, <1>2, <1>3, RefinementInit, PTL DEF Spec, Refinement, Channel!Spec
=============================================================================
