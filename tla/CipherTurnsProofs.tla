------------------------- MODULE CipherTurnsProofs -------------------------
(***************************************************************************)
(* Proofs about CipherChannel under the discipline its Cipher needs: the   *)
(* applications send requests and answers in turns, nothing fails, and     *)
(* every packet fits every limit.  They hold for every number of turns,    *)
(* all messages, and whatever set_config does to levels and limits on the  *)
(* way.                                                                    *)
(***************************************************************************)
EXTENDS CipherChannelProofs

TurnsInv == IInv /\ TypeInv /\ InTurns

-----------------------------------------------------------------------------
(* One packet at most is on its way *)

\* The counters are numbers, and at most one direction has a packet on its way.
LEMMA TurnFacts ==
    ASSUME TurnsInv, NEW s \in Side
    PROVE  /\ Len(sealed[s]) \in Nat /\ Len(delivered[s]) \in Nat /\ okSends[s] \in Nat
           /\ ~Underway(s) => Len(sealed[s]) = Len(delivered[Peer(s)])
           /\ Underway(s) => ~Underway(Peer(s))
  <1>1. \A t \in Side : Len(sealed[t]) \in Nat /\ Len(delivered[t]) \in Nat
    BY HistoryTypes DEF TurnsInv
  <1>2. okSends[s] \in Nat
    BY DEF TurnsInv, TypeInv, TypeOK
  <1>3. /\ Len(sealed["client"]) \in Nat /\ Len(delivered["client"]) \in Nat
        /\ Len(sealed["server"]) \in Nat /\ Len(delivered["server"]) \in Nat
    BY <1>1 DEF Side
  <1>4. s = "client" \/ s = "server"
    BY DEF Side
  <1>5. Peer("client") = "server" /\ Peer("server") = "client"
    BY DEF Peer
  <1>6. Alternate
    BY DEF TurnsInv, InTurns
  <1>7. CASE s = "client"
    BY <1>2, <1>3, <1>5, <1>6, <1>7 DEF Alternate, Underway
  <1>8. CASE s = "server"
    BY <1>2, <1>3, <1>5, <1>6, <1>8 DEF Alternate, Underway
  <1> QED BY <1>4, <1>7, <1>8

\* Nobody sends while a packet is on its way.
LEMMA OwnTurn ==
    ASSUME Turns, TurnsInv, NEW s \in Side, MaySend(s)
    PROVE  /\ ~Underway(s) /\ ~Underway(Peer(s))
           /\ s = "server" => Len(sealed["server"]) < Len(delivered["server"])
           /\ s = "client" => Len(sealed["client"]) = Len(delivered["client"])
  <1>1. Len(sealed[s]) = okSends[s]
    <2>1. sending[s] = "idle"
      BY DEF MaySend
    <2>2. Len(sealed[s]) = okSends[s] + 0
      BY <2>1 DEF TurnsInv, InTurns
    <2> QED BY <2>2, TurnFacts
  <1>2. /\ Len(sealed["client"]) \in Nat /\ Len(delivered["client"]) \in Nat
        /\ Len(sealed["server"]) \in Nat /\ Len(delivered["server"]) \in Nat
    BY TurnFacts DEF Side
  <1>3. Peer("client") = "server" /\ Peer("server") = "client"
    BY DEF Peer
  <1>4. CASE s = "client"
    <2>1. Len(sealed["client"]) = Len(delivered["client"])
      BY <1>1, <1>4 DEF MaySend, RequestResponse
    <2> QED BY <1>2, <1>3, <1>4, <2>1 DEF TurnsInv, InTurns, Alternate, Underway
  <1>5. CASE s = "server"
    <2>1. Len(sealed["server"]) < Len(delivered["server"])
      BY <1>1, <1>5 DEF MaySend, RequestResponse
    <2> QED BY <1>2, <1>3, <1>5, <2>1 DEF TurnsInv, InTurns, Alternate, Underway
  <1> QED BY <1>4, <1>5 DEF Side

\* When every packet fits, the one send builds does, at whatever level.
LEMMA PacketsFit ==
    ASSUME EveryPacketFits, NEW s \in Side, CONFIG \in [Side -> Config],
           NEW m \in Message, NEW k, NEW x, NEW p \in Packets(s, m, k, x),
           NEW c \in Config
    PROVE  p.len <= c.max_packet_size
  <1>1. CONFIG[s] \in Config
    OBVIOUS
  <1>2. CASE Compressed
    <2>1. PICK n \in Deflate(CONFIG[s].compression, NonceLen + Size[m]) :
             p = [key |-> k, next |-> x, msg |-> m, len |-> n + TagLen]
      BY <1>2 DEF Packets, CompressEncryptPackets, get_compression
    <2>2. n + TagLen <= c.max_packet_size
      BY <1>1, <1>2 DEF EveryPacketFits
    <2> QED BY <2>1, <2>2
  <1>3. CASE ~Compressed
    <2>1. p.len = NonceLen + Size[m] + TagLen
      BY <1>3 DEF Packets, EncryptPackets
    <2> QED BY <1>1, <1>3, <2>1 DEF EveryPacketFits
  <1> QED BY <1>2, <1>3

\* A packet stays where it is while nobody moves it.
LEMMA PacketStands ==
    ASSUME NEW s \in Side, OnePacket(s),
           UNCHANGED <<sealed[s], delivered[Peer(s)], out[s], wire[s], opening[Peer(s)]>>,
           sending'[s] = "sealed" <=> sending[s] = "sealed"
    PROVE  OnePacket(s)'
  <1>1. Underway(s)' = Underway(s) /\ Sealed(s)' = Sealed(s)
    BY DEF Underway, Sealed
  <1>2. \A o, w, i : Hold(s, o, w, i) => out'[s] = o /\ wire'[s] = w /\ opening'[Peer(s)] = i
    BY DEF Hold
  <1> QED BY <1>1, <1>2 DEF OnePacket, Hold

\* What is on its way is whole, is the last packet sealed, and fits.
LEMMA PacketFound ==
    ASSUME TurnsInv, NEW s \in Side,
           sending[s] = "sealed" \/ out[s] # <<>> \/ wire[s] # <<>> \/ opening[Peer(s)] # {}
    PROVE  /\ Underway(s)
           /\ cipher[Peer(s)] = Sealed(s).key /\ cipher[s] = Sealed(s).next
           /\ \A c \in Config : Sealed(s).len <= c.max_packet_size
           /\ sending[s] = "sealed" => Hold(s, <<>>, <<>>, {})
           /\ out[s] # <<>> =>
                 Hold(s, <<Whole(Sealed(s))>>, <<>>, {}) /\ sending[s] # "sealed"
           /\ wire[s] # <<>> =>
                 Hold(s, <<>>, <<Whole(Sealed(s))>>, {}) /\ sending[s] # "sealed"
           /\ opening[Peer(s)] # {} =>
                 Hold(s, <<>>, <<>>, {Whole(Sealed(s))}) /\ sending[s] # "sealed"
  <1>1. OnePacket(s)
    BY DEF TurnsInv, InTurns
  <1>2. Underway(s)
    BY <1>1 DEF OnePacket, Hold
  <1>3. /\ cipher[Peer(s)] = Sealed(s).key /\ cipher[s] = Sealed(s).next
        /\ \A c \in Config : Sealed(s).len <= c.max_packet_size
    BY <1>2 DEF TurnsInv, InTurns, NonceTurns
  <1>4. <<Whole(Sealed(s))>> # <<>> /\ {Whole(Sealed(s))} # {}
    OBVIOUS
  <1> QED BY <1>1, <1>2, <1>3, <1>4 DEF OnePacket, Hold

\* The chain of nonces stands where it is while nothing is sealed or opened.
LEMMA TurnStands ==
    ASSUME TurnsInv, UNCHANGED <<cipher, sealed, delivered, up, faults>>,
           \A s \in Side :
              /\ ~skew'[s]
              /\ recvRes'[s] = recvRes[s]
              /\ Len(sealed[s]) = okSends'[s] + (IF sending'[s] = "idle" THEN 0 ELSE 1)
              /\ OnePacket(s)'
    PROVE  InTurns'
  <1>1. Alternate'
    BY DEF TurnsInv, InTurns, Alternate
  <1>2. NonceTurns'
    BY DEF TurnsInv, InTurns, NonceTurns, Underway, Sealed
  <1> QED BY <1>1, <1>2 DEF TurnsInv, InTurns

-----------------------------------------------------------------------------
(* The steps *)

\* The side whose turn it is seals a packet under the nonce both hold, which
\* neither of them has sealed a packet under before.
LEMMA SealTurns ==
    ASSUME Turns, EveryPacketFits, TurnsInv, NEW s \in Side, Seal(s)
    PROVE  InTurns' /\ (NonceOnceOverall => NonceOnceOverall')
  <1> DEFINE p == Peer(s)
             n == Len(sealed[s])
  <1>1. s \in Side /\ p \in Side /\ p # s /\ Peer(p) = s /\ \A t \in Side : t = s \/ t = p
    BY PeerFacts
  <1>2. ~Underway(s) /\ ~Underway(p)
    BY OwnTurn DEF Seal
  <1>3. /\ n = Len(delivered[p]) /\ Len(sealed[p]) = Len(delivered[s])
        /\ n \in Nat /\ Len(sealed[p]) \in Nat
    BY <1>1, <1>2, TurnFacts
  <1>4. cipher[s] = cipher[p]
    BY <1>1, <1>2 DEF TurnsInv, InTurns, NonceTurns, Side
  <1>5. PICK m \in Message : \E q \in Packets(s, m, cipher[s], fresh) :
           sealed' = [sealed EXCEPT ![s] = Append(@, q)]
    BY DEF Seal
  <1>6. PICK q \in Packets(s, m, cipher[s], fresh) :
           sealed' = [sealed EXCEPT ![s] = Append(@, q)]
    BY <1>5
  <1>7. /\ cipher \in [Side -> Int] /\ fresh \in Nat /\ sealed \in [Side -> Seq(Packet)]
        /\ CONFIG \in [Side -> Config]
        /\ sending \in [Side -> {"idle", "sealed", "flushing"}]
    BY DEF TurnsInv, TypeInv, TypeOK
  <1>8. /\ q \in Packet /\ q.key = cipher[s] /\ q.next = fresh
        /\ \A c \in Config : q.len <= c.max_packet_size
    <2>1. cipher[s] \in Int /\ fresh \in Int
      BY <1>7
    <2>2. q \in Packet /\ q.key = cipher[s] /\ q.next = fresh
      BY <1>7, <2>1, PacketsType
    <2>3. \A c \in Config : q.len <= c.max_packet_size
      BY <1>7, PacketsFit
    <2> QED BY <2>2, <2>3
  <1>9. /\ sealed'[s] = Append(sealed[s], q) /\ sealed'[p] = sealed[p]
        /\ Len(sealed'[s]) = n + 1 /\ sealed'[s][n + 1] = q
        /\ \A j \in 1..n : sealed'[s][j] = sealed[s][j]
    <2>1. sealed'[s] = Append(sealed[s], q) /\ sealed'[p] = sealed[p]
      BY <1>1, <1>6, <1>7
    <2> QED BY <1>7, <1>8, <2>1, AppendElement
  <1>10. /\ cipher'[s] = fresh /\ cipher'[p] = cipher[p]
         /\ sending'[s] = "sealed" /\ sending'[p] = sending[p] /\ sending[s] = "idle"
         /\ UNCHANGED <<out, wire, skew, up, opening, recvRes, delivered, okSends, faults>>
    BY <1>1, <1>7 DEF Seal, MaySend, layerVars
  <1>11. Sealed(s)' = q /\ Underway(s)' /\ ~Underway(p)'
    <2>1. Sealed(s)' = q
      BY <1>9 DEF Sealed
    <2>2. Underway(s)' /\ ~Underway(p)'
      BY <1>1, <1>2, <1>3, <1>9, <1>10 DEF Underway
    <2> QED BY <2>1, <2>2
  <1>12. Alternate'
    <2>1. /\ Len(sealed["client"]) \in Nat /\ Len(delivered["client"]) \in Nat
          /\ Len(sealed["server"]) \in Nat /\ Len(delivered["server"]) \in Nat
      BY TurnFacts DEF Side
    <2>2. CASE s = "client"
      <3>1. p = "server"
        BY <2>2 DEF Peer
      <3>2. Len(sealed["client"]) = Len(delivered["client"])
        BY <2>2, OwnTurn DEF Seal
      <3> QED BY <1>9, <1>10, <2>1, <2>2, <3>1, <3>2 DEF Alternate, TurnsInv, InTurns
    <2>3. CASE s = "server"
      <3>1. p = "client"
        BY <2>3 DEF Peer
      <3>2. Len(sealed["server"]) < Len(delivered["server"])
        BY <2>3, OwnTurn DEF Seal
      <3> QED BY <1>9, <1>10, <2>1, <2>3, <3>1, <3>2 DEF Alternate, TurnsInv, InTurns
    <2> QED BY <2>2, <2>3 DEF Side
  <1>13. NonceTurns'
    BY <1>1, <1>4, <1>8, <1>10, <1>11 DEF NonceTurns
  <1>14. OnePacket(s)'
    <2>1. Hold(s, <<>>, <<>>, {})
      BY <1>2, <1>10 DEF TurnsInv, InTurns, OnePacket
    <2>2. Hold(s, <<>>, <<>>, {})'
      BY <1>10, <2>1 DEF Hold
    <2> QED BY <1>10, <1>11, <2>2 DEF OnePacket
  <1>15. OnePacket(p)'
    BY <1>1, <1>9, <1>10, PacketStands DEF TurnsInv, InTurns
  <1>16. Len(sealed'[s]) = okSends'[s] + 1
    <2>1. n = okSends[s] + 0
      BY <1>10 DEF TurnsInv, InTurns
    <2> QED BY <1>9, <1>10, <2>1, TurnFacts
  <1>17. fresh # None /\ cipher[p] # None
    <2>1. fresh # None
      BY <1>7 DEF None
    <2> QED BY <1>1, <2>1 DEF TurnsInv, InTurns
  <1>18. InTurns'
    <2>1. ASSUME NEW t \in Side
          PROVE  /\ cipher'[t] # None /\ ~skew'[t] /\ recvRes'[t] \in {"none", "Ok"}
                 /\ Len(sealed'[t]) =
                       okSends'[t] + (IF sending'[t] = "idle" THEN 0 ELSE 1)
                 /\ OnePacket(t)'
      <3>1. ~skew'[t] /\ recvRes'[t] \in {"none", "Ok"}
        BY <1>10 DEF TurnsInv, InTurns
      <3>2. CASE t = s
        BY <1>10, <1>14, <1>16, <1>17, <3>1, <3>2
      <3>3. CASE t = p
        <4>1. Len(sealed'[p]) = okSends'[p] + (IF sending'[p] = "idle" THEN 0 ELSE 1)
          BY <1>1, <1>9, <1>10 DEF TurnsInv, InTurns
        <4> QED BY <1>10, <1>15, <1>17, <3>1, <3>3, <4>1
      <3> QED BY <1>1, <3>2, <3>3
    <2> QED BY <1>10, <1>12, <1>13, <2>1 DEF TurnsInv, InTurns
  <1>19. ASSUME NonceOnceOverall PROVE NonceOnceOverall'
    <2>1. \A j \in 1..Len(sealed[p]) : sealed[p][j].key # cipher[s]
      BY <1>3, <1>1 DEF TurnsInv, IInv, NonceChain, Expected
    <2>2. \A i \in 1..Len(sealed'[s]), j \in 1..Len(sealed'[p]) :
             sealed'[s][i].key # sealed'[p][j].key
      <3>1. \A i \in 1..n, j \in 1..Len(sealed[p]) : sealed[s][i].key # sealed[p][j].key
        BY <1>1, <1>19 DEF NonceOnceOverall, Side
      <3>2. \A i \in 1..Len(sealed'[s]) : i \in 1..n \/ i = n + 1
        BY <1>3, <1>9
      <3> QED BY <1>8, <1>9, <2>1, <3>1, <3>2
    <2> QED BY <1>1, <2>2 DEF NonceOnceOverall, Side
  <1> QED BY <1>18, <1>19

\* The receiver has the nonce of the packet, and takes over the one inside.
LEMMA OpenTurns ==
    ASSUME TurnsInv, NEW s \in Side, OpenOk(s)
    PROVE  InTurns'
  <1> DEFINE p == Peer(s)
  <1>1. s \in Side /\ p \in Side /\ p # s /\ Peer(p) = s /\ \A t \in Side : t = s \/ t = p
    BY PeerFacts
  <1>2. PICK i \in opening[s] :
           /\ cipher' = [cipher EXCEPT ![s] = i.pkt.next]
           /\ delivered' = [delivered EXCEPT ![s] = Append(@, i.pkt)]
    BY DEF OpenOk
  <1>3. /\ Underway(p) /\ cipher[p] = Sealed(p).next
        /\ Hold(p, <<>>, <<>>, {Whole(Sealed(p))}) /\ sending[p] # "sealed"
    BY <1>1, <1>2, PacketFound
  <1>4. i.pkt = Sealed(p)
    BY <1>1, <1>3 DEF Hold, Whole
  <1>5. /\ cipher \in [Side -> Int] /\ delivered \in [Side -> Seq(Packet)]
        /\ recvRes \in [Side -> Result] /\ opening \in [Side -> SUBSET Item]
        /\ i.pkt \in Packet
    BY DEF TurnsInv, TypeInv, TypeOK, Item
  <1>6. /\ cipher'[s] = cipher[p] /\ cipher'[p] = cipher[p]
        /\ Len(delivered'[s]) = Len(delivered[s]) + 1 /\ delivered'[p] = delivered[p]
    BY <1>1, <1>2, <1>3, <1>4, <1>5, AppendElement
  <1>7. /\ recvRes'[s] = "Ok" /\ recvRes'[p] = recvRes[p]
        /\ opening'[s] = {} /\ opening'[p] = opening[p]
        /\ UNCHANGED <<out, wire, skew, up, sending, sealed, okSends, faults>>
    BY <1>1, <1>5 DEF OpenOk, OpenItem, layerVars
  <1>8. /\ Len(sealed[p]) = Len(delivered[s]) + 1 /\ Len(sealed[s]) = Len(delivered[p])
        /\ Len(delivered[s]) \in Nat
    BY <1>1, <1>3, TurnFacts DEF Underway
  <1>9. ~Underway(s)' /\ ~Underway(p)'
    BY <1>1, <1>6, <1>7, <1>8, TurnFacts DEF Underway
  <1>10. Alternate'
    <2>1. /\ Len(sealed["client"]) \in Nat /\ Len(delivered["client"]) \in Nat
          /\ Len(sealed["server"]) \in Nat /\ Len(delivered["server"]) \in Nat
      BY TurnFacts DEF Side
    <2>2. CASE s = "client"
      <3>1. p = "server"
        BY <2>2 DEF Peer
      <3> QED BY <1>6, <1>7, <1>8, <2>1, <2>2, <3>1 DEF Alternate, TurnsInv, InTurns
    <2>3. CASE s = "server"
      <3>1. p = "client"
        BY <2>3 DEF Peer
      <3> QED BY <1>6, <1>7, <1>8, <2>1, <2>3, <3>1 DEF Alternate, TurnsInv, InTurns
    <2> QED BY <2>2, <2>3 DEF Side
  <1>11. NonceTurns'
    <2>1. cipher'["client"] = cipher'["server"]
      BY <1>1, <1>6 DEF Side
    <2> QED BY <1>1, <1>9, <2>1 DEF NonceTurns
  <1>12. OnePacket(p)'
    <2>1. Hold(p, <<>>, <<>>, {})'
      BY <1>1, <1>3, <1>7 DEF Hold
    <2> QED BY <1>3, <1>7, <1>9, <2>1 DEF OnePacket
  <1>13. OnePacket(s)'
    BY <1>1, <1>6, <1>7, PacketStands DEF TurnsInv, InTurns
  <1> QED BY <1>1, <1>6, <1>7, <1>10, <1>11, <1>12, <1>13 DEF TurnsInv, InTurns

\* The writer, the connection and the reader hand the packet on.
LEMMA MoveTurns ==
    ASSUME TurnsInv, NEW s \in Side, Write(s) \/ Transmit(s) \/ Read(s)
    PROVE  InTurns'
  <1> DEFINE p == Peer(s)
  <1>1. s \in Side /\ p \in Side /\ p # s /\ Peer(p) = s /\ \A t \in Side : t = s \/ t = p
    BY PeerFacts
  <1>2. /\ out \in [Side -> Seq(Item)] /\ wire \in [Side -> Seq(Item)]
        /\ opening \in [Side -> SUBSET Item]
        /\ sending \in [Side -> {"idle", "sealed", "flushing"}]
    BY DEF TurnsInv, TypeInv, TypeOK
  <1>3. UNCHANGED <<cipher, sealed, delivered, okSends, up, skew, recvRes, faults>>
    BY DEF Write, WritePacket, Transmit, Drain, cipherVars, Read, ReadPacket, Recv
  <1>4. \A t \in Side : sending'[t] = "idle" <=> sending[t] = "idle"
    BY <1>2 DEF Write, Transmit, cipherVars, Read, Recv
  <1>5. \A t \in Side : Underway(t)' = Underway(t) /\ Sealed(t)' = Sealed(t)
    BY <1>3 DEF Underway, Sealed
  <1>6. \A x : Append(<<>>, x) = <<x>> /\ Head(<<x>>) = x /\ Tail(<<x>>) = <<>>
    OBVIOUS
  <1>7. CASE Write(s)
    <2>1. /\ Underway(s) /\ Hold(s, <<>>, <<>>, {}) /\ sending'[s] = "flushing"
          /\ out' = [out EXCEPT ![s] = Append(@, Whole(Sealed(s)))]
          /\ sending' = [sending EXCEPT ![s] = "flushing"] /\ UNCHANGED <<wire, opening>>
      BY <1>2, <1>7, PacketFound DEF Write, WritePacket
    <2>2. Hold(s, <<Whole(Sealed(s))>>, <<>>, {})'
      BY <1>2, <1>5, <1>6, <2>1 DEF Hold
    <2>3. OnePacket(s)'
      BY <1>5, <2>1, <2>2 DEF OnePacket
    <2>4. OnePacket(p)'
      BY <1>1, <1>2, <1>3, <2>1, PacketStands DEF TurnsInv, InTurns
    <2> QED BY <1>1, <1>3, <1>4, <2>3, <2>4, TurnStands DEF TurnsInv, InTurns
  <1>8. CASE Transmit(s)
    <2>1. /\ Underway(s) /\ Hold(s, <<Whole(Sealed(s))>>, <<>>, {}) /\ sending[s] # "sealed"
          /\ wire' = [wire EXCEPT ![s] = Append(@, Head(out[s]))]
          /\ out' = [out EXCEPT ![s] = Tail(@)] /\ UNCHANGED <<opening, sending>>
      BY <1>8, PacketFound DEF Transmit, Drain, cipherVars
    <2>2. Hold(s, <<>>, <<Whole(Sealed(s))>>, {})'
      BY <1>2, <1>5, <1>6, <2>1 DEF Hold
    <2>3. OnePacket(s)'
      BY <1>5, <2>1, <2>2 DEF OnePacket
    <2>4. OnePacket(p)'
      BY <1>1, <1>2, <1>3, <2>1, PacketStands DEF TurnsInv, InTurns
    <2> QED BY <1>1, <1>3, <1>4, <2>3, <2>4, TurnStands DEF TurnsInv, InTurns
  <1>9. CASE Read(s)
    <2>1. /\ Underway(p) /\ Hold(p, <<>>, <<Whole(Sealed(p))>>, {}) /\ sending[p] # "sealed"
          /\ wire' = [wire EXCEPT ![p] = Tail(@)]
          /\ opening' = [opening EXCEPT ![s] = {Head(wire[p])}]
          /\ UNCHANGED <<out, sending>>
      BY <1>1, <1>9, PacketFound DEF Read, ReadPacket, Aligned, DropItem, Incoming, Recv
    <2>2. Hold(p, <<>>, <<>>, {Whole(Sealed(p))})'
      BY <1>1, <1>2, <1>5, <1>6, <2>1 DEF Hold
    <2>3. OnePacket(p)'
      BY <1>1, <1>5, <2>1, <2>2 DEF OnePacket
    <2>4. OnePacket(s)'
      BY <1>1, <1>2, <1>3, <2>1, PacketStands DEF TurnsInv, InTurns
    <2> QED BY <1>1, <1>3, <1>4, <2>3, <2>4, TurnStands DEF TurnsInv, InTurns
  <1> QED BY <1>7, <1>8, <1>9

\* The end of a send and a new configuration leave the packet where it is.
LEMMA StayTurns ==
    ASSUME TurnsInv, NEW s \in Side, Flush(s) \/ Configure(s)
    PROVE  InTurns'
  <1>1. /\ sending \in [Side -> {"idle", "sealed", "flushing"}]
        /\ okSends \in [Side -> Nat]
    BY DEF TurnsInv, TypeInv, TypeOK
  <1>2. UNCHANGED <<cipher, sealed, delivered, up, skew, recvRes, faults,
                    out, wire, opening>>
    BY DEF Flush, Flushed, EndSend, layerVars, Configure, set_config, cipherVars
  <1>3. \A t \in Side : sending'[t] = "sealed" <=> sending[t] = "sealed"
    BY <1>1 DEF Flush, EndSend, Configure, cipherVars
  <1>4. \A t \in Side : OnePacket(t)'
    BY <1>2, <1>3, PacketStands DEF TurnsInv, InTurns
  <1>5. ASSUME NEW t \in Side
        PROVE  Len(sealed[t]) = okSends'[t] + (IF sending'[t] = "idle" THEN 0 ELSE 1)
    <2>1. Len(sealed[t]) = okSends[t] + (IF sending[t] = "idle" THEN 0 ELSE 1)
      BY DEF TurnsInv, InTurns
    <2>2. CASE UNCHANGED <<okSends, sending>>
      BY <2>1, <2>2
    <2>3. CASE Flush(s) /\ t = s
      BY <1>1, <2>1, <2>3 DEF Flush, EndSend
    <2>4. CASE Flush(s) /\ t # s
      BY <1>1, <2>1, <2>4 DEF Flush, EndSend
    <2> QED BY <2>2, <2>3, <2>4 DEF Configure, cipherVars
  <1> QED BY <1>2, <1>4, <1>5, TurnStands DEF TurnsInv, InTurns

\* Nothing else can happen: no Cipher is broken, no packet is too large or cut, and
\* every packet opens.
LEMMA NothingFails ==
    ASSUME MaxFaults = 0, TurnsInv, NEW s \in Side
    PROVE  /\ ~SealBroken(s) /\ ~SealFails(s) /\ ~SendTooLarge(s) /\ ~SendIO(s)
           /\ ~CancelSend(s) /\ ~ReadGarbage(s) /\ ~ReadOn(s) /\ ~RecvTooLarge(s)
           /\ ~RecvIO(s) /\ ~CancelRecv(s) /\ ~OpenFails(s) /\ ~OpenBroken(s)
           /\ ~LoseConnection
  <1> DEFINE p == Peer(s)
  <1>1. s \in Side /\ p \in Side /\ p # s /\ Peer(p) = s
    BY PeerFacts
  <1>2. /\ up /\ cipher[s] # None /\ ~skew[s] /\ CONFIG[s] \in Config
    BY DEF TurnsInv, InTurns, TypeInv, TypeOK
  <1>3. ~Fault
    BY DEF Fault, TurnsInv, InTurns
  <1>4. ~SealFails(s) /\ ~CancelSend(s) /\ ~CancelRecv(s) /\ ~LoseConnection
    BY <1>3 DEF SealFails, CancelSend, CancelRecv, LoseConnection
  <1>5. ~SealBroken(s) /\ ~OpenBroken(s) /\ ~SendIO(s) /\ ~RecvIO(s)
    BY <1>2 DEF SealBroken, OpenBroken, SendIO, RecvIO
  <1>6. ~SendTooLarge(s)
    <2>1. sending[s] = "sealed" => Sealed(s).len <= CONFIG[s].max_packet_size
      BY <1>2, PacketFound
    <2> QED BY <2>1 DEF SendTooLarge, WriteTooLarge, check_bytes_len, get_max_packet_size
  <1>7. Incoming(s) # <<>> =>
            /\ Head(Incoming(s)) = Whole(Sealed(p))
            /\ Sealed(p).len <= CONFIG[s].max_packet_size
    BY <1>1, <1>2, PacketFound DEF Incoming, Hold
  <1>8. ~Misaligned(s) /\ ~ReadTooLarge(s)
    <2>1. Whole(Sealed(p)).cut = FALSE /\ Whole(Sealed(p)).pkt = Sealed(p)
      BY DEF Whole
    <2>2. Incoming(s) # <<>> =>
             /\ ~Head(Incoming(s)).cut
             /\ Head(Incoming(s)).pkt.len <= CONFIG[s].max_packet_size
      BY <1>7, <2>1
    <2> QED BY <1>2, <2>2 DEF Misaligned, ReadTooLarge, Aligned, check_bytes_len,
                              get_max_packet_size
  <1>9. ~ReadGarbage(s) /\ ~ReadOn(s) /\ ~RecvTooLarge(s)
    BY <1>8 DEF ReadGarbage, ReadOn, RecvTooLarge, Misread, MisreadOn
  <1>10. ~OpenFails(s)
    <2>1. ASSUME NEW i \in opening[s] PROVE Opens(s, i)
      <3>1. i = Whole(Sealed(p)) /\ cipher[s] = Sealed(p).key
        BY <1>1, <2>1, PacketFound DEF Hold
      <3> QED BY <3>1 DEF Opens, Whole
    <2> QED BY <2>1 DEF OpenFails
  <1> QED BY <1>4, <1>5, <1>6, <1>9, <1>10

-----------------------------------------------------------------------------
(* The theorems *)

\* The invariant holds initially.
LEMMA TurnsInit ==
    ASSUME Init, Turns
    PROVE  TurnsInv /\ NonceOnceOverall
  <1>1. IInv /\ TypeInv
    BY IInvInit
  <1>2. \A s \in Side :
           /\ Len(sealed[s]) = 0 /\ Len(delivered[s]) = 0 /\ okSends[s] = 0
           /\ cipher[s] = 0 /\ ~skew[s] /\ recvRes[s] = "none" /\ sending[s] = "idle"
           /\ out[s] = <<>> /\ wire[s] = <<>> /\ opening[s] = {}
    BY DEF Init, InitLayer
  <1>3. \A s \in Side : ~Underway(s) /\ Hold(s, <<>>, <<>>, {})
    BY <1>2, PeerFacts DEF Underway, Hold
  <1>4. \A s \in Side : OnePacket(s)
    BY <1>2, <1>3 DEF OnePacket
  <1>5. Alternate /\ NonceTurns
    BY <1>2, <1>3 DEF Alternate, NonceTurns, Side
  <1>6. InTurns
    BY <1>2, <1>4, <1>5 DEF InTurns, Init, InitLayer, None
  <1>7. NonceOnceOverall
    BY <1>2 DEF NonceOnceOverall, Side
  <1> QED BY <1>1, <1>6, <1>7 DEF TurnsInv

\* Every step keeps the invariant.
LEMMA TurnsNext ==
    ASSUME Turns, MaxFaults = 0, EveryPacketFits, TurnsInv, NonceOnceOverall, [Next]_vars
    PROVE  TurnsInv' /\ NonceOnceOverall'
  <1>1. IInv' /\ TypeInv'
    BY IInvNext DEF TurnsInv
  <1>2. ASSUME NEW s \in Side, Seal(s) PROVE InTurns' /\ NonceOnceOverall'
    BY <1>2, SealTurns
  <1>3. ASSUME UNCHANGED sealed, InTurns' PROVE InTurns' /\ NonceOnceOverall'
    BY <1>3 DEF NonceOnceOverall
  <1>4. ASSUME NEW s \in Side, OpenOk(s) PROVE InTurns' /\ NonceOnceOverall'
    BY <1>3, <1>4, OpenTurns DEF OpenOk, OpenItem
  <1>5. ASSUME NEW s \in Side, Write(s) \/ Transmit(s) \/ Read(s)
        PROVE  InTurns' /\ NonceOnceOverall'
    BY <1>3, <1>5, MoveTurns DEF Write, Transmit, cipherVars, Read, Recv
  <1>6. ASSUME NEW s \in Side, Flush(s) \/ Configure(s)
        PROVE  InTurns' /\ NonceOnceOverall'
    BY <1>3, <1>6, StayTurns DEF Flush, EndSend, Configure, cipherVars
  <1>7. CASE UNCHANGED vars
    <2>1. \A s \in Side : OnePacket(s)'
      BY <1>7, PacketStands DEF vars, layerVars, cipherVars, TurnsInv, InTurns
    <2>2. InTurns'
      BY <1>7, <2>1, TurnStands DEF vars, layerVars, cipherVars, TurnsInv, InTurns
    <2> QED BY <1>1, <1>3, <1>7, <2>2 DEF vars, cipherVars, TurnsInv
  <1>8. CASE Next
    <2>1. ~LoseConnection
      BY NothingFails, "client" \in Side DEF Side
    <2>2. PICK s \in Side : SendStep(s) \/ RecvStep(s) \/ Transmit(s) \/ Configure(s)
      BY <1>8, <2>1 DEF Next
    <2>3. InTurns' /\ NonceOnceOverall'
      BY <1>2, <1>4, <1>5, <1>6, <2>2, NothingFails DEF SendStep, RecvStep
    <2> QED BY <1>1, <2>3 DEF TurnsInv
  <1> QED BY <1>7, <1>8

\* While requests and answers alternate, nothing fails and every packet fits, one
\* packet at most is on its way and the two Ciphers keep up with it.
THEOREM TurnsKept ==
    ASSUME Turns, MaxFaults = 0, EveryPacketFits
    PROVE  Spec => []InTurns
  <1>1. Init => TurnsInv /\ NonceOnceOverall
    BY TurnsInit
  <1>2. (TurnsInv /\ NonceOnceOverall) /\ [Next]_vars => (TurnsInv /\ NonceOnceOverall)'
    BY TurnsNext
  <1>3. TurnsInv => InTurns
    BY DEF TurnsInv
  <1> QED BY <1>1, <1>2, <1>3, PTL DEF Spec

\* No recv then fails to decrypt or finds its Cipher broken.
THEOREM NothingFailsToDecrypt ==
    ASSUME Turns, MaxFaults = 0, EveryPacketFits
    PROVE  Spec => []NoDecryptError
  <1>1. InTurns => NoDecryptError
    BY DEF InTurns, NoDecryptError
  <1> QED BY <1>1, TurnsKept, PTL

\* The client never encrypts under a nonce that the server has encrypted under, nor
\* the server under one of the client's.
THEOREM NoNonceReuseOverall ==
    ASSUME Turns, MaxFaults = 0, EveryPacketFits
    PROVE  Spec => []NonceOnceOverall
  <1>1. Init => TurnsInv /\ NonceOnceOverall
    BY TurnsInit
  <1>2. (TurnsInv /\ NonceOnceOverall) /\ [Next]_vars => (TurnsInv /\ NonceOnceOverall)'
    BY TurnsNext
  <1> QED BY <1>1, <1>2, PTL DEF Spec
=============================================================================
