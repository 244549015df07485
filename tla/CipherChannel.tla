--------------------------- MODULE CipherChannel ---------------------------
(***************************************************************************)
(* send and recv of the encrypt and compress_encrypt protocols             *)
(* (src/protocols/encrypt.rs, compress_encrypt.rs) between the two ends of *)
(* an established connection.                                              *)
(*                                                                         *)
(* Each end owns one Cipher: the AES key both got from the handshake and   *)
(* ONE nonce, used for both directions.  send seals a message and a fresh  *)
(* nonce under the current nonce and moves to the fresh one; recv opens a  *)
(* packet under the current nonce and moves to the one found inside.  The  *)
(* nonce is taken out of the Cipher while it is used and put back only on  *)
(* success, so a failed operation leaves the Cipher broken for good.       *)
(***************************************************************************)
EXTENDS PacketLayer

CONSTANTS
    Message,     \* the messages an application may send
    Size,        \* their lengths in bytes
    Deflate(_, _), \* the lengths DeflateEncoder may produce at a level from n bytes
    Compressed,  \* FALSE: encrypt, TRUE: compress_encrypt
    Turns,       \* do both applications keep to request and response?
    MaxSends,    \* bound: messages sealed by the two sides together
    MaxFaults    \* bound: lost connections, dropped futures, failed encryptions

NonceLen == 12      \* U12, the nonce of AES-GCM
TagLen == 16        \* the tag encrypt_in_place appends

ASSUME CipherAssumption ==
    /\ Size \in [Message -> Nat]
    /\ \A l \in Level, m \in Message : Deflate(l, NonceLen + Size[m]) \subseteq Nat
    /\ Compressed \in BOOLEAN
    /\ Turns \in BOOLEAN
    /\ MaxSends \in Nat
    /\ MaxFaults \in Nat

VARIABLES
    cipher,     \* per side: the nonce in its Cipher, or None
    fresh,      \* the next nonce generate_nonce will return
    sending,    \* per side: how far its running send has come
    opening,    \* per side: the item its running recv has read, if any
    sendRes,    \* per side: how its last send ended
    recvRes,    \* per side: how its last recv ended
    sealed,     \* history, per side: the packets it has sealed
    delivered,  \* history, per side: the packets whose message recv returned
    okSends,    \* history, per side: the number of sends that returned Ok
    faults      \* the number of faults so far

cipherVars == <<cipher, fresh, sending, opening, sendRes, recvRes,
                sealed, delivered, okSends, faults>>
vars == <<layerVars, cipherVars>>

None == -1          \* Option::None

\* A packet is sealed under the nonce `key` and holds the nonce `next`.
Packet == [key : Int, next : Int, msg : Message, len : Nat]

\* What the streams and a running recv hold: a whole packet, or bytes that are
\* not a whole packet and that no nonce opens.
Item == [pkt : Packet, cut : BOOLEAN]

Result == {"none", "Ok", "TooLarge", "IO", "AES", "Broken", "Cancelled"}

Init ==
    /\ InitLayer
    /\ cipher    = [s \in Side |-> 0]
    /\ fresh     = 1
    /\ sending   = [s \in Side |-> "idle"]
    /\ opening   = [s \in Side |-> {}]
    /\ sendRes   = [s \in Side |-> "none"]
    /\ recvRes   = [s \in Side |-> "none"]
    /\ sealed    = [s \in Side |-> <<>>]
    /\ delivered = [s \in Side |-> <<>>]
    /\ okSends   = [s \in Side |-> 0]
    /\ faults    = 0

-----------------------------------------------------------------------------
(* The callers *)

\* One side's use of TcpHandler::handler_send_recv: a request goes out when no
\* answer is outstanding, an answer when a request has come in.
RequestResponse(s) ==
    IF s = "client" THEN okSends[s] = Len(delivered[s])
                    ELSE okSends[s] < Len(delivered[s])

MaySend(s) ==
    /\ sending[s] = "idle"
    /\ Len(sealed[s]) + Len(sealed[Peer(s)]) < MaxSends
    /\ Turns => RequestResponse(s)

Fault ==
    /\ faults < MaxFaults
    /\ faults' = faults + 1

-----------------------------------------------------------------------------
(* send *)

\* The packets send may build from m: the new nonce x and the message, deflated
\* first in compress_encrypt, encrypted under k with the tag appended.
EncryptPackets(m, k, x) ==
    {[key |-> k, next |-> x, msg |-> m, len |-> NonceLen + Size[m] + TagLen]}

CompressEncryptPackets(l, m, k, x) ==
    {[key |-> k, next |-> x, msg |-> m, len |-> d + TagLen] :
        d \in Deflate(l, NonceLen + Size[m])}

Packets(s, m, k, x) ==
    IF Compressed THEN CompressEncryptPackets(get_compression(s), m, k, x)
                  ELSE EncryptPackets(m, k, x)

\* Mutant: Cipher::reset puts the old nonce back.
SealUnderOldNonce(s) ==
    /\ MaySend(s)
    /\ cipher[s] # None
    /\ \E m \in Message : \E p \in Packets(s, m, cipher[s], fresh) :
          sealed' = [sealed EXCEPT ![s] = Append(@, p)]
    /\ fresh' = fresh + 1
    /\ sending' = [sending EXCEPT ![s] = "sealed"]
    /\ UNCHANGED <<layerVars, cipher, opening, sendRes, recvRes, delivered, okSends, faults>>

\* Cipher::get finds the nonce, the packet is encrypted, Cipher::reset stores
\* the new nonce; the Cipher's lock is held throughout.
Seal(s) ==
    /\ MaySend(s)
    /\ cipher[s] # None
    /\ \E m \in Message : \E p \in Packets(s, m, cipher[s], fresh) :
          sealed' = [sealed EXCEPT ![s] = Append(@, p)]
    /\ cipher' = [cipher EXCEPT ![s] = fresh]
    /\ fresh' = fresh + 1
    /\ sending' = [sending EXCEPT ![s] = "sealed"]
    /\ UNCHANGED <<layerVars, opening, sendRes, recvRes, delivered, okSends, faults>>

\* Mutant: a broken Cipher gets a new nonce.
SealRepairs(s) ==
    /\ MaySend(s)
    /\ cipher[s] = None
    /\ cipher' = [cipher EXCEPT ![s] = fresh]
    /\ fresh' = fresh + 1
    /\ sendRes' = [sendRes EXCEPT ![s] = "Broken"]
    /\ UNCHANGED <<layerVars, sending, opening, recvRes, sealed, delivered, okSends, faults>>

\* Cipher::get finds no nonce.
SealBroken(s) ==
    /\ MaySend(s)
    /\ cipher[s] = None
    /\ sendRes' = [sendRes EXCEPT ![s] = "Broken"]
    /\ UNCHANGED <<layerVars, cipher, fresh, sending, opening, recvRes,
                   sealed, delivered, okSends, faults>>

\* encrypt_in_place fails: the nonce taken by Cipher::get is not put back.
SealFails(s) ==
    /\ MaySend(s)
    /\ cipher[s] # None
    /\ Fault
    /\ cipher' = [cipher EXCEPT ![s] = None]
    /\ fresh' = fresh + 1
    /\ sendRes' = [sendRes EXCEPT ![s] = "AES"]
    /\ UNCHANGED <<layerVars, sending, opening, recvRes, sealed, delivered, okSends>>

Sealed(s) == sealed[s][Len(sealed[s])]

\* Mutant: the send is over and has not left its stage.
EndSendInStage(s, r) ==
    /\ sending' = [sending EXCEPT ![s] = r]
    /\ sendRes' = [sendRes EXCEPT ![s] = r]
    /\ UNCHANGED <<cipher, fresh, opening, recvRes, sealed, delivered>>

EndSend(s, r) ==
    /\ sending' = [sending EXCEPT ![s] = "idle"]
    /\ sendRes' = [sendRes EXCEPT ![s] = r]
    /\ UNCHANGED <<cipher, fresh, opening, recvRes, sealed, delivered>>

Write(s) ==
    /\ sending[s] = "sealed"
    /\ WritePacket(s, Sealed(s))
    /\ sending' = [sending EXCEPT ![s] = "flushing"]
    /\ UNCHANGED <<cipher, fresh, opening, sendRes, recvRes, sealed, delivered,
                   okSends, faults>>

\* Mutant: the Cipher goes back to the nonce the packet was sealed under.
SendTooLargeRestores(s) ==
    /\ sending[s] = "sealed"
    /\ WriteTooLarge(s, Sealed(s))
    /\ sending' = [sending EXCEPT ![s] = "idle"]
    /\ sendRes' = [sendRes EXCEPT ![s] = "TooLarge"]
    /\ cipher' = [cipher EXCEPT ![s] = Sealed(s).key]
    /\ UNCHANGED <<fresh, opening, recvRes, sealed, delivered, okSends, faults>>

\* The size is checked when the Cipher has already moved to the new nonce.
SendTooLarge(s) ==
    /\ sending[s] = "sealed"
    /\ WriteTooLarge(s, Sealed(s))
    /\ EndSend(s, "TooLarge")
    /\ UNCHANGED <<okSends, faults>>

Flush(s) ==
    /\ sending[s] = "flushing"
    /\ Flushed(s)
    /\ EndSend(s, "Ok")
    /\ okSends' = [okSends EXCEPT ![s] = @ + 1]
    /\ UNCHANGED faults

\* send stops at an await, in write_packet or in flush.
StopSend(s) ==
    \/ sending[s] = "sealed" /\ WriteInterrupted(s, Sealed(s))
    \/ sending[s] = "flushing" /\ UNCHANGED layerVars

SendIO(s) ==
    /\ ~up
    /\ StopSend(s)
    /\ EndSend(s, "IO")
    /\ UNCHANGED <<okSends, faults>>

CancelSend(s) ==
    /\ Fault
    /\ StopSend(s)
    /\ EndSend(s, "Cancelled")
    /\ UNCHANGED okSends

-----------------------------------------------------------------------------
(* recv *)

Recv(s, items) ==
    /\ opening[s] = {}
    /\ opening' = [opening EXCEPT ![s] = items]
    /\ UNCHANGED <<cipher, fresh, sending, sendRes, sealed, delivered, okSends>>

Read(s) ==
    /\ ReadPacket(s)
    /\ Recv(s, {Head(Incoming(s))})
    /\ UNCHANGED <<recvRes, faults>>

ReadGarbage(s) ==
    /\ Misread(s)
    /\ Recv(s, {Cut(Head(Incoming(s)).pkt)})
    /\ UNCHANGED <<recvRes, faults>>

ReadOn(s) ==
    /\ MisreadOn(s)
    /\ Recv(s, {})
    /\ UNCHANGED <<recvRes, faults>>

RecvTooLarge(s) ==
    /\ ReadTooLarge(s) \/ Misread(s)
    /\ Recv(s, {})
    /\ recvRes' = [recvRes EXCEPT ![s] = "TooLarge"]
    /\ UNCHANGED faults

RecvIO(s) ==
    /\ ~up
    /\ ReadInterrupted(s)
    /\ Recv(s, {})
    /\ recvRes' = [recvRes EXCEPT ![s] = "IO"]
    /\ UNCHANGED faults

CancelRecv(s) ==
    /\ Fault
    /\ ReadInterrupted(s)
    /\ Recv(s, {})
    /\ recvRes' = [recvRes EXCEPT ![s] = "Cancelled"]

\* The synchronous part of recv: Cipher::get, decrypt_in_place, and on success
\* Cipher::reset with the nonce found in the packet.
OpenItem(s) ==
    /\ opening' = [opening EXCEPT ![s] = {}]
    /\ UNCHANGED <<layerVars, fresh, sending, sendRes, sealed, okSends, faults>>

\* Mutant: the packet is not authenticated.
OpensAny(s, i) == ~i.cut

Opens(s, i) == ~i.cut /\ i.pkt.key = cipher[s]

\* Mutant: the Cipher keeps its nonce instead of the one in the packet.
OpenKeepsNonce(s) ==
    /\ cipher[s] # None
    /\ \E i \in opening[s] :
          /\ Opens(s, i)
          /\ delivered' = [delivered EXCEPT ![s] = Append(@, i.pkt)]
    /\ recvRes' = [recvRes EXCEPT ![s] = "Ok"]
    /\ UNCHANGED cipher
    /\ OpenItem(s)

OpenOk(s) ==
    /\ cipher[s] # None
    /\ \E i \in opening[s] :
          /\ Opens(s, i)
          /\ cipher' = [cipher EXCEPT ![s] = i.pkt.next]
          /\ delivered' = [delivered EXCEPT ![s] = Append(@, i.pkt)]
    /\ recvRes' = [recvRes EXCEPT ![s] = "Ok"]
    /\ OpenItem(s)

\* Mutant: the message is returned although decryption failed.
OpenFailsAndReturns(s) ==
    /\ cipher[s] # None
    /\ \E i \in opening[s] :
          /\ ~Opens(s, i)
          /\ delivered' = [delivered EXCEPT ![s] = Append(@, i.pkt)]
    /\ cipher' = [cipher EXCEPT ![s] = None]
    /\ recvRes' = [recvRes EXCEPT ![s] = "AES"]
    /\ OpenItem(s)

OpenFails(s) ==
    /\ cipher[s] # None
    /\ \E i \in opening[s] : ~Opens(s, i)
    /\ cipher' = [cipher EXCEPT ![s] = None]
    /\ recvRes' = [recvRes EXCEPT ![s] = "AES"]
    /\ OpenItem(s)
    /\ UNCHANGED delivered

OpenBroken(s) ==
    /\ cipher[s] = None
    /\ opening[s] # {}
    /\ recvRes' = [recvRes EXCEPT ![s] = "Broken"]
    /\ OpenItem(s)
    /\ UNCHANGED <<cipher, delivered>>

-----------------------------------------------------------------------------
(* The connection and the configuration *)

Transmit(s) == Drain(s) /\ UNCHANGED cipherVars

Configure(s) == \E c \in Config : set_config(s, c) /\ UNCHANGED cipherVars

LoseConnection ==
    /\ Fault
    /\ Disconnect
    /\ UNCHANGED <<cipher, fresh, sending, opening, sendRes, recvRes,
                   sealed, delivered, okSends>>

SendStep(s) ==
    \/ Seal(s) \/ SealBroken(s) \/ SealFails(s)
    \/ Write(s) \/ SendTooLarge(s) \/ Flush(s)
    \/ SendIO(s) \/ CancelSend(s)

RecvStep(s) ==
    \/ Read(s) \/ ReadGarbage(s) \/ ReadOn(s)
    \/ RecvTooLarge(s) \/ RecvIO(s) \/ CancelRecv(s)
    \/ OpenOk(s) \/ OpenFails(s) \/ OpenBroken(s)

Next ==
    \/ \E s \in Side : SendStep(s) \/ RecvStep(s) \/ Transmit(s) \/ Configure(s)
    \/ LoseConnection

Spec == Init /\ [][Next]_vars

\* The runtime polls a started send to its end, a caller that waits for a
\* message polls recv, and flush drives the writer until it is empty.  Nobody
\* is obliged to start a send, to fail, or to empty a writer without a flush.
Fairness ==
    \A s \in Side :
        /\ WF_vars(Write(s))
        /\ WF_vars(SendTooLarge(s))
        /\ WF_vars(Flush(s))
        /\ WF_vars(sending[s] = "flushing" /\ AutoFlush /\ Transmit(s))
        /\ WF_vars(Read(s))
        /\ WF_vars(OpenOk(s) \/ OpenFails(s) \/ OpenBroken(s))

FairSpec == Spec /\ Fairness

-----------------------------------------------------------------------------
(* Properties *)

\* Every variable keeps its type.
TypeOK ==
    /\ CONFIG \in [Side -> Config]
    /\ out \in [Side -> Seq(Item)]
    /\ wire \in [Side -> Seq(Item)]
    /\ skew \in [Side -> BOOLEAN]
    /\ up \in BOOLEAN
    /\ cipher \in [Side -> Int]
    /\ fresh \in Nat
    /\ sending \in [Side -> {"idle", "sealed", "flushing"}]
    /\ opening \in [Side -> SUBSET Item]
    /\ sendRes \in [Side -> Result]
    /\ recvRes \in [Side -> Result]
    /\ sealed \in [Side -> Seq(Packet)]
    /\ delivered \in [Side -> Seq(Packet)]
    /\ okSends \in [Side -> Nat]
    /\ faults \in Nat

\* The messages recv has returned are the first messages the other side's send
\* has sealed, in the same order and without a gap, whatever was cancelled, cut
\* short, too large or lost: one lost packet ends the direction for good.
InOrder ==
    \A s \in Side :
        /\ Len(delivered[s]) <= Len(sealed[Peer(s)])
        /\ \A j \in 1..Len(delivered[s]) : delivered[s][j] = sealed[Peer(s)][j]

\* Two working Ciphers that hold the same nonce have nothing outstanding
\* between them: each side has received all the other has ever sealed.
InSync ==
    cipher["client"] = cipher["server"] /\ cipher["client"] # None
        => \A s \in Side : Len(delivered[s]) = Len(sealed[Peer(s)])

\* No side ever encrypts two packets under one nonce, although nonces come
\* back to it from the peer and operations are retried after failures.
NonceOnce ==
    \A s \in Side : \A i, j \in 1..Len(sealed[s]) :
        sealed[s][i].key = sealed[s][j].key => i = j

\* A broken Cipher stays broken: neither send nor recv ever puts a nonce back,
\* and nothing is delivered to that side any more.
BrokenIsFinal ==
    [][\A s \in Side : cipher[s] = None =>
          cipher'[s] = None /\ delivered'[s] = delivered[s]]_vars

\* When the applications alternate, every packet fits and nothing fails, no
\* recv ever fails to decrypt and no Cipher breaks.
NoDecryptError == \A s \in Side : recvRes[s] \notin {"AES", "Broken"}

\* Under the same conditions neither side ever encrypts under a nonce that the
\* other has encrypted under; that no side repeats its own is NonceOnce.
NonceOnceOverall ==
    \A i \in 1..Len(sealed["client"]), j \in 1..Len(sealed["server"]) :
        sealed["client"][i].key # sealed["server"][j].key

\* Every message sealed is received in the end.
Delivered ==
    \A s \in Side : \A n \in 1..MaxSends :
        Len(sealed[s]) >= n ~> Len(delivered[Peer(s)]) >= n

\* A send or recv that returned an error other than Broken has broken the
\* Cipher, as the documentation of PacketError::Broken says.
ErrorBreaksCipher ==
    \A s \in Side :
        \/ sendRes[s] \in {"TooLarge", "IO", "AES"}
        \/ recvRes[s] \in {"TooLarge", "IO", "AES"}
        => cipher[s] = None

\* To its callers the channel is the abstract one: what recv returns is what the
\* other side's send was given, in order and without a gap.
MessagesOf(packets) == [i \in 1..Len(packets) |-> packets[i].msg]
Messages(history) == [s \in Side |-> MessagesOf(history[s])]

Channel == INSTANCE MessageChannel
    WITH Payload <- Message, sent <- Messages(sealed), got <- Messages(delivered)

Refinement == Channel!Spec

-----------------------------------------------------------------------------
(***************************************************************************)
(* The inductive invariant behind InOrder, InSync, NonceOnce and           *)
(* Refinement.  The order of the streams plays no part in it: the chain of *)
(* nonces alone decides which packet a Cipher can open next.               *)
(***************************************************************************)
IsSealed(s, p) == \E j \in 1..Len(sealed[s]) : sealed[s][j] = p

\* What travels from s to its peer, in whatever condition, was sealed by s.
Genuine ==
    \A s \in Side :
        /\ \A k \in 1..Len(out[s]) : IsSealed(s, out[s][k].pkt)
        /\ \A k \in 1..Len(wire[s]) : IsSealed(s, wire[s][k].pkt)
        /\ \A i \in opening[Peer(s)] : IsSealed(s, i.pkt)

\* Nonces in use have been generated before, and no packet holds the first one.
Generated ==
    /\ fresh > 0
    /\ \A s \in Side :
          /\ None <= cipher[s] /\ cipher[s] < fresh
          /\ \A j \in 1..Len(sealed[s]) :
                /\ 0 <= sealed[s][j].key /\ sealed[s][j].key < fresh
                /\ 0 < sealed[s][j].next /\ sealed[s][j].next < fresh

\* No two packets hold the same new nonce.
Distinct ==
    \A s, t \in Side : \A j \in 1..Len(sealed[s]), k \in 1..Len(sealed[t]) :
        sealed[s][j].next = sealed[t][k].next => s = t /\ j = k

\* A nonce s made itself serves s in its next packet or never.
Chain ==
    \A s \in Side : \A j \in 1..Len(sealed[s]) :
        /\ cipher[s] = sealed[s][j].next => j = Len(sealed[s])
        /\ \A k \in 1..Len(sealed[s]) :
              sealed[s][k].key = sealed[s][j].next => k = j + 1

\* The only packet s can open is the next one it has not received, and then its
\* peer has received everything s has sealed.
Expected ==
    \A s \in Side : \A j \in 1..Len(sealed[Peer(s)]) :
        sealed[Peer(s)][j].key = cipher[s]
            => /\ j = Len(delivered[s]) + 1
               /\ Len(delivered[Peer(s)]) = Len(sealed[s])

\* s encrypts under a nonce of its peer only after receiving it, and its Cipher
\* never holds a nonce s has encrypted under.
Returned ==
    \A s \in Side :
        /\ \A j \in 1..Len(sealed[Peer(s)]) :
              /\ cipher[s] = sealed[Peer(s)][j].next => j <= Len(delivered[s])
              /\ \A k \in 1..Len(sealed[s]) :
                    sealed[s][k].key = sealed[Peer(s)][j].next
                        => j <= Len(delivered[s])
        /\ \A k \in 1..Len(sealed[s]) : sealed[s][k].key # cipher[s]

NonceChain ==
    /\ Generated /\ Distinct /\ Chain /\ Expected /\ Returned
    /\ InSync /\ InOrder /\ NonceOnce

\* The nonces the packets carry form one chain, and each Cipher stands at the
\* end of it or at the packet it has to receive next.
IInv == TypeOK /\ Genuine /\ NonceChain

-----------------------------------------------------------------------------
(***************************************************************************)
(* The inductive invariant behind NoDecryptError and NonceOnceOverall:     *)
(* while the applications alternate, nothing fails and every packet fits,  *)
(* one packet at most is on its way, and the nonces turn with it.          *)
(***************************************************************************)

\* Every packet send may build passes every limit, whichever configurations its
\* level and the two checks are read from.
EveryPacketFits ==
    \A c, d \in Config : \A m \in Message :
        IF Compressed
        THEN \A n \in Deflate(c.compression, NonceLen + Size[m]) :
                n + TagLen <= d.max_packet_size
        ELSE NonceLen + Size[m] + TagLen <= d.max_packet_size

\* A packet of s is on its way.
Underway(s) == Len(sealed[s]) = Len(delivered[Peer(s)]) + 1

\* Requests and answers follow each other.
Alternate ==
    /\ Len(delivered["client"]) <= Len(sealed["server"])
    /\ Len(sealed["server"]) <= Len(delivered["server"])
    /\ Len(delivered["server"]) <= Len(sealed["client"])
    /\ Len(sealed["client"]) <= Len(delivered["client"]) + 1

\* What the writer of s, the connection and the recv of its peer hold.
Hold(s, written, sent, read) ==
    out[s] = written /\ wire[s] = sent /\ opening[Peer(s)] = read

\* The packet that is on its way is in one place, and there is no other.
OnePacket(s) ==
    LET item == Whole(Sealed(s))
    IN  \/ /\ sending[s] = "sealed" <=> Underway(s)
           /\ Hold(s, <<>>, <<>>, {})
        \/ /\ sending[s] # "sealed" /\ Underway(s)
           /\ \/ Hold(s, <<item>>, <<>>, {})
              \/ Hold(s, <<>>, <<item>>, {})
              \/ Hold(s, <<>>, <<>>, {item})

\* Its receiver has the nonce it is sealed under, its sender the one inside.
NonceTurns ==
    /\ \A s \in Side : Underway(s) =>
          /\ cipher[Peer(s)] = Sealed(s).key
          /\ cipher[s] = Sealed(s).next
          /\ \A c \in Config : Sealed(s).len <= c.max_packet_size
    /\ (\A s \in Side : ~Underway(s)) => cipher["client"] = cipher["server"]

InTurns ==
    /\ up /\ faults = 0
    /\ Alternate /\ NonceTurns
    /\ \A s \in Side :
          /\ cipher[s] # None
          /\ ~skew[s]
          /\ recvRes[s] \in {"none", "Ok"}
          /\ Len(sealed[s]) = okSends[s] + (IF sending[s] = "idle" THEN 0 ELSE 1)
          /\ OnePacket(s)
=============================================================================
