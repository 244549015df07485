---------------------------- MODULE FramesProofs ----------------------------
(***************************************************************************)
(* Proofs about Frames, for every base, every set of bodies and limits,    *)
(* every capacity and bound.                                               *)
(***************************************************************************)
EXTENDS Frames, SequenceTheorems, TLAPS

-----------------------------------------------------------------------------
(* Bytes *)

Entry == [body : Body, bytes : Seq(Byte), start : Nat]

\* Each side's peer is the other side.
LEMMA SideFacts ==
    /\ \A s \in Side : Peer(s) \in Side /\ Peer(s) # s /\ Peer(Peer(s)) = s
    /\ \A s, t \in Side : t = s \/ t = Peer(s)
  BY DEF Side, Peer

\* A body is a sequence of bytes.
LEMMA BodyFacts ==
    ASSUME NEW b \in Body
    PROVE  b \in Seq(Byte) /\ Len(b) \in Nat
  BY FramesAssumption

\* A frame is a length and a body behind it.
LEMMA FrameFacts ==
    ASSUME NEW b \in Body
    PROVE  /\ Frame[b] \in Seq(Byte)
           /\ Len(Header(b)) \in Nat \ {0} /\ Len(Header(b)) <= Digits /\ Len(b) \in Nat
           /\ Len(Frame[b]) = Len(Header(b)) + Len(b)
           /\ \A i \in 1..Len(Header(b)) : Frame[b][i] = Header(b)[i]
           /\ \A i \in 1..Len(b) : Frame[b][Len(Header(b)) + i] = b[i]
  <1>1. Header(b) \in Seq(Byte) /\ Len(Header(b)) \in 1..Digits
    BY VarintAssumption
  <1>2. b \in Seq(Byte) /\ Len(b) \in Nat
    BY BodyFacts
  <1>3. Frame[b] = Header(b) \o b
    BY DEF Frame
  <1>4. /\ Frame[b] \in Seq(Byte)
        /\ Len(Frame[b]) = Len(Header(b)) + Len(b)
        /\ \A i \in 1 .. Len(Header(b)) + Len(b) :
              Frame[b][i] = IF i <= Len(Header(b)) THEN Header(b)[i] ELSE b[i - Len(Header(b))]
    BY <1>1, <1>2, <1>3, ConcatProperties
  <1> DEFINE h == Len(Header(b))
             l == Len(b)
  <1>5. h \in Nat \ {0} /\ h <= Digits /\ l \in Nat
    BY <1>1, <1>2, FramesAssumption
  <1>6. /\ \A i \in 1..h : i \in 1..(h + l) /\ i <= h
        /\ \A i \in 1..l : h + i \in 1..(h + l) /\ ~(h + i <= h) /\ (h + i) - h = i
    <2> HIDE DEF h, l
    <2> QED BY <1>5
  <1>7. \A i \in 1..h : Frame[b][i] = Header(b)[i]
    BY <1>4, <1>6
  <1>8. \A i \in 1..l : Frame[b][h + i] = b[i]
    BY <1>4, <1>6
  <1> QED BY <1>4, <1>5, <1>7, <1>8

LEMMA FrameLengths ==
    ASSUME NEW b \in Body
    PROVE  /\ Len(Frame[b]) \in Nat /\ Len(Header(b)) \in Nat /\ Len(b) \in Nat
           /\ Len(Frame[b]) = Len(Header(b)) + Len(b)
  <1>1. /\ Len(Header(b)) \in Nat /\ Len(b) \in Nat
        /\ Len(Frame[b]) = Len(Header(b)) + Len(b)
    BY FrameFacts
  <1> QED BY <1>1

\* A frame is not empty, and no frame is a part of itself.
LEMMA FrameNotEmpty ==
    ASSUME NEW b \in Body
    PROVE  Frame[b] \in Seq(Byte) /\ Frame[b] # <<>>
  <1>1. Frame[b] \in Seq(Byte) /\ Len(Header(b)) \in Nat \ {0}
    BY FrameFacts
  <1>2. Len(Frame[b]) = Len(Header(b)) + Len(b) /\ Len(b) \in Nat
    BY FrameLengths
  <1>3. Len(Frame[b]) # 0
    BY <1>1, <1>2
  <1> QED BY <1>1, <1>3

LEMMA FrameCut ==
    ASSUME NEW b \in Body, NEW n \in 1 .. Len(Frame[b]) - 1
    PROVE  LET q == SubSeq(Frame[b], 1, n)
           IN  q \in Seq(Byte) /\ q # <<>> /\ q # Frame[b]
  <1>1. Frame[b] \in Seq(Byte) /\ Len(Frame[b]) \in Nat
    BY FrameFacts, FrameLengths
  <1>2. \A i \in 1..n : i \in 1..Len(Frame[b])
    BY <1>1
  <1>3. \A i \in 1..n : Frame[b][i] \in Byte
    BY <1>1, <1>2, ElementOfSeq
  <1>4. 1 \in Int /\ n \in Int /\ 1 <= n /\ n # Len(Frame[b])
    BY <1>1
  <1>5. /\ SubSeq(Frame[b], 1, n) \in Seq(Byte)
        /\ Len(SubSeq(Frame[b], 1, n)) = IF 1 <= n THEN n - 1 + 1 ELSE 0
    BY <1>3, <1>4, SubSeqProperties
  <1>6. Len(SubSeq(Frame[b], 1, n)) = n
    BY <1>4, <1>5
  <1>7. Len(SubSeq(Frame[b], 1, n)) # 0
    BY <1>4, <1>6
  <1> QED BY <1>4, <1>5, <1>6, <1>7

\* Where the writer of a side stands, and what its log holds.
LEMMA StreamFacts ==
    ASSUME Streams, NEW s \in Side
    PROVE  /\ stream[s] \in Seq(Byte) /\ Written(s) \in Nat
           /\ log[s] \in Seq(Entry) /\ Len(log[s]) \in Nat
           /\ \A i \in 1..Len(log[s]) :
                 /\ log[s][i].body \in Body /\ log[s][i].bytes \in Seq(Byte)
                 /\ log[s][i].start \in Nat /\ Len(log[s][i].bytes) \in Nat
           /\ \A i \in Nat \ {0} : Start(s, i) \in Nat
  <1>1. stream[s] \in Seq(Byte) /\ Written(s) \in Nat
    BY LenProperties DEF Streams, Written
  <1>2. log[s] \in Seq(Entry) /\ Len(log[s]) \in Nat
    BY LenProperties DEF Streams, Entry
  <1>3. \A i \in 1..Len(log[s]) : log[s][i] \in Entry
    BY <1>2, ElementOfSeq
  <1>4. \A i \in 1..Len(log[s]) :
           /\ log[s][i].body \in Body /\ log[s][i].bytes \in Seq(Byte)
           /\ log[s][i].start \in Nat /\ Len(log[s][i].bytes) \in Nat
    BY <1>3, LenProperties DEF Entry
  <1>5. \A i \in Nat \ {0} : ~(i > Len(log[s])) => i \in 1..Len(log[s])
    BY <1>2
  <1>6. \A i \in Nat \ {0} : Start(s, i) \in Nat
    BY <1>1, <1>4, <1>5 DEF Start
  <1> QED BY <1>1, <1>2, <1>4, <1>6

\* What a running recv has consumed are the peer's bytes between its cursors.
LEMMA ConsumedFacts ==
    ASSUME Streams, TypeOK, NEW s \in Side
    PROVE  /\ from[s] \in Nat /\ taken[s] \in Nat /\ from[s] <= taken[s]
           /\ taken[s] <= Written(Peer(s))
           /\ Consumed(s) \in Seq(Byte)
           /\ Len(Consumed(s)) = taken[s] - from[s]
           /\ \A i \in 1..Len(Consumed(s)) : Consumed(s)[i] = stream[Peer(s)][from[s] + i]
  <1> DEFINE f == from[s]
             t == taken[s]
             q == stream[Peer(s)]
  <1>1. Peer(s) \in Side
    BY SideFacts
  <1>2. f \in Nat /\ t \in Nat /\ moved[Peer(s)] \in Nat
    BY <1>1 DEF Streams
  <1>3. q \in Seq(Byte) /\ Written(Peer(s)) \in Nat /\ Written(Peer(s)) = Len(q)
    BY <1>1, StreamFacts DEF Written
  <1>4. f <= t /\ t <= moved[Peer(s)] /\ moved[Peer(s)] <= Written(Peer(s))
    BY <1>1, SideFacts DEF TypeOK
  <1>5. t <= Len(q)
    BY <1>2, <1>3, <1>4
  <1>6. Consumed(s) = SubSeq(q, f + 1, t)
    BY DEF Consumed
  <1> HIDE DEF f, t, q
  <1>7. \A i \in (f + 1)..t : i \in 1..Len(q)
    BY <1>2, <1>3, <1>4, <1>5
  <1>8. \A i \in (f + 1)..t : q[i] \in Byte
    BY <1>3, <1>7, ElementOfSeq
  <1>9. f + 1 \in Int /\ t \in Int
    BY <1>2
  <1>10. /\ SubSeq(q, f + 1, t) \in Seq(Byte)
         /\ Len(SubSeq(q, f + 1, t)) = IF f + 1 <= t THEN t - (f + 1) + 1 ELSE 0
         /\ \A i \in 1 .. t - (f + 1) + 1 : SubSeq(q, f + 1, t)[i] = q[(f + 1) + i - 1]
    BY <1>8, <1>9, SubSeqProperties
  <1>11. Len(SubSeq(q, f + 1, t)) = t - f
    BY <1>2, <1>4, <1>10
  <1>12. \A i \in 1 .. t - f : i \in 1 .. t - (f + 1) + 1 /\ (f + 1) + i - 1 = f + i
    BY <1>2, <1>4
  <1>13. \A i \in 1 .. t - f : SubSeq(q, f + 1, t)[i] = q[f + i]
    BY <1>10, <1>12
  <1> QED BY <1>2, <1>3, <1>4, <1>5, <1>6, <1>10, <1>11, <1>13 DEF f, t, q

\* A recv that began where a whole frame begins is inside that frame, and what it
\* has consumed is the frame's beginning.
LEMMA InFrame ==
    ASSUME Streams, TypeOK, NEW s \in Side, NEW i \in 1..Len(log[Peer(s)]),
           Layout(Peer(s)), Inside(s), Expecting(s),
           NEW b, b = log[Peer(s)][i].body,
           from[s] = log[Peer(s)][i].start, log[Peer(s)][i].bytes = Frame[b]
    PROVE  /\ b \in Body
           /\ Stop(Peer(s), i) = from[s] + Len(Frame[b])
           /\ Len(Consumed(s)) <= Len(Frame[b])
           /\ \A k \in 1..Len(Consumed(s)) : Consumed(s)[k] = Frame[b][k]
           /\ expects[s] = Nothing => Len(Consumed(s)) <= Len(Header(b))
           /\ \A e \in expects[s] :
                 /\ e.digits = Len(Header(b)) /\ e.length = Len(b)
                 /\ e.digits <= Len(Consumed(s))
  <1> DEFINE p == Peer(s)
             h == Len(Header(b))
             l == Len(b)
             c == Len(Consumed(s))
  <1>1. p \in Side
    BY SideFacts
  <1>2. b \in Body /\ log[p][i].start \in Nat
    BY <1>1, StreamFacts
  <1>3. /\ Len(Frame[b]) \in Nat /\ h \in Nat /\ l \in Nat
        /\ Len(Frame[b]) = h + l
    BY <1>2, FrameLengths
  <1>4. Stop(p, i) = from[s] + Len(Frame[b])
    <2>1. ~(i > Len(log[p]))
      BY <1>1, StreamFacts
    <2> QED BY <2>1 DEF Stop, Start
  <1>5. \A k \in 1..Len(Frame[b]) : stream[p][from[s] + k] = Frame[b][k]
    BY DEF Layout
  <1>6. /\ from[s] \in Nat /\ taken[s] \in Nat /\ from[s] <= taken[s]
        /\ c = taken[s] - from[s] /\ Consumed(s) \in Seq(Byte)
        /\ \A k \in 1..c : Consumed(s)[k] = stream[p][from[s] + k]
    BY ConsumedFacts
  <1>7. c \in Nat
    BY <1>6, LenProperties
  <1>8. expects[s] = Nothing => c <= h
    <2>1. expects[s] = Nothing => taken[s] <= from[s] + h
      BY DEF Inside
    <2> HIDE DEF c, h, l
    <2> QED BY <1>3, <1>6, <2>1
  <1>9. ASSUME NEW e \in expects[s]
        PROVE  e.digits = h /\ e.length = l /\ h <= c /\ c <= h + l
    <2>1. /\ e = [digits |-> h, length |-> l]
          /\ taken[s] <= from[s] + e.digits + e.length
          /\ from[s] + e.digits <= taken[s]
      BY DEF Inside, Expecting
    <2>2. e.digits = h /\ e.length = l
      BY <2>1
    <2>3. taken[s] <= from[s] + h + l /\ from[s] + h <= taken[s]
      BY <2>1, <2>2
    <2> HIDE DEF c, h, l
    <2>4. h <= c /\ c <= h + l
      BY <1>3, <1>6, <2>3
    <2> QED BY <2>2, <2>4
  <1>10. c <= h + l
    <2>1. CASE expects[s] = Nothing
      <3>1. c <= h
        BY <1>8, <2>1
      <3> HIDE DEF c, h, l
      <3> QED BY <1>3, <1>7, <3>1
    <2>2. CASE expects[s] # Nothing
      <3>1. PICK e \in expects[s] : TRUE
        BY <2>2 DEF Nothing
      <3> QED BY <1>9, <3>1
    <2> QED BY <2>1, <2>2
  <1>11. \A k \in 1..c : k \in 1..Len(Frame[b])
    <2> HIDE DEF c, h, l
    <2> QED BY <1>3, <1>7, <1>10
  <1>12. \A k \in 1..c : Consumed(s)[k] = Frame[b][k]
    BY <1>5, <1>6, <1>11
  <1> QED BY <1>2, <1>3, <1>4, <1>8, <1>9, <1>10, <1>12

\* A recv that has consumed a whole frame, and nothing but that frame, has all it
\* wants: it neither waits for a byte nor refuses the length.
LEMMA FrameEnds ==
    ASSUME Streams, TypeOK, NEW s \in Side, NEW i \in 1..Len(log[Peer(s)]),
           Layout(Peer(s)), Inside(s), Expecting(s),
           NEW b, b = log[Peer(s)][i].body,
           from[s] = log[Peer(s)][i].start, log[Peer(s)][i].bytes = Frame[b],
           taken[s] = Stop(Peer(s), i)
    PROVE  ~Wants(s) /\ ~Refuse(s)
  <1> DEFINE h == Len(Header(b))
             l == Len(b)
             c == Len(Consumed(s))
  <1>1. /\ b \in Body
        /\ Stop(Peer(s), i) = from[s] + Len(Frame[b])
        /\ \A k \in 1..c : Consumed(s)[k] = Frame[b][k]
        /\ expects[s] = Nothing => c <= h
        /\ \A e \in expects[s] : e.digits = h /\ e.length = l
    BY InFrame
  <1>2. /\ h \in Nat \ {0} /\ l \in Nat /\ Len(Frame[b]) = h + l
        /\ Frame[b][h] = Header(b)[h] /\ Header(b)[h] < Base
        /\ Header(b) \in Seq(Byte) /\ Number(Header(b)) = l
        /\ \A k \in 1..h : Frame[b][k] = Header(b)[k]
    <2>1. h \in Nat \ {0} /\ l \in Nat /\ Len(Frame[b]) = h + l
      BY <1>1, FrameFacts
    <2>2. h \in 1..h
      BY <2>1
    <2>3. \A k \in 1..h : Frame[b][k] = Header(b)[k]
      BY <1>1, FrameFacts
    <2> QED BY <1>1, <2>1, <2>2, <2>3, VarintAssumption
  <1>3. c = h + l
    <2>1. from[s] \in Nat /\ taken[s] \in Nat /\ c = taken[s] - from[s]
      BY ConsumedFacts
    <2>2. taken[s] = from[s] + (h + l)
      BY <1>1, <1>2
    <2> HIDE DEF h, l, c
    <2> QED BY <1>2, <2>1, <2>2
  <1>4. CASE expects[s] # Nothing
    <2>1. PICK e \in expects[s] : TRUE
      BY <1>4 DEF Nothing
    <2>2. PacketRead(s)
      BY <1>1, <1>3, <2>1 DEF PacketRead
    <2> QED BY <1>4, <2>2 DEF Wants, Refuse
  <1>5. CASE expects[s] = Nothing
    <2>1. c = h /\ l = 0
      <3>1. c <= h
        BY <1>1, <1>5
      <3> HIDE DEF h, l, c
      <3> QED BY <1>2, <1>3, <3>1
    <2>2. Consumed(s) \in Seq(Byte)
      BY ConsumedFacts
    <2>3. \A k \in 1..c : Consumed(s)[k] = Header(b)[k]
      BY <1>1, <1>2, <2>1
    <2>4. Consumed(s) = Header(b)
      BY <1>2, <2>1, <2>2, <2>3, SeqEqual
    <2>5. LengthRead(s)
      <3>1. Consumed(s) # <<>>
        BY <1>2, <2>1
      <3> QED BY <1>2, <2>4, <3>1 DEF LengthRead, Last
    <2>6. ~(Number(Consumed(s)) > max_packet_size[s])
      <3>1. max_packet_size[s] \in Nat
        BY FramesAssumption DEF Streams
      <3>2. Number(Consumed(s)) = 0
        BY <1>2, <2>1, <2>4
      <3> QED BY <3>1, <3>2
    <2> QED BY <1>5, <2>5, <2>6 DEF Wants, Refuse
  <1> QED BY <1>4, <1>5

-----------------------------------------------------------------------------
(* The streams *)

\* A frame, or its beginning, comes behind what is there.
LEMMA PutFacts ==
    ASSUME Streams, NEW s \in Side, NEW b \in Body, NEW bytes \in Seq(Byte), Put(s, b, bytes)
    PROVE  /\ stream' \in [Side -> Seq(Byte)] /\ log' \in [Side -> Seq(Entry)]
           /\ stream'[Peer(s)] = stream[Peer(s)] /\ log'[Peer(s)] = log[Peer(s)]
           /\ Written(s)' = Written(s) + Len(bytes)
           /\ \A i \in 1..Written(s) : stream'[s][i] = stream[s][i]
           /\ \A i \in 1..Len(bytes) : stream'[s][Written(s) + i] = bytes[i]
           /\ Len(log'[s]) = Len(log[s]) + 1
           /\ \A i \in 1..Len(log[s]) : log'[s][i] = log[s][i]
           /\ log'[s][Len(log[s]) + 1] = [body |-> b, bytes |-> bytes, start |-> Written(s)]
           /\ \A i \in 1..(Len(log[s]) + 1) : Start(s, i)' = Start(s, i)
           /\ \A i \in Nat : i = Len(log[s]) + 2 => Start(s, i)' = Written(s) + Len(bytes)
  <1> DEFINE e == [body |-> b, bytes |-> bytes, start |-> Written(s)]
             L == Len(log[s])
             W == Written(s)
             B == Len(bytes)
  <1>1. stream[s] \in Seq(Byte) /\ W \in Nat /\ log[s] \in Seq(Entry) /\ L \in Nat /\ B \in Nat
    BY StreamFacts, LenProperties
  <1>2. e \in Entry
    BY <1>1 DEF Entry
  <1>3. /\ stream' = [stream EXCEPT ![s] = stream[s] \o bytes]
        /\ log' = [log EXCEPT ![s] = Append(log[s], e)]
    BY DEF Put
  <1>4. stream \in [Side -> Seq(Byte)] /\ log \in [Side -> Seq(Entry)]
    BY DEF Streams, Entry
  <1>5. Peer(s) \in Side /\ Peer(s) # s
    BY SideFacts
  <1>6. /\ stream'[s] = stream[s] \o bytes /\ log'[s] = Append(log[s], e)
        /\ stream'[Peer(s)] = stream[Peer(s)] /\ log'[Peer(s)] = log[Peer(s)]
    BY <1>3, <1>4, <1>5
  <1>7. /\ stream[s] \o bytes \in Seq(Byte)
        /\ Len(stream[s] \o bytes) = W + B
        /\ \A i \in 1 .. W + B : (stream[s] \o bytes)[i] =
              IF i <= W THEN stream[s][i] ELSE bytes[i - W]
    BY <1>1, ConcatProperties DEF Written
  <1>8. /\ Append(log[s], e) \in Seq(Entry)
        /\ Len(Append(log[s], e)) = L + 1
        /\ \A i \in 1..L : Append(log[s], e)[i] = log[s][i]
        /\ Append(log[s], e)[L + 1] = e
    BY <1>1, <1>2, AppendProperties
  <1>9. stream' \in [Side -> Seq(Byte)] /\ log' \in [Side -> Seq(Entry)]
    BY <1>3, <1>4, <1>7, <1>8
  <1>10. Written(s)' = W + B
    BY <1>6, <1>7 DEF Written
  <1>11. /\ \A i \in 1..W : i \in 1 .. W + B /\ i <= W
         /\ \A i \in 1..B : W + i \in 1 .. W + B /\ ~(W + i <= W) /\ (W + i) - W = i
    <2> HIDE DEF W, B
    <2> QED BY <1>1
  <1>12. /\ \A i \in 1..W : stream'[s][i] = stream[s][i]
         /\ \A i \in 1..B : stream'[s][W + i] = bytes[i]
    BY <1>6, <1>7, <1>11
  <1>13. /\ Len(log'[s]) = L + 1
         /\ \A i \in 1..L : log'[s][i] = log[s][i]
         /\ log'[s][L + 1] = e
    BY <1>6, <1>8
  <1>14. \A i \in 1..(L + 1) : Start(s, i)' = Start(s, i)
    <2> TAKE i \in 1..(L + 1)
    <2>1. ~(i > L + 1) /\ (i \in 1..L \/ i = L + 1) /\ (i \in 1..L => ~(i > L)) /\ L + 1 > L
      <3> HIDE DEF L
      <3> QED BY <1>1
    <2>2. Start(s, i)' = log'[s][i].start
      BY <1>13, <2>1 DEF Start
    <2>3. CASE i \in 1..L
      BY <1>13, <2>1, <2>2, <2>3 DEF Start
    <2>4. CASE i = L + 1
      <3>1. Start(s, i) = W
        BY <2>1, <2>4 DEF Start
      <3>2. log'[s][i].start = W
        BY <1>13, <2>4
      <3> QED BY <2>2, <3>1, <3>2
    <2> QED BY <2>1, <2>3, <2>4
  <1>15. ASSUME NEW i \in Nat, i = L + 2 PROVE Start(s, i)' = W + B
    <2>1. i > L + 1
      BY <1>1, <1>15
    <2>2. i > Len(log'[s])
      BY <1>13, <2>1
    <2> QED BY <1>10, <2>2 DEF Start
  <1> QED BY <1>6, <1>9, <1>10, <1>12, <1>13, <1>14, <1>15

\* The items stay one behind the other when one more comes.
LEMMA PutLayout ==
    ASSUME Streams, NEW s \in Side, NEW b \in Body, NEW bytes \in Seq(Byte), Put(s, b, bytes),
           Layout(s), bytes # <<>>, s \notin astray' => s \notin astray /\ bytes = Frame[b]
    PROVE  Layout(s)'
  <1> DEFINE e == [body |-> b, bytes |-> bytes, start |-> Written(s)]
             L == Len(log[s])
             W == Written(s)
             B == Len(bytes)
  <1>1. W \in Nat /\ L \in Nat /\ B \in Nat
    BY StreamFacts, LenProperties
  <1>2. /\ Written(s)' = W + B
        /\ \A i \in 1..W : stream'[s][i] = stream[s][i]
        /\ \A i \in 1..B : stream'[s][W + i] = bytes[i]
        /\ Len(log'[s]) = L + 1
        /\ \A i \in 1..L : log'[s][i] = log[s][i]
        /\ log'[s][L + 1] = e
        /\ \A i \in 1..(L + 1) : Start(s, i)' = Start(s, i)
        /\ \A i \in Nat : i = L + 2 => Start(s, i)' = W + B
    BY PutFacts
  <1>3. Start(s, 1)' = 0
    <2>1. 1 \in 1..(L + 1)
      BY <1>1
    <2> QED BY <1>2, <2>1 DEF Layout
  <1>4. ASSUME NEW i \in 1..L
        PROVE  /\ Stop(s, i)' = Start(s, i + 1)' /\ Stop(s, i)' <= Written(s)'
               /\ \A k \in 1..Len(log'[s][i].bytes) :
                     stream'[s][log'[s][i].start + k] = log'[s][i].bytes[k]
               /\ s \notin astray' => log'[s][i].bytes = Frame[log'[s][i].body]
    <2>1. i \in 1..(L + 1) /\ i + 1 \in 1..(L + 1) /\ ~(i > L)
      BY <1>1
    <2>2. log'[s][i] = log[s][i]
      BY <1>2
    <2> DEFINE m == log[s][i].start
               n == Len(log[s][i].bytes)
    <2>3. Stop(s, i) = m + n /\ m \in Nat /\ n \in Nat
      BY <2>1, StreamFacts DEF Stop, Start
    <2>4. Stop(s, i) = Start(s, i + 1) /\ Stop(s, i) <= W
      BY DEF Layout
    <2>5. Stop(s, i)' = Stop(s, i)
      BY <1>2, <2>1, <2>2 DEF Stop
    <2>6. Stop(s, i)' = Start(s, i + 1)'
      BY <1>2, <2>1, <2>4, <2>5
    <2>7. Stop(s, i)' <= Written(s)'
      BY <1>1, <1>2, <2>3, <2>4, <2>5
    <2>8. \A k \in 1..n : m + k \in 1..W
      <3> HIDE DEF m, n, W
      <3> QED BY <1>1, <2>3, <2>4
    <2>9. \A k \in 1..n : stream'[s][m + k] = log[s][i].bytes[k]
      BY <1>2, <2>8 DEF Layout
    <2>10. s \notin astray' => log[s][i].bytes = Frame[log[s][i].body]
      BY DEF Layout
    <2> QED BY <2>2, <2>6, <2>7, <2>9, <2>10
  <1>5. ASSUME NEW i \in Nat, i = L + 1
        PROVE  /\ Stop(s, i)' = Start(s, i + 1)' /\ Stop(s, i)' <= Written(s)'
               /\ \A k \in 1..Len(log'[s][i].bytes) :
                     stream'[s][log'[s][i].start + k] = log'[s][i].bytes[k]
               /\ s \notin astray' => log'[s][i].bytes = Frame[log'[s][i].body]
    <2>1. log'[s][i].bytes = bytes /\ log'[s][i].body = b /\ log'[s][i].start = W
      BY <1>2, <1>5
    <2>2. i + 1 \in Nat /\ i + 1 = L + 2 /\ ~(i > L + 1)
      BY <1>1, <1>5
    <2>3. Stop(s, i)' = W + B
      <3>1. Start(s, i)' = log'[s][i].start
        BY <1>2, <2>2 DEF Start
      <3> QED BY <2>1, <3>1 DEF Stop
    <2>4. W + B <= W + B
      BY <1>1
    <2>5. Start(s, i + 1)' = W + B
      BY <1>2, <2>2
    <2> QED BY <1>2, <2>1, <2>3, <2>4, <2>5
  <1>6. \A i \in 1..Len(log'[s]) : i \in 1..L \/ i = L + 1
    BY <1>1, <1>2
  <1>7. ASSUME NEW i \in 1..Len(log'[s])
        PROVE  /\ Stop(s, i)' = Start(s, i + 1)' /\ Stop(s, i)' <= Written(s)'
               /\ \A k \in 1..Len(log'[s][i].bytes) :
                     stream'[s][log'[s][i].start + k] = log'[s][i].bytes[k]
               /\ s \notin astray' => log'[s][i].bytes = Frame[log'[s][i].body]
    <2>1. CASE i \in 1..L
      BY <1>4, <2>1
    <2>2. CASE i = L + 1
      <3>1. i \in Nat
        OBVIOUS
      <3> QED BY <1>5, <2>2, <3>1
    <2> QED BY <1>6, <2>1, <2>2
  <1>8. B > 0
    BY <1>1, EmptySeq
  <1>9. ASSUME NEW i \in 1..(Len(log'[s]) + 1), NEW j \in 1..(Len(log'[s]) + 1), i < j
        PROVE  Start(s, i)' < Start(s, j)'
    <2>1. /\ i \in 1..(L + 1)
          /\ j \in 1..(L + 1) \/ j = L + 2
      <3>1. i \in 1..(L + 1 + 1) /\ j \in 1..(L + 1 + 1)
        <4>1. Len(log'[s]) = L + 1
          BY <1>2
        <4> QED BY <4>1
      <3> HIDE DEF L
      <3> QED BY <1>1, <1>9, <3>1
    <2>2. CASE j \in 1..(L + 1)
      <3>1. Start(s, i) < Start(s, j)
        BY <1>9, <2>1, <2>2 DEF Layout
      <3> QED BY <1>2, <2>1, <2>2, <3>1
    <2>3. CASE j = L + 2
      <3>1. Start(s, j)' = W + B
        BY <1>1, <1>2, <2>3
      <3>2. Start(s, i) \in Nat /\ Start(s, i) <= W
        <4>1. CASE i = L + 1
          BY <1>1, <4>1 DEF Start
        <4>2. CASE i < L + 1
          <5>1. L + 1 \in 1..(L + 1) /\ Start(s, L + 1) = W /\ i \in Nat \ {0}
            BY <1>1 DEF Start
          <5>2. Start(s, i) < W
            BY <2>1, <4>2, <5>1 DEF Layout
          <5>3. Start(s, i) \in Nat
            BY <5>1, StreamFacts
          <5> HIDE DEF W
          <5> QED BY <1>1, <5>2, <5>3
        <4> QED BY <1>1, <2>1, <4>1, <4>2
      <3>3. Start(s, i)' = Start(s, i)
        BY <1>2, <2>1
      <3> HIDE DEF W, B
      <3> QED BY <1>1, <1>8, <3>1, <3>2, <3>3
    <2> QED BY <2>1, <2>2, <2>3
  <1>10. ASSUME NEW x \in 0..(Written(s)' - 1)
         PROVE  \E i \in 1..Len(log'[s]) : Start(s, i)' <= x /\ x < Stop(s, i)'
    <2>1. x \in 0..(W - 1) \/ (W <= x /\ x < W + B)
      <3>1. x \in 0..(W + B - 1)
        <4>1. Written(s)' = W + B
          BY <1>2
        <4> QED BY <1>1, <4>1
      <3> HIDE DEF W, B
      <3> QED BY <1>1, <3>1
    <2>2. CASE x \in 0..(W - 1)
      <3>1. PICK i \in 1..L : Start(s, i) <= x /\ x < Stop(s, i)
        BY <2>2 DEF Layout
      <3>2. i \in 1..(L + 1) /\ log'[s][i] = log[s][i]
        BY <1>1, <1>2
      <3>3. Start(s, i)' = Start(s, i)
        BY <1>2, <3>2
      <3>4. Stop(s, i)' = Stop(s, i)
        BY <3>2, <3>3 DEF Stop
      <3>5. i \in 1..Len(log'[s])
        BY <1>1, <1>2
      <3> QED BY <3>1, <3>3, <3>4, <3>5
    <2>3. CASE W <= x /\ x < W + B
      <3>1. PICK i \in Nat : i = L + 1
        BY <1>1
      <3>2. i \in 1..Len(log'[s]) /\ i \in 1..(L + 1) /\ log'[s][i].bytes = bytes
        BY <1>1, <1>2, <3>1
      <3>3. Start(s, i) = W
        BY <1>1, <3>1 DEF Start
      <3>4. Start(s, i)' = W
        BY <1>2, <3>2, <3>3
      <3>5. Stop(s, i)' = W + B
        BY <3>2, <3>4 DEF Stop
      <3> QED BY <2>3, <3>2, <3>4, <3>5
    <2> QED BY <2>1, <2>2, <2>3
  <1> QED BY <1>3, <1>7, <1>9, <1>10 DEF Layout

\* No other step touches a stream, and what is astray stays so.
LEMMA KeepLayout ==
    ASSUME NEW s \in Side, Layout(s), stream'[s] = stream[s], log'[s] = log[s],
           s \notin astray' => s \notin astray
    PROVE  Layout(s)'
  <1>1. Written(s)' = Written(s)
    BY DEF Written
  <1>2. \A i : Start(s, i)' = Start(s, i) /\ Stop(s, i)' = Stop(s, i)
    BY <1>1 DEF Start, Stop
  <1> QED BY <1>1, <1>2 DEF Layout

-----------------------------------------------------------------------------
(* The readers *)

\* A reader that does not move keeps its place while its peer does not write.
LEMMA KeepPlace ==
    ASSUME NEW s \in Side, NEW n \in Nat, Place(s, n),
           stream'[Peer(s)] = stream[Peer(s)], log'[Peer(s)] = log[Peer(s)],
           from'[s] = from[s], got'[s] = got[s]
    PROVE  Place(s, n)'
  <1>1. \A i : Start(Peer(s), i)' = Start(Peer(s), i)
    BY DEF Start, Written
  <1> QED BY <1>1 DEF Place

\* Nor does it lose its place when its peer writes.
LEMMA PutPlace ==
    ASSUME Streams, NEW s \in Side, NEW n \in Nat, Place(s, n),
           NEW b \in Body, NEW bytes \in Seq(Byte), Put(Peer(s), b, bytes),
           from'[s] = from[s], got'[s] = got[s]
    PROVE  Place(s, n)'
  <1> DEFINE p == Peer(s)
             L == Len(log[p])
  <1>1. p \in Side
    BY SideFacts
  <1>2. L \in Nat
    BY <1>1, StreamFacts
  <1>3. /\ Len(log'[p]) = L + 1
        /\ \A i \in 1..L : log'[p][i] = log[p][i]
        /\ \A i \in 1..(L + 1) : Start(p, i)' = Start(p, i)
    BY <1>1, PutFacts
  <1>4. n <= L /\ from[s] = Start(p, n + 1)
    BY DEF Place
  <1>5. n <= L + 1 /\ n + 1 \in 1..(L + 1)
    BY <1>2, <1>4
  <1>6. \A i \in 1..n : got'[s][i] = log'[p][i].body
    <2>1. \A i \in 1..n : i \in 1..L
      BY <1>2, <1>4
    <2> QED BY <1>3, <2>1 DEF Place
  <1>7. from'[s] = Start(p, n + 1)'
    BY <1>3, <1>4, <1>5
  <1> QED BY <1>3, <1>5, <1>6, <1>7 DEF Place

\* What a recv has read of the frame it is in stays what it is, and a frame that
\* is written now begins at or behind its reader.
LEMMA KeepInside ==
    ASSUME NEW s \in Side, Inside(s), Expecting(s), log'[Peer(s)] = log[Peer(s)],
           from'[s] = from[s], taken'[s] = taken[s], expects'[s] = expects[s]
    PROVE  Inside(s)' /\ Expecting(s)'
  <1>1. Nothing' = Nothing
    BY DEF Nothing
  <1> QED BY <1>1 DEF Inside, Expecting, Header

LEMMA PutInside ==
    ASSUME Streams, TypeOK, NEW s \in Side, Inside(s), Expecting(s),
           NEW b \in Body, NEW bytes \in Seq(Byte), Put(Peer(s), b, bytes),
           from'[s] = from[s], taken'[s] = taken[s], expects'[s] = expects[s]
    PROVE  Inside(s)' /\ Expecting(s)'
  <1> DEFINE p == Peer(s)
             L == Len(log[p])
             W == Written(p)
  <1>1. p \in Side
    BY SideFacts
  <1>2. /\ L \in Nat /\ W \in Nat
        /\ from[s] \in Nat /\ taken[s] \in Nat /\ from[s] <= taken[s] /\ taken[s] <= W
    BY <1>1, StreamFacts, ConsumedFacts
  <1>3. /\ Len(log'[p]) = L + 1
        /\ \A i \in 1..L : log'[p][i] = log[p][i]
        /\ log'[p][L + 1] = [body |-> b, bytes |-> bytes, start |-> W]
    BY <1>1, PutFacts
  <1>4. Nothing' = Nothing
    BY DEF Nothing
  <1>5. Expecting(s)'
    BY DEF Expecting
  <1>6. ASSUME NEW i \in 1..Len(log'[p]), from'[s] = log'[p][i].start,
               log'[p][i].bytes = Frame[log'[p][i].body]
        PROVE  /\ expects'[s] = Nothing =>
                     taken'[s] <= from'[s] + Len(Header(log'[p][i].body))
               /\ \A e \in expects'[s] :
                     /\ e = [digits |-> Len(Header(log'[p][i].body)),
                             length |-> Len(log'[p][i].body)]
                     /\ taken'[s] <= from'[s] + e.digits + e.length
    <2>1. i \in 1..L \/ i = L + 1
      BY <1>2, <1>3
    <2>2. CASE i \in 1..L
      BY <1>3, <1>6, <2>2 DEF Inside
    <2>3. CASE i = L + 1
      <3>1. log'[p][i].body = b /\ from[s] = W
        BY <1>3, <1>6, <2>3
      <3>2. taken[s] = from[s]
        <4> HIDE DEF W
        <4> QED BY <1>2, <3>1
      <3>3. ASSUME NEW e \in expects[s] PROVE FALSE
        <4>1. e.digits > 0 /\ from[s] + e.digits <= taken[s] /\ e.digits \in Nat
          BY DEF Expecting, Streams
        <4> QED BY <1>2, <3>2, <4>1
      <3>4. Len(Header(b)) \in Nat
        BY FrameLengths
      <3>5. taken[s] <= from[s] + Len(Header(b))
        BY <1>2, <3>2, <3>4
      <3> QED BY <3>1, <3>3, <3>5
    <2> QED BY <2>1, <2>2, <2>3
  <1> QED BY <1>4, <1>5, <1>6 DEF Inside, Header

\* Behind a recv that has ended nothing is expected.
LEMMA OutsideFrame ==
    ASSUME Streams, NEW s \in Side, log'[Peer(s)] = log[Peer(s)],
           from'[s] = taken'[s], taken'[s] \in Nat, expects'[s] = Nothing
    PROVE  Inside(s)' /\ Expecting(s)'
  <1>1. \A e \in expects'[s] : FALSE
    BY DEF Nothing
  <1>2. ASSUME NEW i \in 1..Len(log[Peer(s)])
        PROVE  taken'[s] <= from'[s] + Len(Header(log[Peer(s)][i].body))
    <2>1. log[Peer(s)][i].body \in Body
      BY SideFacts, StreamFacts
    <2>2. PICK x \in Nat : x = Len(Header(log[Peer(s)][i].body))
      BY <2>1, FrameLengths
    <2> QED BY <2>2
  <1> QED BY <1>1, <1>2 DEF Inside, Expecting, Header

\* What a side has returned so far says where it stands.
LEMMA PlaceOf ==
    ASSUME NEW s \in Side, NEW n \in Nat, n = Len(got'[s]), Place(s, n)'
    PROVE  Place(s, Len(got[s]))'
  BY DEF Place, Start, Written, Nothing, Header

\* The number of packets a side has returned.
LEMMA GotFacts ==
    ASSUME Streams, NEW s \in Side
    PROVE  got[s] \in Seq(Seq(Byte)) /\ Len(got[s]) \in Nat
  BY LenProperties DEF Streams

\* A step that neither writes nor moves a reader.
LEMMA QuietStep ==
    ASSUME IInv, Streams', TypeOK', UNCHANGED <<stream, log, taken, from, expects, got, astray>>
    PROVE  IInv'
  <1>1. ASSUME NEW s \in Side PROVE Layout(s)'
    BY KeepLayout DEF IInv
  <1>2. ASSUME NEW s \in Side, Peer(s) \notin astray' PROVE Place(s, Len(got[s]))'
    <2>1. PICK n \in Nat : n = Len(got[s]) /\ Place(s, n)
      BY <1>2, GotFacts DEF IInv
    <2>2. Place(s, n)'
      BY <2>1, KeepPlace
    <2> QED BY <2>1, <2>2, PlaceOf
  <1>3. ASSUME NEW s \in Side PROVE Inside(s)' /\ Expecting(s)'
    BY KeepInside DEF IInv
  <1> QED BY <1>1, <1>2, <1>3 DEF IInv

\* A step that writes.
LEMMA WriterStep ==
    ASSUME IInv, Streams', TypeOK', NEW s \in Side,
           NEW b \in Body, NEW bytes \in Seq(Byte), bytes # <<>>, Put(s, b, bytes),
           \/ bytes = Frame[b] /\ astray' = astray
           \/ astray' = astray \cup {s},
           UNCHANGED <<taken, from, expects, got>>
    PROVE  IInv'
  <1> USE SideFacts
  <1>1. Layout(s)'
    BY PutLayout DEF IInv
  <1>2. stream'[Peer(s)] = stream[Peer(s)] /\ log'[Peer(s)] = log[Peer(s)]
    BY PutFacts DEF IInv
  <1>3. Layout(Peer(s))'
    BY <1>2, KeepLayout DEF IInv
  <1>4. ASSUME s \notin astray' PROVE Place(Peer(s), Len(got[Peer(s)]))'
    <2> DEFINE t == Peer(s)
    <2>1. t \in Side /\ Peer(t) = s
      OBVIOUS
    <2>2. PICK n \in Nat : n = Len(got[t]) /\ Place(t, n)
      BY <1>4, <2>1, GotFacts DEF IInv
    <2>3. Place(t, n)'
      BY <2>1, <2>2, PutPlace DEF IInv
    <2> QED BY <2>1, <2>2, <2>3, PlaceOf
  <1>5. ASSUME Peer(s) \notin astray' PROVE Place(s, Len(got[s]))'
    <2>1. PICK n \in Nat : n = Len(got[s]) /\ Place(s, n)
      BY <1>5, GotFacts DEF IInv
    <2>2. Place(s, n)'
      BY <1>2, <2>1, KeepPlace
    <2> QED BY <2>1, <2>2, PlaceOf
  <1>6. Inside(s)' /\ Expecting(s)'
    BY <1>2, KeepInside DEF IInv
  <1>7. Inside(Peer(s))' /\ Expecting(Peer(s))'
    <2>1. Peer(s) \in Side /\ Peer(Peer(s)) = s
      OBVIOUS
    <2> QED BY <2>1, PutInside DEF IInv
  <1>8. ASSUME NEW t \in Side
        PROVE  /\ Layout(t)' /\ Expecting(t)' /\ Inside(t)'
               /\ (Peer(t) \notin astray' => Place(t, Len(got[t]))')
    <2>1. CASE t = s
      BY <1>1, <1>5, <1>6, <2>1
    <2>2. CASE t = Peer(s)
      BY <1>3, <1>4, <1>7, <2>2
    <2> QED BY <2>1, <2>2
  <1> QED BY <1>8 DEF IInv

\* A step of one reader.
LEMMA ReaderStep ==
    ASSUME IInv, Streams', TypeOK', NEW s \in Side,
           UNCHANGED <<stream, log>>, astray \subseteq astray',
           \A t \in Side : t # s => /\ from'[t] = from[t] /\ taken'[t] = taken[t]
                                    /\ expects'[t] = expects[t] /\ got'[t] = got[t],
           Inside(s)', Expecting(s)',
           Peer(s) \notin astray' => \E n \in Nat : n = Len(got'[s]) /\ Place(s, n)'
    PROVE  IInv'
  <1> USE SideFacts
  <1>1. ASSUME NEW t \in Side PROVE Layout(t)'
    BY KeepLayout DEF IInv
  <1>2. ASSUME NEW t \in Side, t # s, Peer(t) \notin astray'
        PROVE  Place(t, Len(got[t]))'
    <2>1. PICK n \in Nat : n = Len(got[t]) /\ Place(t, n)
      BY <1>2, GotFacts DEF IInv
    <2>2. Place(t, n)' /\ n = Len(got'[t])
      BY <1>2, <2>1, KeepPlace
    <2> QED BY <2>2, PlaceOf
  <1>3. ASSUME Peer(s) \notin astray' PROVE Place(s, Len(got[s]))'
    BY <1>3, PlaceOf
  <1>4. ASSUME NEW t \in Side, Peer(t) \notin astray' PROVE Place(t, Len(got[t]))'
    <2>1. CASE t = s
      BY <1>3, <1>4, <2>1
    <2>2. CASE t # s
      BY <1>2, <1>4, <2>2
    <2> QED BY <2>1, <2>2
  <1>5. ASSUME NEW t \in Side PROVE Inside(t)' /\ Expecting(t)'
    <2>1. CASE t # s
      BY <2>1, KeepInside DEF IInv
    <2> QED BY <2>1
  <1> QED BY <1>1, <1>4, <1>5 DEF IInv

-----------------------------------------------------------------------------
(* Types *)

Cursors(s) ==
    /\ from[s] <= taken[s] /\ taken[s] <= moved[Peer(s)] /\ moved[s] <= Written(s)
    /\ moved[s] - taken[Peer(s)] <= Capacity
    /\ call[s] # "recv" => from[s] = taken[s] /\ expects[s] = Nothing

\* Streams and TypeOK together, with what is the same for both sides apart.
LEMMA TypeJoin ==
    ASSUME Streams', \A s \in Side : Cursors(s)',
           astray' \subseteq Side, up' \in BOOLEAN, faults' \in 0..MaxFaults
    PROVE  TypeOK'
  BY DEF Streams, Cursors, TypeOK

LEMMA TypeSplit ==
    ASSUME TypeOK
    PROVE  /\ \A s \in Side : Cursors(s)
           /\ astray \subseteq Side /\ up \in BOOLEAN /\ faults \in 0..MaxFaults
  <1>1. "client" \in Side
    BY DEF Side
  <1> QED BY <1>1 DEF Cursors, TypeOK

\* A call that stops counts a fault or none.
LEMMA FaultType ==
    ASSUME faults \in 0..MaxFaults, Stops \/ Fault
    PROVE  faults' \in 0..MaxFaults
  BY FramesAssumption DEF Stops, Fault

LEMMA PutType ==
    ASSUME Streams, TypeOK, NEW s \in Side, NEW b \in Body, NEW bytes \in Seq(Byte),
           Put(s, b, bytes), call[s] = "none",
           UNCHANGED <<max_packet_size, moved, taken, from, expects, up, got>>,
           call' \in [Side -> {"none", "send", "send_recv", "recv"}],
           \A t \in Side : t # s => call'[t] = call[t],
           astray' \subseteq Side, faults' \in 0..MaxFaults
    PROVE  Streams' /\ TypeOK'
  <1> USE SideFacts
  <1>1. /\ stream' \in [Side -> Seq(Byte)] /\ log' \in [Side -> Seq(Entry)]
        /\ stream'[Peer(s)] = stream[Peer(s)]
        /\ Written(s)' = Written(s) + Len(bytes)
    BY PutFacts
  <1>2. Streams'
    BY <1>1 DEF Streams, Entry
  <1>3. /\ Written(s) \in Nat /\ Len(bytes) \in Nat /\ moved \in [Side -> Nat]
    BY StreamFacts, LenProperties DEF Streams
  <1>4. Cursors(s) /\ Cursors(Peer(s)) /\ up \in BOOLEAN
    BY TypeSplit
  <1>5. Written(Peer(s))' = Written(Peer(s))
    BY <1>1 DEF Written
  <1>6. moved[s] <= Written(s)'
    BY <1>1, <1>3, <1>4 DEF Cursors
  <1>7. Nothing' = Nothing
    BY DEF Nothing
  <1>8. Cursors(s)'
    BY <1>4, <1>6, <1>7 DEF Cursors
  <1>9. Cursors(Peer(s))'
    BY <1>4, <1>5, <1>7 DEF Cursors
  <1>10. ASSUME NEW t \in Side PROVE Cursors(t)'
    <2>1. CASE t = s
      BY <1>8, <2>1
    <2>2. CASE t = Peer(s)
      BY <1>9, <2>2
    <2> QED BY <2>1, <2>2
  <1> QED BY <1>2, <1>4, <1>10, TypeJoin

LEMMA ReaderType ==
    ASSUME Streams, TypeOK, Streams', NEW s \in Side,
           UNCHANGED <<stream, log, moved>>,
           \A t \in Side : t # s => /\ from'[t] = from[t] /\ taken'[t] = taken[t]
                                    /\ expects'[t] = expects[t] /\ call'[t] = call[t],
           from'[s] <= taken'[s], taken[s] <= taken'[s], taken'[s] <= moved[Peer(s)],
           call'[s] # "recv" => from'[s] = taken'[s] /\ expects'[s] = Nothing,
           astray' \subseteq Side, up' \in BOOLEAN, faults' \in 0..MaxFaults
    PROVE  TypeOK'
  <1> USE SideFacts
  <1>1. Cursors(s) /\ Cursors(Peer(s))
    BY TypeSplit
  <1>2. \A t \in Side : Written(t)' = Written(t)
    BY DEF Written
  <1>3. Nothing' = Nothing
    BY DEF Nothing
  <1>4. Cursors(s)'
    BY <1>1, <1>2, <1>3 DEF Cursors
  <1>5. Cursors(Peer(s))'
    <2>1. moved \in [Side -> Nat] /\ taken \in [Side -> Nat] /\ taken' \in [Side -> Nat]
      BY DEF Streams
    <2>2. moved[Peer(s)] - taken'[s] <= Capacity
      <3>1. moved[Peer(s)] \in Nat /\ taken[s] \in Nat /\ taken'[s] \in Nat /\ Capacity \in Nat
        BY <2>1, FramesAssumption
      <3>2. moved[Peer(s)] - taken[s] <= Capacity
        BY <1>1 DEF Cursors
      <3> QED BY <3>1, <3>2
    <2> QED BY <1>1, <1>2, <1>3, <2>2 DEF Cursors
  <1>6. ASSUME NEW t \in Side PROVE Cursors(t)'
    <2>1. CASE t = s
      BY <1>4, <2>1
    <2>2. CASE t = Peer(s)
      BY <1>5, <2>2
    <2> QED BY <2>1, <2>2
  <1> QED BY <1>6, TypeJoin

-----------------------------------------------------------------------------
(* The steps *)

\* At the beginning nothing has been written, read or counted.
LEMMA InvInit == Init => IInv
  <1> SUFFICES ASSUME Init PROVE IInv
    OBVIOUS
  <1> USE SideFacts DEF Init
  <1>1. Streams
    <2>1. <<>> \in Seq(Byte) /\ <<>> \in Seq(Entry) /\ <<>> \in Seq(Seq(Byte))
      OBVIOUS
    <2>2. stream \in [Side -> Seq(Byte)] /\ got \in [Side -> Seq(Seq(Byte))]
      BY <2>1
    <2>3. log \in [Side -> Seq([body : Body, bytes : Seq(Byte), start : Nat])]
      BY <2>1 DEF Entry
    <2>4. /\ expects = [s \in Side |-> expects[s]]
          /\ \A s \in Side : \A e \in expects[s] : e.digits \in Nat
      BY DEF Nothing
    <2> QED BY <2>2, <2>3, <2>4 DEF Streams
  <1>2. \A s \in Side : Written(s) = 0 /\ Len(log[s]) = 0 /\ Len(got[s]) = 0
    BY DEF Written
  <1>3. \A s \in Side : Start(s, 1) = 0
    BY <1>2 DEF Start
  <1>4. TypeOK
    BY <1>2, FramesAssumption DEF TypeOK
  <1>5. ASSUME NEW s \in Side PROVE Layout(s) /\ Inside(s) /\ Expecting(s)
    <2>1. Written(s) = 0 /\ Len(log[s]) = 0 /\ Len(log[Peer(s)]) = 0 /\ Start(s, 1) = 0
      BY <1>2, <1>3
    <2>2. \A i, j \in 1..(Len(log[s]) + 1) : ~(i < j)
      BY <2>1
    <2>3. \A x \in 0..(Written(s) - 1) : FALSE
      BY <2>1
    <2>4. \A i \in 1..Len(log[s]) : FALSE
      BY <2>1
    <2>5. Layout(s)
      BY <2>1, <2>2, <2>3, <2>4 DEF Layout
    <2>6. Inside(s)
      BY <2>1 DEF Inside
    <2> QED BY <2>5, <2>6 DEF Expecting, Nothing
  <1>6. ASSUME NEW s \in Side PROVE Place(s, Len(got[s]))
    <2>1. Start(Peer(s), 0 + 1) = 0
      BY <1>3
    <2>2. Place(s, 0)
      BY <1>2, <2>1 DEF Place
    <2> QED BY <1>2, <2>2
  <1> QED BY <1>1, <1>4, <1>5, <1>6 DEF IInv

LEMMA SendStep ==
    ASSUME IInv, NEW s \in Side, NEW c \in {"send", "send_recv"}, Send(s, c)
    PROVE  IInv'
  <1>1. PICK b \in Body : Put(s, b, Frame[b])
    BY DEF Send
  <1>2. Frame[b] \in Seq(Byte) /\ Frame[b] # <<>>
    BY FrameNotEmpty
  <1>3. call' \in [Side -> {"none", "send", "send_recv", "recv"}]
        /\ \A t \in Side : t # s => call'[t] = call[t]
    BY DEF Send, Call, IInv, Streams
  <1>4. astray' \subseteq Side /\ faults' \in 0..MaxFaults
    BY TypeSplit DEF IInv, Send
  <1>5. Streams' /\ TypeOK'
    BY <1>1, <1>2, <1>3, <1>4, PutType DEF IInv, Send, BeginsSend
  <1> QED BY <1>1, <1>2, <1>5, WriterStep DEF Send

LEMMA SendStopsStep ==
    ASSUME IInv, NEW s \in Side, SendStops(s)
    PROVE  IInv'
  <1>1. PICK b \in Body : \E n \in 1 .. Len(Frame[b]) - 1 : Put(s, b, SubSeq(Frame[b], 1, n))
    BY DEF SendStops, Interrupt
  <1>2. PICK n \in 1 .. Len(Frame[b]) - 1 : Put(s, b, SubSeq(Frame[b], 1, n))
    BY <1>1
  <1>3. SubSeq(Frame[b], 1, n) \in Seq(Byte) /\ SubSeq(Frame[b], 1, n) # <<>>
    BY FrameCut
  <1>4. call' \in [Side -> {"none", "send", "send_recv", "recv"}]
        /\ \A t \in Side : t # s => call'[t] = call[t]
    BY DEF SendStops, Interrupt, IInv, Streams
  <1>5. astray' \subseteq Side /\ faults' \in 0..MaxFaults
    BY TypeSplit, FaultType DEF IInv, SendStops, Interrupt
  <1>6. Streams' /\ TypeOK'
    BY <1>2, <1>3, <1>4, <1>5, PutType DEF IInv, SendStops, Interrupt, BeginsSend
  <1> QED BY <1>2, <1>3, <1>6, WriterStep DEF SendStops, Interrupt

LEMMA MoveStep ==
    ASSUME IInv, NEW s \in Side, Move(s)
    PROVE  IInv'
  <1> USE SideFacts
  <1>1. Streams'
    <2>1. moved \in [Side -> Nat] /\ moved' = [moved EXCEPT ![s] = moved[s] + 1]
      BY DEF IInv, Streams, Move
    <2>2. moved' \in [Side -> Nat]
      BY <2>1
    <2>3. Streams
      BY DEF IInv
    <2> QED BY <2>2, <2>3 DEF Streams, Move
  <1>2. /\ moved[s] \in Nat /\ taken[Peer(s)] \in Nat /\ Written(s) \in Nat
        /\ moved'[s] = moved[s] + 1 /\ moved'[Peer(s)] = moved[Peer(s)]
        /\ Capacity \in Nat
    <2>1. /\ moved \in [Side -> Nat] /\ taken \in [Side -> Nat]
          /\ moved' = [moved EXCEPT ![s] = moved[s] + 1]
      BY DEF IInv, Streams, Move
    <2>2. Written(s) \in Nat
      BY StreamFacts DEF IInv
    <2>3. Capacity \in Nat
      BY FramesAssumption
    <2> QED BY <2>1, <2>2, <2>3
  <1>3. Cursors(s) /\ Cursors(Peer(s))
    BY TypeSplit DEF IInv
  <1>4. \A t \in Side : Written(t)' = Written(t)
    BY DEF Written, Move
  <1>5. moved'[s] <= Written(s) /\ moved'[s] - taken[Peer(s)] <= Capacity
    BY <1>2 DEF Move
  <1>6. Nothing' = Nothing
    BY DEF Nothing
  <1>7. Cursors(s)'
    BY <1>2, <1>3, <1>4, <1>5, <1>6 DEF Cursors, Move
  <1>8. Cursors(Peer(s))'
    <2>1. taken[Peer(s)] <= moved[s] /\ taken[Peer(s)] <= moved'[s]
      BY <1>2, <1>3 DEF Cursors
    <2> QED BY <1>2, <1>3, <1>4, <1>6, <2>1 DEF Cursors, Move
  <1>9. ASSUME NEW t \in Side PROVE Cursors(t)'
    <2>1. CASE t = s
      BY <1>7, <2>1
    <2>2. CASE t = Peer(s)
      BY <1>8, <2>2
    <2> QED BY <2>1, <2>2
  <1>10. TypeOK'
    BY <1>1, <1>9, TypeJoin, TypeSplit DEF IInv, Move
  <1> QED BY <1>1, <1>10, QuietStep DEF Move

\* A side that does not receive stands where a recv would begin.
LEMMA FromUnchanged ==
    ASSUME IInv, NEW s \in Side, call[s] # "recv", from' = [from EXCEPT ![s] = taken[s]]
    PROVE  from' = from /\ expects[s] = Nothing
  <1>1. from \in [Side -> Nat]
    BY DEF IInv, Streams
  <1>2. from[s] = taken[s] /\ expects[s] = Nothing
    BY TypeSplit DEF IInv, Cursors
  <1> QED BY <1>1, <1>2

\* A call begins or ends without a byte being read.
LEMMA CallStep ==
    ASSUME IInv, NEW s \in Side, NEW c \in {"none", "send", "send_recv", "recv"},
           call[s] # "recv", Call(s, c),
           from' = from \/ from' = [from EXCEPT ![s] = taken[s]],
           UNCHANGED <<max_packet_size, stream, log, moved, taken, expects, up, got, astray>>,
           faults' \in 0..MaxFaults
    PROVE  IInv'
  <1> USE SideFacts
  <1>1. from' = from /\ expects[s] = Nothing /\ from[s] = taken[s]
    BY FromUnchanged, TypeSplit DEF IInv, Cursors
  <1>2. call' \in [Side -> {"none", "send", "send_recv", "recv"}]
        /\ \A t \in Side : t # s => call'[t] = call[t]
    BY DEF IInv, Streams, Call
  <1>3. Streams'
    BY <1>1, <1>2 DEF IInv, Streams
  <1>4. /\ taken[s] \in Nat /\ taken[s] <= moved[Peer(s)]
        /\ astray \subseteq Side /\ up \in BOOLEAN
    BY TypeSplit DEF IInv, Streams, Cursors
  <1>5. from'[s] <= taken'[s] /\ taken[s] <= taken'[s]
    BY <1>1, <1>4
  <1>6. TypeOK'
    BY <1>1, <1>2, <1>3, <1>4, <1>5, ReaderType DEF IInv
  <1> QED BY <1>1, <1>3, <1>6, QuietStep

LEMMA FlushedStep ==
    ASSUME IInv, NEW s \in Side, Flushed(s)
    PROVE  IInv'
  <1>1. PICK c \in {"none", "recv"} : Call(s, c)
    BY DEF Flushed
  <1> QED BY <1>1, CallStep, TypeSplit DEF Flushed, IInv

LEMMA FlushStopsStep ==
    ASSUME IInv, NEW s \in Side, FlushStops(s)
    PROVE  IInv'
  <1>1. faults' \in 0..MaxFaults
    BY TypeSplit, FaultType DEF FlushStops, IInv
  <1> QED BY <1>1, CallStep DEF FlushStops

LEMMA handler_recvStep ==
    ASSUME IInv, NEW s \in Side, handler_recv(s)
    PROVE  IInv'
  BY CallStep, TypeSplit DEF handler_recv, IInv

\* The configuration and the connection are nobody's place in a stream.
LEMMA ConfigureStep ==
    ASSUME IInv, NEW s \in Side, Configure(s)
    PROVE  IInv'
  <1>1. Streams'
    BY DEF IInv, Streams, Configure
  <1>2. Nothing' = Nothing
    BY DEF Nothing
  <1>3. \A t \in Side : Cursors(t)'
    BY <1>2, TypeSplit DEF IInv, Cursors, Configure, Written
  <1>4. TypeOK'
    BY <1>1, <1>3, TypeJoin, TypeSplit DEF IInv, Configure
  <1> QED BY <1>1, <1>4, QuietStep DEF Configure

LEMMA LoseConnectionStep ==
    ASSUME IInv, LoseConnection
    PROVE  IInv'
  <1>1. Streams'
    BY DEF IInv, Streams, LoseConnection
  <1>2. Nothing' = Nothing
    BY DEF Nothing
  <1>3. \A t \in Side : Cursors(t)'
    BY <1>2, TypeSplit DEF IInv, Cursors, LoseConnection, Written
  <1>4. TypeOK'
    BY <1>1, <1>3, TypeJoin, TypeSplit, FaultType DEF IInv, LoseConnection
  <1> QED BY <1>1, <1>4, QuietStep DEF LoseConnection

\* A reader takes a byte it wants, and stays inside the frame.
LEMMA TakeStep ==
    ASSUME IInv, NEW s \in Side, Take(s)
    PROVE  IInv'
  <1> USE SideFacts
  <1>1. /\ taken \in [Side -> Nat] /\ taken' = [taken EXCEPT ![s] = taken[s] + 1]
        /\ from \in [Side -> Nat] /\ moved \in [Side -> Nat]
    BY DEF IInv, Streams, Take
  <1>2. taken' \in [Side -> Nat] /\ taken'[s] = taken[s] + 1
    BY <1>1
  <1>3. Streams'
    BY <1>2 DEF IInv, Streams, Take
  <1>4. from[s] <= taken[s] /\ taken[s] < moved[Peer(s)] /\ moved[Peer(s)] <= Written(Peer(s))
    BY TypeSplit DEF IInv, Cursors, Take
  <1>5. from[s] <= taken'[s] /\ taken[s] <= taken'[s] /\ taken'[s] <= moved[Peer(s)]
    BY <1>1, <1>2, <1>4
  <1>6. call[s] = "recv" /\ ~PacketRead(s)
    BY DEF Take, Wants
  <1>7. TypeOK'
    <2>1. \A t \in Side : t # s => taken'[t] = taken[t]
      BY <1>1
    <2> QED BY <1>3, <1>5, <1>6, <2>1, ReaderType, TypeSplit DEF IInv, Take
  <1>8. UNCHANGED <<expects, from, got, log, stream, astray>> /\ Nothing' = Nothing
    BY DEF Take, Nothing
  <1>9. ASSUME NEW i \in 1..Len(log[Peer(s)]), NEW b, b = log[Peer(s)][i].body,
               from[s] = log[Peer(s)][i].start, log[Peer(s)][i].bytes = Frame[b]
        PROVE  /\ expects[s] = Nothing => taken'[s] <= from[s] + Len(Header(b))
               /\ \A e \in expects[s] :
                     /\ e = [digits |-> Len(Header(b)), length |-> Len(b)]
                     /\ taken'[s] <= from[s] + e.digits + e.length
    <2> DEFINE c == Len(Consumed(s))
               h == Len(Header(b))
               l == Len(b)
    <2>1. /\ b \in Body
          /\ Stop(Peer(s), i) = from[s] + Len(Frame[b])
          /\ c <= Len(Frame[b])
          /\ expects[s] = Nothing => c <= h
          /\ \A e \in expects[s] : e.digits = h /\ e.length = l
      BY <1>9, InFrame DEF IInv
    <2>2. h \in Nat /\ l \in Nat /\ Len(Frame[b]) = h + l
      BY <2>1, FrameLengths
    <2>3. from[s] \in Nat /\ taken[s] \in Nat /\ taken'[s] = taken[s] + 1 /\ c = taken[s] - from[s]
      BY <1>1, <1>2, ConsumedFacts DEF IInv
    <2>4. taken[s] # Stop(Peer(s), i)
      BY <1>9, FrameEnds DEF IInv, Take
    <2>5. taken'[s] <= from[s] + (h + l)
      <3>1. taken[s] # from[s] + (h + l) /\ c <= h + l
        BY <2>1, <2>2, <2>4
      <3> HIDE DEF c, h, l
      <3> QED BY <2>2, <2>3, <3>1
    <2>6. ASSUME expects[s] = Nothing PROVE taken'[s] <= from[s] + h
      <3>1. c # h
        <4> SUFFICES ASSUME c = h PROVE LengthRead(s)
          BY <2>6 DEF Take, Wants
        <4>1. h \in 1..h /\ h \in Nat \ {0} /\ Header(b)[h] < Base /\ Frame[b][h] = Header(b)[h]
          <5>1. h \in Nat \ {0}
            BY <2>1, FrameFacts
          <5>2. h \in 1..h
            BY <5>1
          <5>3. \A k \in 1..h : Frame[b][k] = Header(b)[k]
            BY <2>1, FrameFacts
          <5> QED BY <2>1, <5>1, <5>2, <5>3, VarintAssumption
        <4>2. \A k \in 1..c : Consumed(s)[k] = Frame[b][k]
          BY <1>9, InFrame DEF IInv
        <4>3. Consumed(s)[c] < Base
          BY <4>1, <4>2
        <4>4. Consumed(s) # <<>>
          BY <4>1
        <4> QED BY <4>3, <4>4 DEF LengthRead, Last
      <3>2. c <= h
        BY <2>1, <2>6
      <3> HIDE DEF c, h
      <3> QED BY <2>2, <2>3, <3>1, <3>2
    <2>7. ASSUME NEW e \in expects[s]
          PROVE  /\ e = [digits |-> h, length |-> l]
                 /\ taken'[s] <= from[s] + e.digits + e.length
      <3>1. e = [digits |-> h, length |-> l]
        BY <1>9 DEF IInv, Inside
      <3>2. e.digits = h /\ e.length = l
        BY <3>1
      <3>3. from[s] + (h + l) = from[s] + h + l
        <4> HIDE DEF h, l
        <4> QED BY <2>2, <2>3
      <3> QED BY <2>5, <3>1, <3>2, <3>3
    <2> QED BY <2>6, <2>7
  <1>10. Inside(s)'
    BY <1>8, <1>9 DEF Inside, Header
  <1>11. Expecting(s)'
    <2> SUFFICES ASSUME NEW e \in expects[s] PROVE from[s] + e.digits <= taken'[s]
      BY <1>8 DEF IInv, Expecting
    <2>1. e.digits \in Nat /\ from[s] + e.digits <= taken[s]
      BY DEF IInv, Streams, Expecting
    <2>2. from[s] \in Nat /\ taken[s] \in Nat
      BY <1>1
    <2> QED BY <1>2, <2>1, <2>2
  <1>12. Peer(s) \notin astray' => \E n \in Nat : n = Len(got'[s]) /\ Place(s, n)'
    <2> SUFFICES ASSUME Peer(s) \notin astray'
                 PROVE  \E n \in Nat : n = Len(got'[s]) /\ Place(s, n)'
      OBVIOUS
    <2>1. PICK n \in Nat : n = Len(got[s]) /\ Place(s, n)
      BY <1>8, GotFacts DEF IInv
    <2>2. Place(s, n)'
      BY <1>8, <2>1, KeepPlace
    <2> QED BY <1>8, <2>1, <2>2
  <1> QED BY <1>1, <1>3, <1>7, <1>8, <1>10, <1>11, <1>12, ReaderStep

\* A length that is read in its place is the length of the body that follows.
LEMMA AcceptStep ==
    ASSUME IInv, NEW s \in Side, Accept(s)
    PROVE  IInv'
  <1> USE SideFacts
  <1> DEFINE c == Len(Consumed(s))
             e == [digits |-> c, length |-> Number(Consumed(s))]
  <1>1. /\ c \in Nat /\ c = taken[s] - from[s] /\ Consumed(s) \in Seq(Byte)
        /\ from[s] \in Nat /\ taken[s] \in Nat /\ from[s] <= taken[s]
    BY ConsumedFacts, LenProperties DEF IInv
  <1>2. expects' = [expects EXCEPT ![s] = {e}]
    BY DEF Accept
  <1>3. /\ expects = [t \in Side |-> expects[t]]
        /\ \A t \in Side : \A x \in expects[t] : x.digits \in Nat
    BY DEF IInv, Streams
  <1>4. /\ expects' = [t \in Side |-> expects'[t]]
        /\ expects'[s] = {e}
        /\ \A t \in Side : t # s => expects'[t] = expects[t]
    BY <1>2, <1>3
  <1>5. \A t \in Side : \A x \in expects'[t] : x.digits \in Nat
    <2>1. e.digits = c
      OBVIOUS
    <2> HIDE DEF e, c
    <2> QED BY <1>1, <1>3, <1>4, <2>1
  <1>6. Streams'
    BY <1>4, <1>5 DEF IInv, Streams, Accept
  <1>7. TypeOK'
    <2>1. taken[s] <= moved[Peer(s)] /\ from[s] <= taken[s] /\ taken[s] <= taken[s]
      BY <1>1, TypeSplit DEF IInv, Cursors
    <2>2. /\ call[s] = "recv"
          /\ UNCHANGED <<stream, log, moved, from, taken, call, astray, up, faults>>
      BY DEF Accept
    <2> QED BY <1>4, <1>6, <2>1, <2>2, ReaderType, TypeSplit DEF IInv
  <1>8. UNCHANGED <<from, taken, got, log, stream, astray>> /\ Nothing' = Nothing
    BY DEF Accept, Nothing
  <1>9. /\ Consumed(s) # <<>> /\ Consumed(s)[c] < Base /\ c \in 1..c /\ c > 0
        /\ expects[s] = Nothing
    <2>1. Consumed(s) # <<>> /\ Consumed(s)[c] < Base /\ expects[s] = Nothing
      BY DEF Accept, LengthRead, Last
    <2>2. c # 0
      BY <1>1, <2>1, EmptySeq
    <2> HIDE DEF c
    <2> QED BY <1>1, <2>1, <2>2
  <1>10. ASSUME NEW i \in 1..Len(log[Peer(s)]), NEW b, b = log[Peer(s)][i].body,
                from[s] = log[Peer(s)][i].start, log[Peer(s)][i].bytes = Frame[b]
         PROVE  /\ e = [digits |-> Len(Header(b)), length |-> Len(b)]
                /\ taken[s] <= from[s] + e.digits + e.length
    <2> DEFINE h == Len(Header(b))
               l == Len(b)
    <2>1. /\ b \in Body
          /\ \A k \in 1..c : Consumed(s)[k] = Frame[b][k]
          /\ c <= h
      BY <1>9, <1>10, InFrame DEF IInv
    <2>2. /\ h \in Nat \ {0} /\ Header(b) \in Seq(Byte) /\ l \in Nat
          /\ \A k \in 1..h : Frame[b][k] = Header(b)[k]
          /\ \A k \in 1..h : Header(b)[k] < Base <=> k = h
          /\ Number(Header(b)) = l
      BY <2>1, FrameFacts, VarintAssumption
    <2>3. \A k \in 1..c : k \in 1..h /\ Consumed(s)[k] = Header(b)[k]
      <3>1. \A k \in 1..c : k \in 1..h
        <4> HIDE DEF c, h
        <4> QED BY <1>1, <2>1, <2>2
      <3> QED BY <2>1, <2>2, <3>1
    <2>4. c = h
      BY <1>9, <2>2, <2>3
    <2>5. Consumed(s) = Header(b)
      BY <1>1, <2>2, <2>3, <2>4, SeqEqual
    <2>6. e = [digits |-> h, length |-> l]
      BY <2>2, <2>4, <2>5
    <2>7. e.digits = h /\ e.length = l
      BY <2>6
    <2>8. taken[s] <= from[s] + h + l
      <3> HIDE DEF c, h, l, e
      <3> QED BY <1>1, <2>2, <2>4
    <2> QED BY <2>6, <2>7, <2>8
  <1>11. Inside(s)'
    <2>1. expects'[s] # Nothing
      BY <1>4 DEF Nothing
    <2> QED BY <1>4, <1>8, <1>10, <2>1 DEF Inside, Header
  <1>12. Expecting(s)'
    <2>1. e.digits = c /\ e.length = Number(Consumed(s))
      OBVIOUS
    <2>2. \E z \in Limits : e.length <= z
      <3>1. max_packet_size[s] \in Limits
        BY DEF IInv, Streams
      <3> QED BY <2>1, <3>1 DEF Accept
    <2>3. e.digits > 0 /\ from[s] + e.digits <= taken[s]
      <3> HIDE DEF c, e
      <3> QED BY <1>1, <1>9, <2>1
    <2> HIDE DEF e
    <2> QED BY <1>4, <1>8, <2>2, <2>3 DEF Expecting
  <1>13. Peer(s) \notin astray' => \E n \in Nat : n = Len(got'[s]) /\ Place(s, n)'
    <2> SUFFICES ASSUME Peer(s) \notin astray'
                 PROVE  \E n \in Nat : n = Len(got'[s]) /\ Place(s, n)'
      OBVIOUS
    <2>1. PICK n \in Nat : n = Len(got[s]) /\ Place(s, n)
      BY <1>8, GotFacts DEF IInv
    <2>2. Place(s, n)'
      BY <1>8, <2>1, KeepPlace
    <2> QED BY <1>8, <2>1, <2>2
  <1> QED BY <1>4, <1>6, <1>7, <1>8, <1>11, <1>12, <1>13, ReaderStep

\* A recv that ends leaves its reader where it stands, expecting nothing.
LEMMA EndRecvType ==
    ASSUME IInv, NEW s \in Side, EndRecv(s), got' \in [Side -> Seq(Seq(Byte))],
           astray' \subseteq Side, faults' \in 0..MaxFaults
    PROVE  /\ Streams' /\ TypeOK'
           /\ from'[s] = taken[s] /\ expects'[s] = Nothing /\ taken'[s] = taken[s]
           /\ \A t \in Side : t # s => /\ from'[t] = from[t] /\ taken'[t] = taken[t]
                                       /\ expects'[t] = expects[t]
           /\ Inside(s)' /\ Expecting(s)'
  <1> USE SideFacts
  <1>1. /\ from' = [from EXCEPT ![s] = taken[s]]
        /\ expects' = [expects EXCEPT ![s] = Nothing]
        /\ call' = [call EXCEPT ![s] = "none"]
        /\ UNCHANGED <<max_packet_size, stream, log, moved, taken, up>>
    BY DEF EndRecv, Call
  <1>2. /\ from \in [Side -> Nat] /\ taken \in [Side -> Nat]
        /\ expects = [t \in Side |-> expects[t]]
        /\ call \in [Side -> {"none", "send", "send_recv", "recv"}]
        /\ \A t \in Side : \A x \in expects[t] : x.digits \in Nat
    BY DEF IInv, Streams
  <1>3. /\ from'[s] = taken[s] /\ expects'[s] = Nothing /\ taken'[s] = taken[s]
        /\ call'[s] = "none"
        /\ \A t \in Side : t # s => /\ from'[t] = from[t] /\ taken'[t] = taken[t]
                                    /\ expects'[t] = expects[t] /\ call'[t] = call[t]
    BY <1>1, <1>2
  <1>4. /\ from' \in [Side -> Nat]
        /\ expects' = [t \in Side |-> expects'[t]]
        /\ call' \in [Side -> {"none", "send", "send_recv", "recv"}]
    BY <1>1, <1>2
  <1>5. \A t \in Side : \A x \in expects'[t] : x.digits \in Nat
    BY <1>2, <1>3 DEF Nothing
  <1>6. Streams'
    BY <1>1, <1>4, <1>5 DEF IInv, Streams
  <1>7. TypeOK'
    <2>1. taken[s] \in Nat /\ taken[s] <= moved[Peer(s)] /\ up \in BOOLEAN
      BY <1>2, TypeSplit DEF IInv, Cursors
    <2>2. from'[s] <= taken'[s] /\ taken[s] <= taken'[s] /\ taken'[s] <= moved[Peer(s)]
      BY <1>3, <2>1
    <2>3. up' \in BOOLEAN
      BY <1>1, <2>1
    <2> QED BY <1>1, <1>3, <1>6, <2>2, <2>3, ReaderType DEF IInv
  <1>8. Inside(s)' /\ Expecting(s)'
    <2>1. taken'[s] \in Nat /\ from'[s] = taken'[s] /\ log'[Peer(s)] = log[Peer(s)]
      BY <1>1, <1>2, <1>3
    <2> QED BY <1>3, <2>1, OutsideFrame DEF IInv
  <1> QED BY <1>3, <1>6, <1>7, <1>8

\* What a recv returns are the bytes behind the length.
LEMMA PacketFacts ==
    ASSUME IInv, NEW s \in Side, NEW e \in expects[s], NEW packet,
           packet = SubSeq(Consumed(s), e.digits + 1, Len(Consumed(s)))
    PROVE  LET c == Len(Consumed(s))
           IN  /\ packet \in Seq(Byte)
               /\ Len(packet) = IF e.digits + 1 <= c THEN c - (e.digits + 1) + 1 ELSE 0
               /\ \A i \in 1 .. c - (e.digits + 1) + 1 :
                     packet[i] = Consumed(s)[(e.digits + 1) + i - 1]
  <1> DEFINE c == Len(Consumed(s))
             d == e.digits + 1
  <1>1. c \in Nat /\ Consumed(s) \in Seq(Byte)
    BY ConsumedFacts, LenProperties DEF IInv
  <1>2. e.digits \in Nat
    BY DEF IInv, Streams
  <1>3. d \in Int /\ d > 0 /\ c \in Int
    BY <1>1, <1>2
  <1>4. \A i \in d .. c : Consumed(s)[i] \in Byte
    <2>1. \A i \in d .. c : i \in 1..c
      <3> HIDE DEF d, c
      <3> QED BY <1>3
    <2> QED BY <1>1, <2>1, ElementOfSeq
  <1> HIDE DEF d
  <1>5. /\ SubSeq(Consumed(s), d, c) \in Seq(Byte)
        /\ Len(SubSeq(Consumed(s), d, c)) = IF d <= c THEN c - d + 1 ELSE 0
        /\ \A i \in 1 .. c - d + 1 : SubSeq(Consumed(s), d, c)[i] = Consumed(s)[d + i - 1]
    BY <1>3, <1>4, SubSeqProperties
  <1> QED BY <1>5 DEF d

\* A recv that began where a whole frame begins returns its body, and stands at
\* its end.
LEMMA ReturnsBody ==
    ASSUME IInv, NEW s \in Side, NEW e \in expects[s], PacketRead(s),
           NEW i \in 1..Len(log[Peer(s)]), NEW b, b = log[Peer(s)][i].body,
           from[s] = log[Peer(s)][i].start, log[Peer(s)][i].bytes = Frame[b]
    PROVE  /\ b \in Body /\ e.length = Len(b)
           /\ SubSeq(Consumed(s), e.digits + 1, Len(Consumed(s))) = b
           /\ taken[s] = Stop(Peer(s), i)
  <1> DEFINE c == Len(Consumed(s))
             packet == SubSeq(Consumed(s), e.digits + 1, c)
             h == Len(Header(b))
             l == Len(b)
  <1>1. /\ b \in Body /\ Stop(Peer(s), i) = from[s] + Len(Frame[b])
        /\ \A k \in 1..c : Consumed(s)[k] = Frame[b][k]
        /\ \A x \in expects[s] : x.digits = Len(Header(b)) /\ x.length = Len(b)
    <2>1. Streams /\ TypeOK /\ Layout(Peer(s)) /\ Inside(s) /\ Expecting(s)
      BY SideFacts DEF IInv
    <2> QED BY <2>1, InFrame
  <1>2. /\ h \in Nat /\ l \in Nat /\ Len(Frame[b]) = h + l /\ b \in Seq(Byte)
        /\ \A k \in 1..l : Frame[b][h + k] = b[k]
    BY <1>1, FrameFacts, BodyFacts
  <1>3. /\ c \in Nat /\ c = taken[s] - from[s]
        /\ from[s] \in Nat /\ taken[s] \in Nat
    BY ConsumedFacts, LenProperties DEF IInv
  <1>4. e.digits = h /\ e.length = l
    BY <1>1
  <1>5. c = h + l
    <2>1. PICK x \in expects[s] : c = x.digits + x.length
      BY DEF PacketRead
    <2> QED BY <1>1, <2>1
  <1>6. /\ packet \in Seq(Byte)
        /\ Len(packet) = IF h + 1 <= c THEN c - (h + 1) + 1 ELSE 0
        /\ \A k \in 1 .. c - (h + 1) + 1 : packet[k] = Consumed(s)[(h + 1) + k - 1]
    <2>1. /\ packet \in Seq(Byte)
          /\ Len(packet) = IF e.digits + 1 <= c THEN c - (e.digits + 1) + 1 ELSE 0
          /\ \A k \in 1 .. c - (e.digits + 1) + 1 :
                packet[k] = Consumed(s)[(e.digits + 1) + k - 1]
      BY PacketFacts
    <2>2. e.digits = h
      BY <1>4
    <2> HIDE DEF packet, c, h
    <2> QED BY <2>1, <2>2
  <1> HIDE DEF packet
  <1>7. Len(packet) = l
    <2> HIDE DEF h, l, c
    <2> QED BY <1>2, <1>5, <1>6
  <1>8. \A k \in 1..l : packet[k] = b[k]
    <2>1. \A k \in 1..l : /\ k \in 1 .. c - (h + 1) + 1 /\ (h + 1) + k - 1 = h + k
                          /\ h + k \in 1..c
      <3>1. h \in Nat /\ l \in Nat
        BY <1>2
      <3> HIDE DEF h, l, c
      <3> QED BY <1>5, <3>1
    <2>2. \A k \in 1..l : packet[k] = Consumed(s)[h + k]
      BY <1>6, <2>1
    <2>3. \A k \in 1..l : Consumed(s)[h + k] = Frame[b][h + k]
      BY <1>1, <2>1
    <2> QED BY <1>2, <2>2, <2>3
  <1>9. packet = b
    BY <1>2, <1>6, <1>7, <1>8, SeqEqual
  <1>10. taken[s] = from[s] + (h + l)
    <2> HIDE DEF h, l, c
    <2> QED BY <1>2, <1>3, <1>5
  <1> QED BY <1>1, <1>2, <1>4, <1>9, <1>10 DEF packet

\* What recv returns in its place is the body of the frame it stands in, and it
\* stands behind that frame then.
LEMMA ReturnStep ==
    ASSUME IInv, NEW s \in Side, Return(s)
    PROVE  IInv'
  <1> USE SideFacts
  <1>1. PICK e \in expects[s] :
           got' = [got EXCEPT ![s] = Append(@, SubSeq(Consumed(s), e.digits + 1, Len(Consumed(s))))]
    BY DEF Return
  <1> DEFINE c == Len(Consumed(s))
             packet == SubSeq(Consumed(s), e.digits + 1, c)
  <1>2. /\ c \in Nat /\ c = taken[s] - from[s] /\ Consumed(s) \in Seq(Byte)
        /\ from[s] \in Nat /\ taken[s] \in Nat /\ from[s] <= taken[s]
    BY ConsumedFacts, LenProperties DEF IInv
  <1>3. e.digits \in Nat
    BY DEF IInv, Streams
  <1>4. packet \in Seq(Byte)
    BY PacketFacts
  <1> HIDE DEF packet
  <1>5. /\ got \in [Side -> Seq(Seq(Byte))]
        /\ got' = [got EXCEPT ![s] = Append(got[s], packet)]
    BY <1>1 DEF IInv, Streams, packet
  <1>6. got[s] \in Seq(Seq(Byte)) /\ Len(got[s]) \in Nat
    BY GotFacts DEF IInv
  <1>7. /\ Append(got[s], packet) \in Seq(Seq(Byte))
        /\ Len(Append(got[s], packet)) = Len(got[s]) + 1
        /\ \A i \in 1..Len(got[s]) : Append(got[s], packet)[i] = got[s][i]
        /\ Append(got[s], packet)[Len(got[s]) + 1] = packet
    BY <1>4, <1>6, AppendProperties
  <1>8. /\ got' \in [Side -> Seq(Seq(Byte))]
        /\ got'[s] = Append(got[s], packet)
        /\ \A t \in Side : t # s => got'[t] = got[t]
    BY <1>5, <1>7
  <1>9. /\ EndRecv(s) /\ astray' = astray /\ astray' \subseteq Side /\ faults' \in 0..MaxFaults
        /\ stream' = stream /\ log' = log
    BY TypeSplit DEF Return, EndRecv, IInv
  <1>10. /\ Streams' /\ TypeOK'
         /\ from'[s] = taken[s] /\ expects'[s] = Nothing /\ taken'[s] = taken[s]
         /\ \A t \in Side : t # s => /\ from'[t] = from[t] /\ taken'[t] = taken[t]
                                     /\ expects'[t] = expects[t]
         /\ Inside(s)' /\ Expecting(s)'
    BY <1>8, <1>9, EndRecvType
  <1>11. ASSUME Peer(s) \notin astray', NEW n \in Nat, n = Len(got[s]), Place(s, n)
         PROVE  Len(got'[s]) = n + 1 /\ Place(s, n + 1)'
    <2>1. /\ n \in Nat /\ n <= Len(log[Peer(s)]) /\ from[s] = Start(Peer(s), n + 1)
          /\ Len(log[Peer(s)]) \in Nat /\ Written(Peer(s)) \in Nat
      BY <1>11, StreamFacts DEF Place, IInv
    <2>2. n + 1 \in 1..Len(log[Peer(s)])
      <3>1. e.digits > 0 /\ from[s] + e.digits <= taken[s]
        BY DEF IInv, Expecting
      <3>2. taken[s] <= Written(Peer(s))
        BY ConsumedFacts DEF IInv
      <3>3. from[s] # Written(Peer(s))
        BY <1>2, <1>3, <2>1, <3>1, <3>2
      <3>4. n # Len(log[Peer(s)])
        BY <2>1, <3>3 DEF Start
      <3> QED BY <2>1, <3>4
    <2>3. PICK b \in Body : b = log[Peer(s)][n + 1].body
      BY <2>2, StreamFacts, SideFacts DEF IInv
    <2>4. from[s] = log[Peer(s)][n + 1].start /\ log[Peer(s)][n + 1].bytes = Frame[b]
      <3>1. from[s] = log[Peer(s)][n + 1].start
        BY <2>1, <2>2 DEF Start
      <3>2. Peer(s) \notin astray
        BY <1>9, <1>11
      <3> QED BY <2>2, <2>3, <3>1, <3>2 DEF IInv, Layout
    <2>5. packet = b /\ taken[s] = Stop(Peer(s), n + 1)
      <3>1. PacketRead(s)
        BY DEF Return
      <3>2. /\ SubSeq(Consumed(s), e.digits + 1, Len(Consumed(s))) = b
            /\ taken[s] = Stop(Peer(s), n + 1)
        BY <2>2, <2>3, <2>4, <3>1, ReturnsBody
      <3> QED BY <3>2 DEF packet
    <2>6. Len(got'[s]) = n + 1
      BY <1>7, <1>8, <1>11
    <2>7. \A i \in 1..(n + 1) : got'[s][i] = log[Peer(s)][i].body
      <3>1. \A i \in 1..n : got[s][i] = log[Peer(s)][i].body
        BY <1>11 DEF Place
      <3>2. \A i \in 1..(n + 1) : i \in 1..n \/ i = n + 1
        BY <1>11
      <3>3. got'[s][n + 1] = b /\ \A i \in 1..n : got'[s][i] = got[s][i]
        BY <1>7, <1>8, <1>11, <2>5
      <3>4. log[Peer(s)][n + 1].body = b
        BY <2>3
      <3> QED BY <3>1, <3>2, <3>3, <3>4
    <2>8. taken[s] = Start(Peer(s), n + 1 + 1)
      BY <2>2, <2>5 DEF IInv, Layout
    <2>9. n + 1 <= Len(log[Peer(s)])
      BY <2>2
    <2>10. \A i \in Nat : Start(Peer(s), i)' = Start(Peer(s), i)
      BY <1>9 DEF Start, Written
    <2>11. from'[s] = Start(Peer(s), n + 1 + 1)'
      BY <1>10, <2>8, <2>10
    <2> QED BY <1>9, <1>10, <2>6, <2>7, <2>9, <2>11 DEF Place
  <1>12. Peer(s) \notin astray' => \E n \in Nat : n = Len(got'[s]) /\ Place(s, n)'
    <2> SUFFICES ASSUME Peer(s) \notin astray'
                 PROVE  \E n \in Nat : n = Len(got'[s]) /\ Place(s, n)'
      OBVIOUS
    <2>1. PICK n \in Nat : n = Len(got[s]) /\ Place(s, n)
      BY <1>9, GotFacts DEF IInv
    <2>2. PICK m \in Nat : m = n + 1
      OBVIOUS
    <2>3. Len(got'[s]) = m /\ Place(s, m)'
      BY <1>11, <2>1, <2>2
    <2> QED BY <2>3
  <1> QED BY <1>8, <1>9, <1>10, <1>12, ReaderStep

\* A refused length makes the peer's bytes go astray: nothing is claimed of them
\* any more.
LEMMA RefuseStep ==
    ASSUME IInv, NEW s \in Side, Refuse(s)
    PROVE  IInv'
  <1> USE SideFacts
  <1>1. /\ EndRecv(s) /\ got' = got /\ astray' = astray \cup {Peer(s)} /\ faults' = faults
        /\ UNCHANGED <<stream, log>>
    BY DEF Refuse, EndRecv
  <1>2. got' \in [Side -> Seq(Seq(Byte))] /\ astray' \subseteq Side /\ faults' \in 0..MaxFaults
    BY <1>1, TypeSplit DEF IInv, Streams
  <1>3. /\ Streams' /\ TypeOK'
        /\ \A t \in Side : t # s => /\ from'[t] = from[t] /\ taken'[t] = taken[t]
                                    /\ expects'[t] = expects[t]
        /\ Inside(s)' /\ Expecting(s)'
    BY <1>1, <1>2, EndRecvType
  <1> QED BY <1>1, <1>3, ReaderStep

\* A recv that stops before its first byte leaves its reader in its place, any
\* other makes the peer's bytes go astray.
LEMMA RecvStopsStep ==
    ASSUME IInv, NEW s \in Side, RecvStops(s)
    PROVE  IInv'
  <1> USE SideFacts
  <1>1. /\ EndRecv(s) /\ got' = got
        /\ astray' = IF Consumed(s) = <<>> THEN astray ELSE astray \cup {Peer(s)}
        /\ UNCHANGED <<stream, log>>
    BY DEF RecvStops, EndRecv
  <1>2. got' \in [Side -> Seq(Seq(Byte))] /\ astray' \subseteq Side /\ faults' \in 0..MaxFaults
    BY <1>1, TypeSplit, FaultType DEF IInv, Streams, RecvStops
  <1>3. /\ Streams' /\ TypeOK'
        /\ from'[s] = taken[s] /\ expects'[s] = Nothing /\ taken'[s] = taken[s]
        /\ \A t \in Side : t # s => /\ from'[t] = from[t] /\ taken'[t] = taken[t]
                                    /\ expects'[t] = expects[t]
        /\ Inside(s)' /\ Expecting(s)'
    BY <1>1, <1>2, EndRecvType
  <1>4. ASSUME Peer(s) \notin astray' PROVE \E n \in Nat : n = Len(got'[s]) /\ Place(s, n)'
    <2>1. Consumed(s) = <<>> /\ Peer(s) \notin astray
      BY <1>1, <1>4
    <2>2. from[s] = taken[s]
      <3>1. from[s] \in Nat /\ taken[s] \in Nat /\ Len(Consumed(s)) = taken[s] - from[s]
        BY ConsumedFacts DEF IInv
      <3>2. Len(Consumed(s)) = 0
        BY <2>1
      <3> QED BY <3>1, <3>2
    <2>3. PICK n \in Nat : n = Len(got[s]) /\ Place(s, n)
      BY <2>1, GotFacts DEF IInv
    <2>4. /\ from'[s] = from[s] /\ got'[s] = got[s]
          /\ stream'[Peer(s)] = stream[Peer(s)] /\ log'[Peer(s)] = log[Peer(s)]
      BY <1>1, <1>3, <2>2
    <2>5. Place(s, n)' /\ n = Len(got'[s])
      BY <2>3, <2>4, KeepPlace
    <2> QED BY <2>5
  <1> QED BY <1>1, <1>3, <1>4, ReaderStep

LEMMA InvNext == IInv /\ [Next]_vars => IInv'
  <1> SUFFICES ASSUME IInv, [Next]_vars PROVE IInv'
    OBVIOUS
  <1>1. ASSUME NEW s \in Side, handler_send(s) \/ handler_send_recv(s) PROVE IInv'
    BY <1>1, SendStep DEF handler_send, handler_send_recv
  <1>2. ASSUME NEW s \in Side, SendStops(s) PROVE IInv'
    BY <1>2, SendStopsStep
  <1>3. ASSUME NEW s \in Side, Move(s) PROVE IInv'
    BY <1>3, MoveStep
  <1>4. ASSUME NEW s \in Side, Flushed(s) PROVE IInv'
    BY <1>4, FlushedStep
  <1>5. ASSUME NEW s \in Side, FlushStops(s) PROVE IInv'
    BY <1>5, FlushStopsStep
  <1>6. ASSUME NEW s \in Side, handler_recv(s) PROVE IInv'
    BY <1>6, handler_recvStep
  <1>7. ASSUME NEW s \in Side, Receiving(s) PROVE IInv'
    BY <1>7, TakeStep, AcceptStep, ReturnStep, RefuseStep DEF Receiving
  <1>8. ASSUME NEW s \in Side, RecvStops(s) PROVE IInv'
    BY <1>8, RecvStopsStep
  <1>9. ASSUME NEW s \in Side, Configure(s) PROVE IInv'
    BY <1>9, ConfigureStep
  <1>10. CASE LoseConnection
    BY <1>10, LoseConnectionStep
  <1>11. CASE UNCHANGED vars
    <2>1. UNCHANGED <<stream, log, taken, from, expects, got, astray>>
      BY <1>11 DEF vars
    <2>2. Streams'
      BY <1>11 DEF vars, IInv, Streams
    <2>3. \A t \in Side : Cursors(t)'
      BY <1>11, TypeSplit DEF vars, IInv, Cursors, Written, Nothing
    <2>4. TypeOK'
      BY <1>11, <2>2, <2>3, TypeJoin, TypeSplit DEF IInv, vars
    <2> QED BY <2>1, <2>2, <2>4, QuietStep
  <1> QED BY <1>1, <1>2, <1>3, <1>4, <1>5, <1>6, <1>7, <1>8, <1>9, <1>10, <1>11 DEF Next

-----------------------------------------------------------------------------
(* Theorems *)

\* The invariant: a stream is its frames one behind the other, and until a call
\* stops inside a frame a reader stands in the frame behind those it has
\* returned, in its length while it expects nothing and in its body when it
\* expects that body.
THEOREM Invariant == Spec => []IInv
  BY InvInit, InvNext, PTL DEF Spec

\* Nothing is read before it is on the connection or put there before it is
\* written, the connection never holds more than it can, and a side that does
\* not receive has no length left over from an earlier recv.
THEOREM TypeCorrect == Spec => []TypeOK
  <1>1. IInv => TypeOK
    BY DEF IInv
  <1> QED BY <1>1, Invariant, PTL

\* Byte for byte the packets read_packet returns are those write_packet was
\* given, in their order, until a call has stopped inside a frame: however the
\* bytes are cut up on the way, whatever limits are set and calls dropped.
THEOREM FramesFaithful == Spec => []Faithful
  <1>1. IInv => Faithful
    <2> SUFFICES ASSUME IInv, NEW s \in Side, Peer(s) \notin astray
                 PROVE  IsPrefix(got[s], Sent(Peer(s)))
      BY DEF Faithful
    <2> USE SideFacts
    <2> DEFINE q == Sent(Peer(s))
               L == Len(log[Peer(s)])
    <2>1. PICK n \in Nat : n = Len(got[s]) /\ Place(s, n)
      BY GotFacts DEF IInv
    <2>2. L \in Nat /\ \A i \in 1..L : log[Peer(s)][i].body \in Seq(Byte)
      BY StreamFacts, BodyFacts DEF IInv
    <2>3. q \in Seq(Seq(Byte)) /\ Len(q) = L /\ \A i \in 1..L : q[i] = log[Peer(s)][i].body
      BY <2>2 DEF Sent
    <2>4. n <= L /\ \A i \in 1..n : got[s][i] = log[Peer(s)][i].body
      BY <2>1 DEF Place
    <2>5. \A i \in 1..n : i \in 1..L /\ got[s][i] = q[i]
      <3>1. \A i \in 1..n : i \in 1..L
        <4> HIDE DEF L
        <4> QED BY <2>2, <2>4
      <3> QED BY <2>3, <2>4, <3>1
    <2>6. got[s] \in Seq(Seq(Byte))
      BY GotFacts DEF IInv
    <2>7. SubSeq(got[s], 1, n) = got[s]
      BY <2>1, <2>6, SubSeqFull
    <2>8. SubSeq(q, 1, n) = got[s]
      <3> HIDE DEF q, L
      <3>1. \A i \in 1..n : q[i] \in Seq(Byte)
        BY <2>3, <2>5, ElementOfSeq
      <3>2. 1 \in Int /\ n \in Int
        OBVIOUS
      <3>3. /\ SubSeq(q, 1, n) \in Seq(Seq(Byte))
            /\ Len(SubSeq(q, 1, n)) = IF 1 <= n THEN n - 1 + 1 ELSE 0
            /\ \A i \in 1 .. n - 1 + 1 : SubSeq(q, 1, n)[i] = q[1 + i - 1]
        BY <3>1, <3>2, SubSeqProperties
      <3>4. Len(SubSeq(q, 1, n)) = n /\ \A i \in 1..n : SubSeq(q, 1, n)[i] = got[s][i]
        BY <2>5, <3>3
      <3> QED BY <2>1, <2>6, <3>3, <3>4, SeqEqual
    <2> QED BY <2>1, <2>3, <2>4, <2>7, <2>8 DEF IsPrefix
  <1> QED BY <1>1, Invariant, PTL
=============================================================================
