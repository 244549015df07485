------------------------- MODULE FramesLayerProofs -------------------------
(***************************************************************************)
(* Frames implements PacketLayer: every step of the bytes is a step of the *)
(* items they are, or none.                                                *)
(***************************************************************************)
EXTENDS FramesProofs

-----------------------------------------------------------------------------
(* Items *)

LogItem == [pkt : [body : Body, len : Nat], cut : BOOLEAN]

\* Items i to j of a log.
Slice(l, i, j) == [k \in 1..(j - i + 1) |-> LayerItem(l[i + k - 1])]

LEMMA ItemType ==
    ASSUME NEW e \in Entry
    PROVE  LayerItem(e) \in LogItem
  <1>1. e.body \in Body /\ Len(e.body) \in Nat
    BY BodyFacts DEF Entry
  <1> QED BY <1>1 DEF LayerItem, LayerPacket, LogItem

LEMMA SliceFacts ==
    ASSUME NEW l \in Seq(Entry), NEW i \in 1..(Len(l) + 1), NEW j \in (i - 1)..Len(l)
    PROVE  /\ Slice(l, i, j) \in Seq(LogItem)
           /\ Len(Slice(l, i, j)) = j - i + 1
           /\ \A k \in 1..(j - i + 1) : Slice(l, i, j)[k] = LayerItem(l[i + k - 1])
  <1> DEFINE n == j - i + 1
  <1>1. Len(l) \in Nat
    BY LenProperties
  <1>2. n \in Nat
    BY <1>1
  <1>3. \A k \in 1..n : i + k - 1 \in 1..Len(l)
    BY <1>1
  <1>4. \A k \in 1..n : LayerItem(l[i + k - 1]) \in LogItem
    BY <1>3, ElementOfSeq, ItemType
  <1>5. Slice(l, i, j) = [k \in 1..n |-> LayerItem(l[i + k - 1])]
    BY DEF Slice
  <1> HIDE DEF n
  <1>6. Slice(l, i, j) \in Seq(LogItem) /\ Len(Slice(l, i, j)) = n
    BY <1>2, <1>4, <1>5
  <1>7. \A k \in 1..n : Slice(l, i, j)[k] = LayerItem(l[i + k - 1])
    BY <1>5
  <1> QED BY <1>6, <1>7 DEF n

\* A slice without its first item.
LEMMA SliceDrop ==
    ASSUME NEW l \in Seq(Entry), NEW i \in 1..Len(l), NEW j \in i..Len(l)
    PROVE  /\ Slice(l, i, j) # <<>>
           /\ Head(Slice(l, i, j)) = LayerItem(l[i])
           /\ Tail(Slice(l, i, j)) = Slice(l, i + 1, j)
  <1> DEFINE n == j - i + 1
             q == Slice(l, i, j)
             r == Slice(l, i + 1, j)
  <1>1. Len(l) \in Nat
    BY LenProperties
  <1>2. /\ i \in 1..(Len(l) + 1) /\ j \in (i - 1)..Len(l)
        /\ i + 1 \in 1..(Len(l) + 1) /\ j \in ((i + 1) - 1)..Len(l)
    BY <1>1
  <1>3. /\ q \in Seq(LogItem) /\ Len(q) = n
        /\ \A k \in 1..n : q[k] = LayerItem(l[i + k - 1])
    BY <1>2, SliceFacts
  <1>4. /\ r \in Seq(LogItem) /\ Len(r) = j - (i + 1) + 1
        /\ \A k \in 1..(j - (i + 1) + 1) : r[k] = LayerItem(l[(i + 1) + k - 1])
    BY <1>2, SliceFacts
  <1> HIDE DEF q, r
  <1>5. n \in Nat \ {0} /\ q # <<>> /\ 1 \in 1..n /\ i + 1 - 1 = i
    <2>1. n \in Nat \ {0} /\ 1 \in 1..n /\ i + 1 - 1 = i
      BY <1>1
    <2>2. q # <<>>
      BY <1>3, <2>1
    <2> QED BY <2>1, <2>2
  <1>6. Head(q) = LayerItem(l[i])
    <2>1. q[1] = LayerItem(l[i + 1 - 1])
      BY <1>3, <1>5
    <2>2. Head(q) = q[1]
      BY <1>3, <1>5
    <2> QED BY <1>5, <2>1, <2>2
  <1>7. /\ Tail(q) \in Seq(LogItem) /\ Len(Tail(q)) = n - 1
        /\ \A k \in 1..(n - 1) : Tail(q)[k] = q[k + 1]
    BY <1>3, <1>5, HeadTailProperties
  <1>8. /\ j - (i + 1) + 1 = n - 1
        /\ \A k \in 1..(n - 1) : k + 1 \in 1..n /\ i + (k + 1) - 1 = (i + 1) + k - 1
    BY <1>1
  <1>9. \A k \in 1..(n - 1) : Tail(q)[k] = r[k]
    BY <1>3, <1>4, <1>7, <1>8
  <1>10. Tail(q) = r
    BY <1>4, <1>7, <1>8, <1>9, SeqEqual
  <1> QED BY <1>5, <1>6, <1>10 DEF q, r

\* A slice with the next item behind it.
LEMMA SliceAdd ==
    ASSUME NEW l \in Seq(Entry), NEW i \in 1..Len(l), NEW j \in (i - 1)..(Len(l) - 1)
    PROVE  Append(Slice(l, i, j), LayerItem(l[j + 1])) = Slice(l, i, j + 1)
  <1> DEFINE n == j - i + 1
             q == Slice(l, i, j)
             r == Slice(l, i, j + 1)
             e == LayerItem(l[j + 1])
             a == Append(q, e)
  <1>1. Len(l) \in Nat
    BY LenProperties
  <1>2. /\ i \in 1..(Len(l) + 1) /\ j \in (i - 1)..Len(l) /\ j + 1 \in (i - 1)..Len(l)
        /\ j + 1 \in 1..Len(l)
    BY <1>1
  <1>3. /\ q \in Seq(LogItem) /\ Len(q) = n
        /\ \A k \in 1..n : q[k] = LayerItem(l[i + k - 1])
    BY <1>2, SliceFacts
  <1>4. /\ r \in Seq(LogItem) /\ Len(r) = (j + 1) - i + 1
        /\ \A k \in 1..((j + 1) - i + 1) : r[k] = LayerItem(l[i + k - 1])
    BY <1>2, SliceFacts
  <1>5. e \in LogItem
    BY <1>2, ElementOfSeq, ItemType
  <1>6. /\ a \in Seq(LogItem) /\ Len(a) = Len(q) + 1
        /\ \A k \in 1..Len(q) : a[k] = q[k]
        /\ a[Len(q) + 1] = e
    BY <1>3, <1>5, AppendProperties
  <1> HIDE DEF q, r, a
  <1>7. /\ n \in Nat /\ (j + 1) - i + 1 = n + 1
        /\ \A k \in 1..(n + 1) : k \in 1..n \/ k = n + 1
        /\ i + (n + 1) - 1 = j + 1 /\ n + 1 \in 1..(n + 1)
        /\ \A k \in 1..n : k \in 1..(n + 1)
    BY <1>1
  <1>8. \A k \in 1..(n + 1) : a[k] = r[k]
    <2>1. \A k \in 1..n : a[k] = r[k]
      BY <1>3, <1>4, <1>6, <1>7
    <2>2. a[n + 1] = r[n + 1]
      BY <1>3, <1>4, <1>6, <1>7
    <2> QED BY <1>7, <2>1, <2>2
  <1>9. Len(a) = n + 1 /\ Len(r) = n + 1
    BY <1>3, <1>4, <1>6, <1>7
  <1>10. a = r
    BY <1>4, <1>6, <1>8, <1>9, SeqEqual
  <1> QED BY <1>10 DEF a, r, q

\* A slice of a log that has grown is what it was.
LEMMA SliceGrow ==
    ASSUME NEW l \in Seq(Entry), NEW i \in 1..(Len(l) + 1), NEW j \in (i - 1)..Len(l),
           NEW m \in Seq(Entry), Len(m) = Len(l) + 1, \A k \in 1..Len(l) : m[k] = l[k]
    PROVE  Slice(m, i, j) = Slice(l, i, j)
  <1>1. Len(l) \in Nat
    BY LenProperties
  <1>2. \A k \in 1..(j - i + 1) : i + k - 1 \in 1..Len(l)
    BY <1>1
  <1>3. \A k \in 1..(j - i + 1) : LayerItem(m[i + k - 1]) = LayerItem(l[i + k - 1])
    BY <1>2
  <1> QED BY <1>3 DEF Slice

-----------------------------------------------------------------------------
(* Where the cursors stand *)

AtItem(s, i) ==
    IF from[s] < taken[s]
    THEN /\ i \in 1..Len(log[Peer(s)])
         /\ Start(Peer(s), i) < taken[s] /\ taken[s] <= Stop(Peer(s), i)
    ELSE /\ i \in 1..(Len(log[Peer(s)]) + 1)
         /\ Start(Peer(s), i) <= taken[s]
         /\ i <= Len(log[Peer(s)]) => taken[s] < Stop(Peer(s), i)

ToMove(s, i) ==
    /\ i \in 1..(Len(log[s]) + 1)
    /\ i <= Len(log[s]) => moved[s] <= Start(s, i)
    /\ i > 1 => Start(s, i - 1) < moved[s]

\* Current and Unmoved are the one item each they are meant to be.
Mapped ==
    \A s \in Side :
        /\ AtItem(s, Current(s)) /\ ToMove(s, Unmoved(s))
        /\ \A i \in Nat : AtItem(s, i) => i = Current(s)
        /\ \A i \in Nat : ToMove(s, i) => i = Unmoved(s)

\* Where the items of a stream begin and end.
LEMMA LayoutFacts ==
    ASSUME IInv, NEW s \in Side
    PROVE  /\ Len(log[s]) \in Nat /\ Written(s) \in Nat /\ moved[s] \in Nat
           /\ moved[s] <= Written(s)
           /\ Start(s, 1) = 0 /\ Start(s, Len(log[s]) + 1) = Written(s)
           /\ \A i \in 1..(Len(log[s]) + 1) : Start(s, i) \in Nat
           /\ \A i \in 1..Len(log[s]) : Stop(s, i) = Start(s, i + 1)
           /\ \A i, j \in 1..(Len(log[s]) + 1) : i < j => Start(s, i) < Start(s, j)
           /\ \A x \in 0..(Written(s) - 1) : \E i \in 1..Len(log[s]) :
                 Start(s, i) <= x /\ x < Stop(s, i)
  <1>1. Len(log[s]) \in Nat /\ Written(s) \in Nat
    BY StreamFacts DEF IInv
  <1>2. moved[s] \in Nat /\ moved[s] <= Written(s)
    BY TypeSplit DEF IInv, Streams, Cursors
  <1>3. Start(s, Len(log[s]) + 1) = Written(s)
    BY <1>1 DEF Start
  <1>4. \A i \in 1..(Len(log[s]) + 1) : Start(s, i) \in Nat
    <2>1. \A i \in 1..(Len(log[s]) + 1) : i \in Nat \ {0}
      BY <1>1
    <2> QED BY <2>1, StreamFacts DEF IInv
  <1> QED BY <1>1, <1>2, <1>3, <1>4 DEF IInv, Layout

\* Of two items the later one begins where the earlier one ends, or behind.
LEMMA ItemsApart ==
    ASSUME IInv, NEW s \in Side, NEW i \in 1..Len(log[s]), NEW j \in 1..(Len(log[s]) + 1), i < j
    PROVE  Stop(s, i) <= Start(s, j)
  <1>1. i + 1 \in 1..(Len(log[s]) + 1) /\ (i + 1 = j \/ i + 1 < j)
    BY LayoutFacts
  <1>2. Stop(s, i) = Start(s, i + 1) /\ Start(s, i + 1) \in Nat /\ Start(s, j) \in Nat
    BY <1>1, LayoutFacts
  <1>3. i + 1 < j => Start(s, i + 1) < Start(s, j)
    BY <1>1, LayoutFacts
  <1> QED BY <1>1, <1>2, <1>3

\* A reader is at one item only.
LEMMA OneAtItem ==
    ASSUME IInv, NEW s \in Side, NEW i \in Nat, NEW j \in Nat,
           AtItem(s, i), AtItem(s, j), i < j
    PROVE  FALSE
  <1> DEFINE p == Peer(s)
             L == Len(log[p])
  <1>1. p \in Side /\ taken[s] \in Nat
    BY SideFacts DEF IInv, Streams
  <1>2. L \in Nat /\ i \in 1..(L + 1) /\ j \in 1..(L + 1)
    BY <1>1, LayoutFacts DEF AtItem
  <1>3. i \in 1..L
    BY <1>2
  <1>4. Stop(p, i) <= Start(p, j)
    BY <1>1, <1>2, <1>3, ItemsApart
  <1>5. Stop(p, i) \in Nat /\ Start(p, j) \in Nat
    <2>1. i + 1 \in 1..(L + 1) /\ Stop(p, i) = Start(p, i + 1)
      BY <1>1, <1>2, <1>3, LayoutFacts
    <2> QED BY <1>1, <1>2, <2>1, LayoutFacts
  <1>6. CASE from[s] < taken[s]
    BY <1>1, <1>4, <1>5, <1>6 DEF AtItem
  <1>7. CASE ~(from[s] < taken[s])
    <2>1. taken[s] < Stop(p, i) /\ Start(p, j) <= taken[s]
      BY <1>3, <1>7 DEF AtItem
    <2> QED BY <1>1, <1>4, <1>5, <2>1
  <1> QED BY <1>6, <1>7

\* One item only is the next to be moved.
LEMMA OneToMove ==
    ASSUME IInv, NEW s \in Side, NEW i \in Nat, NEW j \in Nat,
           ToMove(s, i), ToMove(s, j), i < j
    PROVE  FALSE
  <1> DEFINE L == Len(log[s])
  <1>1. L \in Nat /\ moved[s] \in Nat
    BY LayoutFacts
  <1>2. i \in 1..(L + 1) /\ j \in 1..(L + 1) /\ i \in 1..L /\ j > 1 /\ j - 1 \in 1..(L + 1)
    BY <1>1 DEF ToMove
  <1>3. moved[s] <= Start(s, i) /\ Start(s, j - 1) < moved[s]
    BY <1>2 DEF ToMove
  <1>4. i = j - 1 \/ i < j - 1
    BY <1>2
  <1>5. Start(s, i) \in Nat /\ Start(s, j - 1) \in Nat
    BY <1>2, LayoutFacts
  <1>6. i < j - 1 => Start(s, i) < Start(s, j - 1)
    BY <1>2, LayoutFacts
  <1> QED BY <1>1, <1>3, <1>4, <1>5, <1>6

LEMMA SomeAtItem ==
    ASSUME IInv, NEW s \in Side
    PROVE  \E i \in Nat : AtItem(s, i)
  <1> DEFINE p == Peer(s)
             L == Len(log[p])
             W == Written(p)
             t == taken[s]
  <1>1. p \in Side /\ t \in Nat /\ from[s] \in Nat /\ t <= W
    BY SideFacts, ConsumedFacts DEF IInv
  <1>2. L \in Nat /\ W \in Nat
    BY <1>1, LayoutFacts
  <1>3. \A x \in 0..(W - 1) : \E i \in 1..L : Start(p, i) <= x /\ x < Stop(p, i)
    BY <1>1, LayoutFacts
  <1>4. \A i \in 1..L : Start(p, i) \in Nat /\ Stop(p, i) \in Nat /\ i \in 1..(L + 1) /\ i \in Nat
    <2>1. \A i \in 1..L : i \in 1..(L + 1) /\ i + 1 \in 1..(L + 1) /\ i \in Nat
      BY <1>2
    <2> QED BY <1>1, <2>1, LayoutFacts
  <1>5. CASE from[s] < t
    <2>1. t - 1 \in 0..(W - 1)
      BY <1>1, <1>2, <1>5
    <2>2. PICK i \in 1..L : Start(p, i) <= t - 1 /\ t - 1 < Stop(p, i)
      BY <1>3, <2>1
    <2>3. Start(p, i) < t /\ t <= Stop(p, i)
      BY <1>1, <1>4, <2>2
    <2> QED BY <1>4, <1>5, <2>3 DEF AtItem
  <1>6. CASE ~(from[s] < t) /\ t < W
    <2>1. t \in 0..(W - 1)
      BY <1>1, <1>2, <1>6
    <2>2. PICK i \in 1..L : Start(p, i) <= t /\ t < Stop(p, i)
      BY <1>3, <2>1
    <2> QED BY <1>4, <1>6, <2>2 DEF AtItem
  <1>7. CASE ~(from[s] < t) /\ t = W
    <2>1. Start(p, L + 1) = W
      BY <1>1, LayoutFacts
    <2>2. L + 1 \in Nat /\ L + 1 \in 1..(L + 1) /\ ~(L + 1 <= L)
      BY <1>2
    <2>3. Start(p, L + 1) <= t
      BY <1>1, <1>7, <2>1
    <2> QED BY <1>7, <2>2, <2>3 DEF AtItem
  <1> QED BY <1>1, <1>2, <1>5, <1>6, <1>7

LEMMA SomeToMove ==
    ASSUME IInv, NEW s \in Side
    PROVE  \E i \in Nat : ToMove(s, i)
  <1> DEFINE L == Len(log[s])
             W == Written(s)
             m == moved[s]
  <1>1. L \in Nat /\ W \in Nat /\ m \in Nat /\ m <= W /\ Start(s, 1) = 0
    BY LayoutFacts
  <1>2. CASE m = 0
    <2>1. 1 \in 1..(L + 1) /\ m <= Start(s, 1) /\ ~(1 > 1)
      BY <1>1, <1>2
    <2> QED BY <2>1 DEF ToMove
  <1>3. CASE m > 0
    <2>1. m - 1 \in 0..(W - 1)
      BY <1>1, <1>3
    <2>2. PICK i \in 1..L : Start(s, i) <= m - 1 /\ m - 1 < Stop(s, i)
      BY <2>1, LayoutFacts
    <2>3. /\ i \in 1..(L + 1) /\ i + 1 \in 1..(L + 1) /\ i + 1 \in Nat /\ (i + 1) - 1 = i
      BY <1>1
    <2>4. /\ Stop(s, i) = Start(s, i + 1) /\ Start(s, i) \in Nat /\ Start(s, i + 1) \in Nat
      BY <2>3, LayoutFacts
    <2>5. m <= Start(s, i + 1) /\ Start(s, (i + 1) - 1) < m
      BY <1>1, <2>2, <2>3, <2>4
    <2> QED BY <2>3, <2>5 DEF ToMove
  <1> QED BY <1>1, <1>2, <1>3

LEMMA MappedHolds == IInv => Mapped
  <1> SUFFICES ASSUME IInv, NEW s \in Side
               PROVE  /\ AtItem(s, Current(s)) /\ ToMove(s, Unmoved(s))
                      /\ \A i \in Nat : AtItem(s, i) => i = Current(s)
                      /\ \A i \in Nat : ToMove(s, i) => i = Unmoved(s)
    BY DEF Mapped
  <1>1. AtItem(s, Current(s))
    <2>1. PICK i \in Nat : AtItem(s, i)
      BY SomeAtItem
    <2>2. CASE from[s] < taken[s]
      BY <2>1, <2>2 DEF AtItem, Current
    <2>3. CASE ~(from[s] < taken[s])
      BY <2>1, <2>3 DEF AtItem, Current
    <2> QED BY <2>2, <2>3
  <1>2. ToMove(s, Unmoved(s))
    <2>1. PICK i \in Nat : ToMove(s, i)
      BY SomeToMove
    <2> QED BY <2>1 DEF ToMove, Unmoved
  <1>3. Current(s) \in Nat /\ Unmoved(s) \in Nat
    <2>1. Len(log[s]) \in Nat /\ Len(log[Peer(s)]) \in Nat
      BY SideFacts, LayoutFacts
    <2> QED BY <1>1, <1>2, <2>1 DEF AtItem, ToMove
  <1>4. ASSUME NEW i \in Nat, AtItem(s, i) PROVE i = Current(s)
    <2>1. ~(i < Current(s)) /\ ~(Current(s) < i)
      BY <1>1, <1>3, <1>4, OneAtItem
    <2> QED BY <1>3, <2>1
  <1>5. ASSUME NEW i \in Nat, ToMove(s, i) PROVE i = Unmoved(s)
    <2>1. ~(i < Unmoved(s)) /\ ~(Unmoved(s) < i)
      BY <1>2, <1>3, <1>5, OneToMove
    <2> QED BY <1>3, <2>1
  <1> QED BY <1>1, <1>2, <1>4, <1>5

-----------------------------------------------------------------------------
(* PacketLayer's variables *)

WireOf == [s \in Side |-> LayerItems(s, Current(Peer(s)), Unmoved(s) - 1)]
OutOf  == [s \in Side |-> LayerItems(s, Unmoved(s), Len(log[s]))]
SkewOf == [s \in Side |-> from[s] # Start(Peer(s), Current(s))]
ConfOf == [s \in Side |-> Configuration(max_packet_size[s])]

\* What they are for one side.
LEMMA Point ==
    ASSUME NEW s \in Side
    PROVE  /\ WireOf[s] = Slice(log[s], Current(Peer(s)), Unmoved(s) - 1)
           /\ OutOf[s] = Slice(log[s], Unmoved(s), Len(log[s]))
           /\ SkewOf[s] = (from[s] # Start(Peer(s), Current(s)))
  BY DEF WireOf, OutOf, SkewOf, LayerItems, Slice

LEMMA PointNext ==
    ASSUME NEW s \in Side, NEW c, NEW u, c = Current(Peer(s))', u = Unmoved(s)'
    PROVE  /\ WireOf'[s] = Slice(log'[s], c, u - 1)
           /\ OutOf'[s] = Slice(log'[s], u, Len(log'[s]))
  BY DEF WireOf, OutOf, LayerItems, Slice, LayerItem, LayerPacket

LEMMA SkewNext ==
    ASSUME NEW s \in Side, NEW c, c = Current(s)'
    PROVE  SkewOf'[s] = (from'[s] # Start(Peer(s), c)')
  BY DEF SkewOf, Start, Written

\* Where the reader of s stands among the items of its peer.
LEMMA MapFacts ==
    ASSUME IInv, Mapped, NEW s \in Side,
           NEW p, p = Peer(s), NEW c, c = Current(s), NEW u, u = Unmoved(p)
    PROVE  /\ p \in Side /\ Len(log[p]) \in Nat /\ log[p] \in Seq(Entry)
           /\ c \in 1..(Len(log[p]) + 1) /\ u \in 1..(Len(log[p]) + 1)
           /\ c <= u
           /\ taken[s] \in Nat /\ from[s] \in Nat /\ Start(p, c) \in Nat
           /\ Start(p, c) <= taken[s]
           /\ c <= Len(log[p]) /\ Start(p, c) < moved[p] => c < u
           /\ from[s] < taken[s] => /\ c <= Len(log[p]) /\ c < u
                                    /\ Start(p, c) < taken[s] /\ taken[s] <= Stop(p, c)
           /\ ~(from[s] < taken[s]) => from[s] = taken[s]
  <1> DEFINE L == Len(log[p])
             m == moved[p]
             t == taken[s]
  <1>1. p \in Side /\ L \in Nat /\ log[p] \in Seq(Entry) /\ m \in Nat
    BY SideFacts, LayoutFacts, StreamFacts DEF IInv
  <1>2. t \in Nat /\ from[s] \in Nat /\ from[s] <= t /\ t <= m
    BY ConsumedFacts, TypeSplit DEF IInv, Cursors
  <1>3. AtItem(s, c) /\ ToMove(p, u)
    BY <1>1 DEF Mapped
  <1>4. c \in 1..(L + 1) /\ u \in 1..(L + 1)
    <2>1. u \in 1..(L + 1)
      BY <1>3 DEF ToMove
    <2>2. c \in 1..(L + 1)
      BY <1>1, <1>3 DEF AtItem
    <2> QED BY <2>1, <2>2
  <1>5. Start(p, c) \in Nat /\ Start(p, u) \in Nat /\ Start(p, L + 1) \in Nat
    <2>1. L + 1 \in 1..(L + 1)
      BY <1>1
    <2> QED BY <1>1, <1>4, <2>1, LayoutFacts
  <1>6. Start(p, c) <= t
    BY <1>1, <1>2, <1>3, <1>5 DEF AtItem
  <1>7. Start(p, c) < m => ~(u <= L /\ u <= c)
    <2> SUFFICES ASSUME Start(p, c) < m, u <= L, u <= c PROVE FALSE
      OBVIOUS
    <2>1. m <= Start(p, u)
      BY <1>3 DEF ToMove
    <2>2. u = c \/ Start(p, u) < Start(p, c)
      BY <1>1, <1>4, LayoutFacts
    <2> QED BY <1>1, <1>5, <2>1, <2>2
  <1>8. c <= u
    <2> SUFFICES ASSUME u < c PROVE FALSE
      BY <1>1, <1>4
    <2>1. u <= L /\ u \in 1..(L + 1) /\ c \in 1..(L + 1)
      BY <1>1, <1>4
    <2>2. Start(p, u) < Start(p, c)
      BY <1>1, <2>1, LayoutFacts
    <2>3. m <= Start(p, u)
      BY <1>3, <2>1 DEF ToMove
    <2> QED BY <1>1, <1>2, <1>5, <1>6, <2>2, <2>3
  <1>9. c <= L /\ Start(p, c) < m => c < u
    BY <1>1, <1>4, <1>7
  <1>10. ASSUME from[s] < t
         PROVE  c <= L /\ c < u /\ Start(p, c) < t /\ t <= Stop(p, c)
    <2>1. c <= L /\ Start(p, c) < t /\ t <= Stop(p, c)
      BY <1>1, <1>3, <1>10 DEF AtItem
    <2>2. Start(p, c) < m
      BY <1>1, <1>2, <1>5, <2>1
    <2> QED BY <1>9, <2>1, <2>2
  <1>11. ~(from[s] < t) => from[s] = t
    BY <1>2
  <1> QED BY <1>1, <1>2, <1>4, <1>5, <1>6, <1>8, <1>9, <1>10, <1>11

\* A side whose cursor stands, while its peer does not write, is where it was.
LEMMA KeepReader ==
    ASSUME IInv, Mapped, Mapped', NEW s \in Side, from'[s] = from[s], taken'[s] = taken[s],
           log'[Peer(s)] = log[Peer(s)], stream'[Peer(s)] = stream[Peer(s)]
    PROVE  Current(s)' = Current(s) /\ SkewOf'[s] = SkewOf[s]
  <1>1. PICK c : c = Current(s)
    OBVIOUS
  <1>2. c \in Nat /\ AtItem(s, c)
    <2>1. Len(log[Peer(s)]) \in Nat /\ c \in 1..(Len(log[Peer(s)]) + 1)
      BY <1>1, MapFacts
    <2> QED BY <1>1, <2>1 DEF Mapped
  <1>3. \A i : Start(Peer(s), i)' = Start(Peer(s), i) /\ Stop(Peer(s), i)' = Stop(Peer(s), i)
    BY DEF Start, Stop, Written
  <1>4. AtItem(s, c)'
    BY <1>2, <1>3 DEF AtItem
  <1>5. c = Current(s)'
    BY <1>2, <1>4 DEF Mapped
  <1> QED BY <1>1, <1>3, <1>5, Point, SkewNext

LEMMA KeepMover ==
    ASSUME IInv, Mapped, Mapped', NEW s \in Side, moved'[s] = moved[s],
           log'[s] = log[s], stream'[s] = stream[s]
    PROVE  Unmoved(s)' = Unmoved(s)
  <1>1. PICK u : u = Unmoved(s)
    OBVIOUS
  <1>2. u \in Nat /\ ToMove(s, u)
    <2>1. Len(log[s]) \in Nat /\ ToMove(s, u)
      BY <1>1, LayoutFacts DEF Mapped
    <2> QED BY <2>1 DEF ToMove
  <1>3. \A i : Start(s, i)' = Start(s, i)
    BY DEF Start, Written
  <1>4. ToMove(s, u)'
    BY <1>2, <1>3 DEF ToMove
  <1> QED BY <1>1, <1>2, <1>4 DEF Mapped

\* What one writer and its reader leave alone.
LEMMA KeepWriter ==
    ASSUME IInv, Mapped, Mapped', NEW s \in Side, moved'[s] = moved[s],
           log'[s] = log[s], stream'[s] = stream[s]
    PROVE  /\ OutOf'[s] = OutOf[s]
           /\ Current(Peer(s))' = Current(Peer(s)) => WireOf'[s] = WireOf[s]
  BY KeepMover, Point, PointNext

\* Functions of the sides that change for one of them, or for none.
LEMMA SideFunctions ==
    /\ WireOf = [s \in Side |-> WireOf[s]] /\ WireOf' = [s \in Side |-> WireOf'[s]]
    /\ OutOf = [s \in Side |-> OutOf[s]] /\ OutOf' = [s \in Side |-> OutOf'[s]]
    /\ SkewOf = [s \in Side |-> SkewOf[s]] /\ SkewOf' = [s \in Side |-> SkewOf'[s]]
  BY DEF WireOf, OutOf, SkewOf

\* A step that moves no cursor and writes nothing.
LEMMA NothingMoves ==
    ASSUME IInv, Mapped, Mapped', UNCHANGED <<stream, log, moved, taken, from>>
    PROVE  UNCHANGED <<WireOf, OutOf, SkewOf>>
  <1>1. ASSUME NEW s \in Side
        PROVE  WireOf'[s] = WireOf[s] /\ OutOf'[s] = OutOf[s] /\ SkewOf'[s] = SkewOf[s]
    <2>1. Current(Peer(s))' = Current(Peer(s)) /\ SkewOf'[s] = SkewOf[s]
      <3>1. Peer(s) \in Side
        BY SideFacts
      <3>2. /\ from'[Peer(s)] = from[Peer(s)] /\ taken'[Peer(s)] = taken[Peer(s)]
            /\ from'[s] = from[s] /\ taken'[s] = taken[s]
            /\ log'[Peer(s)] = log[Peer(s)] /\ stream'[Peer(s)] = stream[Peer(s)]
            /\ log'[Peer(Peer(s))] = log[Peer(Peer(s))]
            /\ stream'[Peer(Peer(s))] = stream[Peer(Peer(s))]
        OBVIOUS
      <3> QED BY <3>1, <3>2, KeepReader
    <2> QED BY <2>1, KeepWriter
  <1> QED BY <1>1, SideFunctions

\* A step of one reader.
LEMMA ReaderMoves ==
    ASSUME IInv, Mapped, Mapped', NEW s \in Side, UNCHANGED <<stream, log, moved>>,
           \A r \in Side : r # s => from'[r] = from[r] /\ taken'[r] = taken[r],
           NEW c \in Nat, AtItem(s, c)'
    PROVE  /\ OutOf' = OutOf
           /\ WireOf' = [WireOf EXCEPT ![Peer(s)] = Slice(log[Peer(s)], c, Unmoved(Peer(s)) - 1)]
           /\ SkewOf' = [SkewOf EXCEPT ![s] = (from'[s] # Start(Peer(s), c))]
  <1> DEFINE p == Peer(s)
  <1>1. p \in Side /\ p # s /\ Peer(p) = s /\ \A r \in Side : r = s \/ r = p
    BY SideFacts
  <1>2. c = Current(s)'
    BY DEF Mapped
  <1>3. Unmoved(p)' = Unmoved(p)
    BY <1>1, KeepMover
  <1>4. OutOf'[s] = OutOf[s] /\ OutOf'[p] = OutOf[p]
    BY <1>1, KeepWriter
  <1>5. WireOf'[p] = Slice(log[p], c, Unmoved(p) - 1)
    BY <1>1, <1>2, <1>3, PointNext
  <1>6. Current(p)' = Current(p) /\ SkewOf'[p] = SkewOf[p]
    <2>1. from'[p] = from[p] /\ taken'[p] = taken[p]
      BY <1>1
    <2> QED BY <1>1, <2>1, KeepReader
  <1>7. WireOf'[s] = WireOf[s]
    BY <1>1, <1>6, KeepWriter
  <1>8. SkewOf'[s] = (from'[s] # Start(p, c))
    <2>1. Start(p, c)' = Start(p, c)
      BY DEF Start, Written
    <2> QED BY <1>2, <2>1, SkewNext
  <1>9. OutOf' = OutOf
    BY <1>1, <1>4, SideFunctions
  <1>10. WireOf' = [WireOf EXCEPT ![p] = Slice(log[p], c, Unmoved(p) - 1)]
    <2> HIDE DEF p
    <2> QED BY <1>1, <1>5, <1>7, SideFunctions
  <1>11. SkewOf' = [SkewOf EXCEPT ![s] = (from'[s] # Start(p, c))]
    <2> HIDE DEF p
    <2> QED BY <1>1, <1>6, <1>8, SideFunctions
  <1> QED BY <1>9, <1>10, <1>11

\* A step of one reader within its item.
LEMMA StaysAt ==
    ASSUME IInv, Mapped, Mapped', NEW s \in Side, UNCHANGED <<stream, log, moved>>,
           \A r \in Side : r # s => from'[r] = from[r] /\ taken'[r] = taken[r],
           NEW c \in Nat, c = Current(s), AtItem(s, c)'
    PROVE  /\ OutOf' = OutOf /\ WireOf' = WireOf
           /\ SkewOf' = [SkewOf EXCEPT ![s] = (from'[s] # Start(Peer(s), c))]
  <1>1. Peer(s) \in Side /\ Peer(Peer(s)) = s
    BY SideFacts
  <1>2. WireOf[Peer(s)] = Slice(log[Peer(s)], c, Unmoved(Peer(s)) - 1)
    BY <1>1, Point
  <1>3. WireOf' = [WireOf EXCEPT ![Peer(s)] = WireOf[Peer(s)]]
    BY <1>2, ReaderMoves
  <1>4. WireOf' = WireOf
    BY <1>3, SideFunctions
  <1> QED BY <1>4, ReaderMoves

\* What a reader inside an item has before it.
LEMMA HeadIs ==
    ASSUME IInv, Mapped, NEW s \in Side, NEW p, p = Peer(s), NEW c, c = Current(s),
           from[s] < taken[s]
    PROVE  /\ WireOf[p] # <<>> /\ Head(WireOf[p]) = LayerItem(log[p][c])
           /\ Tail(WireOf[p]) = Slice(log[p], c + 1, Unmoved(p) - 1)
  <1>1. PICK u : u = Unmoved(p)
    OBVIOUS
  <1>2. /\ p \in Side /\ Len(log[p]) \in Nat /\ log[p] \in Seq(Entry)
        /\ c \in 1..(Len(log[p]) + 1) /\ u \in 1..(Len(log[p]) + 1)
        /\ c <= Len(log[p]) /\ c < u
    BY <1>1, MapFacts
  <1>3. c \in 1..Len(log[p]) /\ u - 1 \in c..Len(log[p])
    BY <1>2
  <1>4. WireOf[p] = Slice(log[p], c, u - 1)
    BY <1>1, <1>2, SideFacts, Point
  <1> QED BY <1>1, <1>2, <1>3, <1>4, SliceDrop

\* A step of one reader to its next item.
LEMMA MovesOn ==
    ASSUME IInv, Mapped, Mapped', NEW s \in Side, UNCHANGED <<stream, log, moved>>,
           \A r \in Side : r # s => from'[r] = from[r] /\ taken'[r] = taken[r],
           from[s] < taken[s],
           NEW c \in Nat, c = Current(s), AtItem(s, c + 1)'
    PROVE  /\ OutOf' = OutOf
           /\ WireOf' = [WireOf EXCEPT ![Peer(s)] = Tail(@)]
           /\ SkewOf' = [SkewOf EXCEPT ![s] = (from'[s] # Start(Peer(s), c + 1))]
  <1>1. c + 1 \in Nat
    OBVIOUS
  <1>2. Tail(WireOf[Peer(s)]) = Slice(log[Peer(s)], c + 1, Unmoved(Peer(s)) - 1)
    BY HeadIs
  <1>3. /\ OutOf' = OutOf
        /\ WireOf' = [WireOf EXCEPT ![Peer(s)] =
                         Slice(log[Peer(s)], c + 1, Unmoved(Peer(s)) - 1)]
        /\ SkewOf' = [SkewOf EXCEPT ![s] = (from'[s] # Start(Peer(s), c + 1))]
    BY <1>1, ReaderMoves
  <1> QED BY <1>2, <1>3

\* A reader that is not misaligned is in a whole frame, from its first byte on.
LEMMA AlignedIn ==
    ASSUME IInv, Mapped, NEW s \in Side, NEW p, p = Peer(s), NEW c, c = Current(s),
           from[s] < taken[s], ~SkewOf[s], ~Head(WireOf[p]).cut
    PROVE  /\ c \in 1..Len(log[p]) /\ from[s] = log[p][c].start
           /\ log[p][c].bytes = Frame[log[p][c].body]
  <1>1. c \in 1..(Len(log[p]) + 1) /\ c <= Len(log[p]) /\ Len(log[p]) \in Nat
    BY MapFacts
  <1>2. from[s] = Start(p, c)
    BY Point
  <1>3. Head(WireOf[p]) = LayerItem(log[p][c])
    BY HeadIs
  <1>4. log[p][c].bytes = Frame[log[p][c].body]
    <2>1. LayerItem(log[p][c]).cut = (log[p][c].bytes # Frame[log[p][c].body])
      BY DEF LayerItem
    <2>2. Head(WireOf[p]).cut = (log[p][c].bytes # Frame[log[p][c].body])
      BY <1>3, <2>1
    <2> QED BY <2>2
  <1>5. from[s] = log[p][c].start
    BY <1>1, <1>2 DEF Start
  <1> QED BY <1>1, <1>4, <1>5

-----------------------------------------------------------------------------
(* PacketLayer's steps *)

\* The reader of s takes its next bytes for what they are, or it does not.
Astray(s) ==
    /\ WireOf[Peer(s)] # <<>>
    /\ SkewOf[s] \/ Head(WireOf[Peer(s)]).cut

InStep(s) ==
    /\ WireOf[Peer(s)] # <<>>
    /\ ~SkewOf[s] /\ ~Head(WireOf[Peer(s)]).cut

Drops(s) == WireOf' = [WireOf EXCEPT ![Peer(s)] = Tail(@)]

LEMMA LayerNames ==
    ASSUME NEW s \in Side
    PROVE  Layer!Incoming(s) = WireOf[Peer(s)]
  BY DEF Layer!Incoming, Layer!Peer, Peer, WireOf

LEMMA MisreadIs ==
    ASSUME NEW s \in Side, Astray(s), UNCHANGED <<ConfOf, OutOf, up>>,
           \/ SkewOf' = [SkewOf EXCEPT ![s] = TRUE] /\ UNCHANGED WireOf
           \/ SkewOf' = [SkewOf EXCEPT ![s] = FALSE] /\ Drops(s)
    PROVE  Layer!Misread(s)
  BY DEF Astray, Drops, Layer!Misread, Layer!Misaligned, Layer!Incoming, Layer!DropItem,
         Layer!Peer, Peer, ConfOf, OutOf, WireOf, SkewOf

LEMMA MisreadOnIs ==
    ASSUME NEW s \in Side, Astray(s), UNCHANGED <<ConfOf, OutOf, up>>,
           SkewOf' = [SkewOf EXCEPT ![s] = TRUE] /\ Drops(s)
    PROVE  Layer!MisreadOn(s)
  BY DEF Astray, Drops, Layer!MisreadOn, Layer!Misaligned, Layer!Incoming, Layer!DropItem,
         Layer!Peer, Peer, ConfOf, OutOf, WireOf, SkewOf

LEMMA ReadInterruptedIs ==
    ASSUME NEW s \in Side, UNCHANGED <<ConfOf, OutOf, up>>,
           \/ /\ WireOf[Peer(s)] # <<>>
              /\ SkewOf' = [SkewOf EXCEPT ![s] = TRUE] /\ UNCHANGED WireOf
           \/ /\ Astray(s)
              /\ SkewOf' = [SkewOf EXCEPT ![s] = FALSE] /\ Drops(s)
    PROVE  Layer!ReadInterrupted(s)
  BY DEF Astray, Drops, Layer!ReadInterrupted, Layer!Misaligned, Layer!Incoming,
         Layer!DropItem, Layer!Peer, Peer, ConfOf, OutOf, WireOf, SkewOf

LEMMA ReadPacketIs ==
    ASSUME NEW s \in Side, InStep(s), UNCHANGED <<ConfOf, OutOf, SkewOf, up>>, Drops(s),
           \E z \in Limits : Head(WireOf[Peer(s)]).pkt.len <= z
    PROVE  Layer!ReadPacket(s)
  <1>1. Layer!checked_bytes_len(Head(WireOf[Peer(s)]).pkt.len)
    <2>1. PICK z \in Limits : Head(WireOf[Peer(s)]).pkt.len <= z
      OBVIOUS
    <2>2. Configuration(z).max_packet_size = z
      BY DEF Configuration
    <2> QED BY <2>1, <2>2 DEF Layer!checked_bytes_len
  <1>2. Layer!Aligned(s)
    BY DEF InStep, Layer!Aligned, Layer!Incoming, Layer!Peer, Peer, WireOf, SkewOf
  <1>3. Layer!DropItem(s)
    BY DEF Drops, Layer!DropItem, Layer!Peer, Peer, WireOf
  <1> QED BY <1>1, <1>2, <1>3, LayerNames
          DEF Layer!ReadPacket, ConfOf, OutOf, SkewOf

LEMMA DrainIs ==
    ASSUME NEW s \in Side, up, OutOf[s] # <<>>, UNCHANGED <<ConfOf, SkewOf, up>>,
           WireOf' = [WireOf EXCEPT ![s] = Append(@, Head(OutOf[s]))],
           OutOf' = [OutOf EXCEPT ![s] = Tail(@)]
    PROVE  Layer!Drain(s)
  BY DEF Layer!Drain, ConfOf, OutOf, WireOf, SkewOf

LEMMA WritePacketIs ==
    ASSUME NEW s \in Side, NEW b \in Body, Len(b) <= max_packet_size[s],
           UNCHANGED <<ConfOf, SkewOf, WireOf, up>>,
           OutOf' = [OutOf EXCEPT ![s] = Append(@, [pkt |-> LayerPacket(b), cut |-> FALSE])]
    PROVE  Layer!WritePacket(s, LayerPacket(b))
  <1>1. Layer!check_bytes_len(s, LayerPacket(b).len)
    BY DEF Layer!check_bytes_len, Layer!get_max_packet_size, LayerPacket, Configuration
  <1> QED BY <1>1 DEF Layer!WritePacket, Layer!Whole, ConfOf, OutOf, WireOf, SkewOf

LEMMA WriteInterruptedIs ==
    ASSUME NEW s \in Side, NEW b \in Body, Len(b) <= max_packet_size[s],
           UNCHANGED <<ConfOf, SkewOf, WireOf, up>>,
           OutOf' = [OutOf EXCEPT ![s] = Append(@, [pkt |-> LayerPacket(b), cut |-> TRUE])]
    PROVE  Layer!WriteInterrupted(s, LayerPacket(b))
  <1>1. Layer!check_bytes_len(s, LayerPacket(b).len)
    BY DEF Layer!check_bytes_len, Layer!get_max_packet_size, LayerPacket, Configuration
  <1> QED BY <1>1 DEF Layer!WriteInterrupted, Layer!Cut, ConfOf, OutOf, WireOf, SkewOf

LEMMA set_configIs ==
    ASSUME NEW s \in Side, NEW c, c # ConfOf[s], ConfOf' = [ConfOf EXCEPT ![s] = c],
           UNCHANGED <<WireOf, OutOf, SkewOf, up>>
    PROVE  Layer!set_config(s, c)
  BY DEF Layer!set_config, ConfOf, OutOf, WireOf, SkewOf

LEMMA DisconnectIs ==
    ASSUME up, up' = FALSE, UNCHANGED <<ConfOf, WireOf, OutOf, SkewOf>>
    PROVE  Layer!Disconnect
  BY DEF Layer!Disconnect, ConfOf, OutOf, WireOf, SkewOf

LEMMA StutterIs ==
    ASSUME UNCHANGED <<ConfOf, WireOf, OutOf, SkewOf, up, got>>
    PROVE  UNCHANGED <<Layer!layerVars, got>>
  BY DEF Layer!layerVars, ConfOf, OutOf, WireOf, SkewOf

-----------------------------------------------------------------------------
(* The steps *)

LEMMA ConfSame ==
    ASSUME UNCHANGED max_packet_size
    PROVE  ConfOf' = ConfOf
  BY DEF ConfOf, Configuration

\* Calls begin, end and go on, and a length is accepted, below PacketLayer.
LEMMA QuietLayer ==
    ASSUME IInv, Mapped, Mapped',
           UNCHANGED <<max_packet_size, stream, log, moved, taken, from, up, got>>
    PROVE  UNCHANGED <<Layer!layerVars, got>>
  BY NothingMoves, ConfSame, StutterIs

\* A recv that ends with some of the item consumed leaves its reader inside that
\* item, or at the next one.
LEMMA EndsAt ==
    ASSUME IInv, Mapped, Mapped', NEW s \in Side, UNCHANGED <<stream, log, moved, taken>>,
           from' = [from EXCEPT ![s] = taken[s]], from[s] < taken[s],
           NEW c, c = Current(s)
    PROVE  /\ OutOf' = OutOf
           /\ \/ /\ taken[s] < Stop(Peer(s), c)
                 /\ SkewOf' = [SkewOf EXCEPT ![s] = TRUE] /\ UNCHANGED WireOf
              \/ /\ taken[s] = Stop(Peer(s), c)
                 /\ SkewOf' = [SkewOf EXCEPT ![s] = FALSE] /\ Drops(s)
  <1> DEFINE p == Peer(s)
             t == taken[s]
             L == Len(log[p])
  <1>1. /\ p \in Side /\ L \in Nat /\ c \in 1..(L + 1) /\ c \in Nat /\ c <= L
        /\ t \in Nat /\ Start(p, c) \in Nat /\ Start(p, c) < t /\ t <= Stop(p, c)
    <2>1. /\ p \in Side /\ L \in Nat /\ c \in 1..(L + 1) /\ c <= L
          /\ t \in Nat /\ Start(p, c) \in Nat /\ Start(p, c) < t /\ t <= Stop(p, c)
      BY MapFacts
    <2> QED BY <2>1
  <1>2. /\ c + 1 \in 1..(L + 1) /\ Stop(p, c) = Start(p, c + 1) /\ Start(p, c + 1) \in Nat
    <2>1. c + 1 \in 1..(L + 1) /\ c \in 1..L
      BY <1>1
    <2> QED BY <1>1, <2>1, LayoutFacts
  <1>3. /\ from'[s] = t /\ taken'[s] = t /\ ~(t < t)
        /\ \A r \in Side : r # s => from'[r] = from[r] /\ taken'[r] = taken[r]
    BY <1>1 DEF IInv, Streams
  <1>4. \A i : Start(p, i)' = Start(p, i) /\ Stop(p, i)' = Stop(p, i)
    BY DEF Start, Stop, Written
  <1>5. CASE t < Stop(p, c)
    <2>1. AtItem(s, c)'
      BY <1>1, <1>3, <1>4, <1>5 DEF AtItem
    <2>2. /\ OutOf' = OutOf /\ WireOf' = WireOf
          /\ SkewOf' = [SkewOf EXCEPT ![s] = (from'[s] # Start(p, c))]
      BY <1>1, <1>3, <2>1, StaysAt
    <2>3. (from'[s] # Start(p, c)) = TRUE
      BY <1>1, <1>3
    <2> QED BY <1>5, <2>2, <2>3
  <1>6. CASE t = Stop(p, c)
    <2>1. c + 1 <= L => t < Stop(p, c + 1)
      <3> SUFFICES ASSUME c + 1 <= L PROVE t < Stop(p, c + 1)
        OBVIOUS
      <3>1. /\ c + 1 \in 1..L /\ c + 1 + 1 \in 1..(L + 1) /\ c + 1 < c + 1 + 1
        BY <1>1, <1>2
      <3>2. Stop(p, c + 1) = Start(p, c + 1 + 1) /\ Start(p, c + 1) < Start(p, c + 1 + 1)
        BY <1>1, <1>2, <3>1, LayoutFacts
      <3> QED BY <1>2, <1>6, <3>2
    <2>2. PICK d \in Nat : d = c + 1
      BY <1>1
    <2>3. AtItem(s, d)'
      <3>1. d \in 1..(Len(log[p]) + 1) /\ Start(p, d) <= t
        BY <1>1, <1>2, <1>6, <2>2
      <3>2. d <= Len(log[p]) => t < Stop(p, d)
        BY <2>1, <2>2
      <3> QED BY <1>3, <1>4, <3>1, <3>2 DEF AtItem
    <2>4. /\ OutOf' = OutOf /\ WireOf' = [WireOf EXCEPT ![p] = Tail(@)]
          /\ SkewOf' = [SkewOf EXCEPT ![s] = (from'[s] # Start(p, d))]
      BY <1>1, <1>3, <2>2, <2>3, MovesOn
    <2>5. (from'[s] # Start(p, d)) = FALSE
      BY <1>2, <1>3, <1>6, <2>2
    <2> QED BY <1>6, <2>4, <2>5 DEF Drops
  <1> QED BY <1>1, <1>2, <1>5, <1>6

\* A recv returns the packet before it, or misreads.
LEMMA ReturnLayer ==
    ASSUME IInv, Mapped, Mapped', NEW s \in Side, Return(s)
    PROVE  LayerNext
  <1> DEFINE p == Peer(s)
             c == Current(s)
             head == Head(WireOf[p])
  <1>1. PICK e \in expects[s] :
           got' = [got EXCEPT ![s] = Append(@, SubSeq(Consumed(s), e.digits + 1, Len(Consumed(s))))]
    BY DEF Return
  <1> DEFINE packet == SubSeq(Consumed(s), e.digits + 1, Len(Consumed(s)))
  <1>2. /\ p \in Side /\ p # s
        /\ UNCHANGED <<stream, log, moved, taken, up, max_packet_size>>
        /\ from' = [from EXCEPT ![s] = taken[s]] /\ PacketRead(s)
    BY SideFacts DEF Return, EndRecv
  <1>3. from[s] < taken[s] /\ e.digits > 0
    <2>1. e.digits > 0 /\ from[s] + e.digits <= taken[s] /\ e.digits \in Nat
      BY DEF IInv, Streams, Expecting
    <2>2. from[s] \in Nat /\ taken[s] \in Nat
      BY DEF IInv, Streams
    <2> QED BY <2>1, <2>2
  <1>4. got'[s] = Append(got[s], packet) /\ got'[s] # got[s] /\ got'[p] = got[p]
    <2>1. /\ got \in [Side -> Seq(Seq(Byte))] /\ got[s] \in Seq(Seq(Byte)) /\ Len(got[s]) \in Nat
      BY GotFacts DEF IInv, Streams
    <2>2. packet \in Seq(Byte)
      BY PacketFacts
    <2>3. Len(Append(got[s], packet)) = Len(got[s]) + 1
      BY <2>1, <2>2, AppendProperties
    <2>4. Append(got[s], packet) # got[s]
      BY <2>1, <2>3
    <2> QED BY <1>1, <1>2, <2>1, <2>4
  <1>5. WireOf[p] # <<>> /\ head = LayerItem(log[p][c])
    BY <1>3, HeadIs
  <1>6. /\ OutOf' = OutOf
        /\ \/ /\ taken[s] < Stop(p, c)
              /\ SkewOf' = [SkewOf EXCEPT ![s] = TRUE] /\ UNCHANGED WireOf
           \/ /\ taken[s] = Stop(p, c)
              /\ SkewOf' = [SkewOf EXCEPT ![s] = FALSE] /\ Drops(s)
    BY <1>2, <1>3, EndsAt
  <1>7. ConfOf' = ConfOf
    BY <1>2, ConfSame
  <1>8. CASE SkewOf[s] \/ head.cut
    <2>1. Astray(s)
      BY <1>5, <1>8 DEF Astray
    <2>2. Layer!Misread(s)
      BY <1>2, <1>6, <1>7, <2>1, MisreadIs
    <2> QED BY <1>4, <2>2 DEF LayerNext
  <1>9. CASE ~SkewOf[s] /\ ~head.cut
    <2>1. /\ c \in 1..Len(log[p]) /\ from[s] = log[p][c].start
          /\ log[p][c].bytes = Frame[log[p][c].body]
      BY <1>3, <1>9, AlignedIn
    <2>2. PICK b : b = log[p][c].body
      OBVIOUS
    <2>3. /\ b \in Body /\ e.length = Len(b) /\ packet = b /\ taken[s] = Stop(p, c)
      BY <1>2, <2>1, <2>2, ReturnsBody
    <2>4. SkewOf' = [SkewOf EXCEPT ![s] = FALSE] /\ Drops(s)
      <3>1. ~(taken[s] < Stop(p, c))
        <4>1. taken[s] \in Nat
          BY DEF IInv, Streams
        <4> QED BY <2>3, <4>1
      <3> QED BY <1>6, <3>1
    <2>5. SkewOf' = SkewOf
      <3>1. SkewOf[s] = FALSE
        BY <1>9, Point
      <3> QED BY <2>4, <3>1, SideFunctions
    <2>6. InStep(s)
      BY <1>5, <1>9 DEF InStep
    <2>7. head.pkt.body = b /\ head.pkt.len = Len(b)
      BY <1>5, <2>2 DEF LayerItem, LayerPacket
    <2>8. \E z \in Limits : head.pkt.len <= z
      BY <2>3, <2>7 DEF IInv, Expecting
    <2>9. Layer!ReadPacket(s)
      BY <1>2, <1>6, <1>7, <2>4, <2>5, <2>6, <2>8, ReadPacketIs
    <2>10. got' = [got EXCEPT ![s] = Append(@, Head(Layer!Incoming(s)).pkt.body)]
      BY <1>1, <2>3, <2>7, LayerNames
    <2> QED BY <1>4, <2>9, <2>10 DEF LayerNext
  <1> QED BY <1>8, <1>9

\* A recv that refuses, or stops, inside an item leaves its reader there; at the
\* end of the item only if it has misread it.
LEMMA BreaksOff ==
    ASSUME IInv, Mapped, Mapped', NEW s \in Side, Refuse(s) \/ Wants(s),
           UNCHANGED <<stream, log, moved, taken, up, max_packet_size, got>>,
           from' = [from EXCEPT ![s] = taken[s]], from[s] < taken[s]
    PROVE  LayerNext
  <1> DEFINE p == Peer(s)
             c == Current(s)
             head == Head(WireOf[p])
  <1>1. p \in Side
    BY SideFacts
  <1>2. WireOf[p] # <<>>
    BY HeadIs
  <1>3. /\ OutOf' = OutOf
        /\ \/ /\ taken[s] < Stop(p, c)
              /\ SkewOf' = [SkewOf EXCEPT ![s] = TRUE] /\ UNCHANGED WireOf
           \/ /\ taken[s] = Stop(p, c)
              /\ SkewOf' = [SkewOf EXCEPT ![s] = FALSE] /\ Drops(s)
    BY EndsAt
  <1>4. ASSUME taken[s] = Stop(p, c) PROVE Astray(s)
    <2> SUFFICES ASSUME ~SkewOf[s], ~head.cut PROVE FALSE
      BY <1>2 DEF Astray
    <2>1. /\ c \in 1..Len(log[p]) /\ from[s] = log[p][c].start
          /\ log[p][c].bytes = Frame[log[p][c].body]
      BY AlignedIn
    <2>2. Streams /\ TypeOK /\ Layout(p) /\ Inside(s) /\ Expecting(s)
      BY <1>1 DEF IInv
    <2>3. ~Wants(s) /\ ~Refuse(s)
      BY <1>4, <2>1, <2>2, FrameEnds
    <2> QED BY <2>3
  <1>5. ConfOf' = ConfOf
    BY ConfSame
  <1>6. Layer!ReadInterrupted(s)
    BY <1>2, <1>3, <1>4, <1>5, ReadInterruptedIs
  <1>7. from'[s] # from[s]
    BY DEF IInv, Streams
  <1> QED BY <1>6, <1>7 DEF LayerNext

LEMMA RefuseLayer ==
    ASSUME IInv, Mapped, Mapped', NEW s \in Side, Refuse(s)
    PROVE  LayerNext
  <1>1. from[s] < taken[s]
    <2>1. /\ from[s] \in Nat /\ taken[s] \in Nat /\ from[s] <= taken[s]
          /\ Len(Consumed(s)) = taken[s] - from[s] /\ Consumed(s) \in Seq(Byte)
      BY ConsumedFacts DEF IInv
    <2>2. Len(Consumed(s)) # 0
      <3>1. CASE LengthRead(s)
        BY <2>1, <3>1, EmptySeq DEF LengthRead
      <3>2. CASE ~LengthRead(s)
        BY <3>2, FramesAssumption DEF Refuse
      <3> QED BY <3>1, <3>2
    <2> QED BY <2>1, <2>2
  <1>2. /\ UNCHANGED <<stream, log, moved, taken, up, max_packet_size, got>>
        /\ from' = [from EXCEPT ![s] = taken[s]]
    BY DEF Refuse, EndRecv
  <1> QED BY <1>1, <1>2, BreaksOff

LEMMA RecvStopsLayer ==
    ASSUME IInv, Mapped, Mapped', NEW s \in Side, RecvStops(s)
    PROVE  LayerNext \/ UNCHANGED <<Layer!layerVars, got>>
  <1>1. /\ UNCHANGED <<stream, log, moved, taken, up, max_packet_size, got>>
        /\ from' = [from EXCEPT ![s] = taken[s]] /\ Wants(s)
    BY DEF RecvStops, EndRecv
  <1>2. CASE from[s] < taken[s]
    BY <1>1, <1>2, BreaksOff
  <1>3. CASE ~(from[s] < taken[s])
    <2>1. from[s] = taken[s] /\ from \in [Side -> Nat]
      BY <1>3, MapFacts DEF IInv, Streams
    <2>2. from' = from
      BY <1>1, <2>1
    <2> QED BY <1>1, <2>2, QuietLayer
  <1> QED BY <1>2, <1>3

\* A recv takes a byte of its item, or misreads on into the next one.
LEMMA TakeLayer ==
    ASSUME IInv, Mapped, Mapped', NEW s \in Side, Take(s)
    PROVE  LayerNext \/ UNCHANGED <<Layer!layerVars, got>>
  <1>1. PICK p : p = Peer(s)
    OBVIOUS
  <1>2. PICK c : c = Current(s)
    OBVIOUS
  <1> DEFINE L == Len(log[p])
             t == taken[s]
  <1>3. /\ UNCHANGED <<stream, log, moved, from, up, max_packet_size, got>>
        /\ Wants(s) /\ t < moved[p]
    BY <1>1 DEF Take
  <1>4. /\ p \in Side /\ L \in Nat /\ c \in 1..(L + 1) /\ t \in Nat /\ from[s] \in Nat
        /\ Start(p, c) \in Nat /\ Start(p, c) <= t /\ from[s] <= t
    <2>1. from[s] <= t
      BY ConsumedFacts DEF IInv
    <2> QED BY <1>1, <1>2, <2>1, MapFacts
  <1>5. /\ moved[p] \in Nat /\ moved[p] <= Written(p) /\ Written(p) \in Nat
        /\ Start(p, L + 1) = Written(p)
    BY <1>4, LayoutFacts
  <1>6. c \in 1..L /\ c \in Nat
    <2>1. c # L + 1
      BY <1>3, <1>4, <1>5
    <2> QED BY <1>4, <2>1
  <1>7. c + 1 \in 1..(L + 1) /\ Stop(p, c) = Start(p, c + 1) /\ Start(p, c + 1) \in Nat
    <2>1. c + 1 \in 1..(L + 1)
      BY <1>4, <1>6
    <2> QED BY <1>4, <1>6, <2>1, LayoutFacts
  <1>8. /\ taken'[s] = t + 1 /\ from'[s] = from[s] /\ from'[s] < taken'[s]
        /\ \A r \in Side : r # s => from'[r] = from[r] /\ taken'[r] = taken[r]
    <2>1. /\ taken' = [taken EXCEPT ![s] = t + 1] /\ taken \in [Side -> Nat]
      BY DEF Take, IInv, Streams
    <2> QED BY <1>3, <1>4, <2>1
  <1>9. \A i : Start(p, i)' = Start(p, i) /\ Stop(p, i)' = Stop(p, i)
    BY <1>3 DEF Start, Stop, Written
  <1>10. ConfOf' = ConfOf
    BY <1>3, ConfSame
  <1>11. t <= Stop(p, c)
    <2>1. CASE from[s] < t
      BY <1>1, <1>2, <2>1, MapFacts
    <2>2. CASE ~(from[s] < t)
      <3>1. AtItem(s, c)
        BY <1>2 DEF Mapped
      <3>2. t < Stop(p, c)
        BY <1>1, <1>4, <1>6, <2>2, <3>1 DEF AtItem
      <3> QED BY <1>4, <1>7, <3>2
    <2> QED BY <2>1, <2>2
  <1>12. CASE t < Stop(p, c)
    <2>1. AtItem(s, c)'
      <3>1. Start(p, c) < t + 1 /\ t + 1 <= Stop(p, c)
        BY <1>4, <1>7, <1>12
      <3> QED BY <1>1, <1>3, <1>6, <1>8, <1>9, <3>1 DEF AtItem
    <2>2. /\ OutOf' = OutOf /\ WireOf' = WireOf
          /\ SkewOf' = [SkewOf EXCEPT ![s] = (from'[s] # Start(p, c))]
      BY <1>1, <1>2, <1>3, <1>6, <1>8, <2>1, StaysAt
    <2>3. (from'[s] # Start(p, c)) = SkewOf[s]
      BY <1>1, <1>2, <1>8, Point
    <2>4. SkewOf' = SkewOf
      BY <2>2, <2>3, SideFunctions
    <2> QED BY <1>3, <1>10, <2>2, <2>4, StutterIs
  <1>13. CASE t = Stop(p, c)
    <2>1. from[s] < t
      <3>1. AtItem(s, c)
        BY <1>2 DEF Mapped
      <3>2. ~(from[s] < t) => t < Stop(p, c)
        BY <1>1, <1>4, <1>6, <3>1 DEF AtItem
      <3> QED BY <1>4, <1>13, <3>2
    <2>2. PICK d \in Nat : d = c + 1
      BY <1>6
    <2>3. d \in 1..L /\ Start(p, d) < t + 1 /\ t + 1 <= Stop(p, d)
      <3>1. d # L + 1
        BY <1>3, <1>4, <1>5, <1>7, <1>13, <2>2
      <3>2. d \in 1..L /\ d + 1 \in 1..(L + 1) /\ d \in 1..(L + 1) /\ d < d + 1
        BY <1>4, <1>7, <2>2, <3>1
      <3>3. /\ Stop(p, d) = Start(p, d + 1) /\ Start(p, d) < Start(p, d + 1)
            /\ Start(p, d + 1) \in Nat
        BY <1>4, <3>2, LayoutFacts
      <3> QED BY <1>4, <1>7, <1>13, <2>2, <3>2, <3>3
    <2>4. AtItem(s, d)'
      BY <1>1, <1>3, <1>8, <1>9, <2>3 DEF AtItem
    <2>5. /\ OutOf' = OutOf /\ WireOf' = [WireOf EXCEPT ![Peer(s)] = Tail(@)]
          /\ SkewOf' = [SkewOf EXCEPT ![s] = (from'[s] # Start(Peer(s), d))]
      BY <1>2, <1>3, <1>6, <1>8, <2>1, <2>2, <2>4, MovesOn
    <2>6. (from'[s] # Start(Peer(s), d)) = TRUE
      BY <1>1, <1>4, <1>7, <1>8, <1>13, <2>1, <2>2
    <2>7. Astray(s)
      <3>1. WireOf[p] # <<>>
        BY <1>1, <2>1, HeadIs
      <3> SUFFICES ASSUME ~SkewOf[s], ~Head(WireOf[p]).cut PROVE FALSE
        BY <1>1, <3>1 DEF Astray
      <3>2. /\ from[s] = log[p][c].start /\ log[p][c].bytes = Frame[log[p][c].body]
        BY <1>1, <1>2, <2>1, AlignedIn
      <3>3. Streams /\ TypeOK /\ Layout(p) /\ Inside(s) /\ Expecting(s)
        BY <1>4 DEF IInv
      <3>4. ~Wants(s)
        BY <1>1, <1>6, <1>13, <3>2, <3>3, FrameEnds
      <3> QED BY <1>3, <3>4
    <2>8. Layer!MisreadOn(s)
      BY <1>3, <1>10, <2>5, <2>6, <2>7, MisreadOnIs DEF Drops
    <2>9. taken'[s] # taken[s]
      BY <1>4, <1>8
    <2> QED BY <1>3, <2>8, <2>9 DEF LayerNext
  <1> QED BY <1>4, <1>7, <1>11, <1>12, <1>13

\* A byte on its way is the first of its item, or one more of it.
LEMMA MoveLayer ==
    ASSUME IInv, Mapped, Mapped', NEW s \in Side, Move(s)
    PROVE  LayerNext \/ UNCHANGED <<Layer!layerVars, got>>
  <1>1. PICK u : u = Unmoved(s)
    OBVIOUS
  <1>2. PICK p : p = Peer(s)
    OBVIOUS
  <1>3. PICK c : c = Current(p)
    OBVIOUS
  <1> DEFINE L == Len(log[s])
             m == moved[s]
  <1>4. /\ UNCHANGED <<stream, log, taken, from, up, max_packet_size, got>>
        /\ up /\ m < Written(s)
    BY DEF Move
  <1>5. /\ p \in Side /\ Peer(p) = s /\ p # s /\ \A r \in Side : r = s \/ r = p
    BY <1>2, SideFacts
  <1>6. /\ L \in Nat /\ log[s] \in Seq(Entry) /\ c \in 1..(L + 1) /\ u \in 1..(L + 1) /\ c <= u
    BY <1>1, <1>3, <1>5, MapFacts
  <1>7. /\ m \in Nat /\ Written(s) \in Nat /\ Start(s, L + 1) = Written(s)
    BY LayoutFacts
  <1>8. ToMove(s, u)
    BY <1>1 DEF Mapped
  <1>9. moved'[s] = m + 1 /\ moved'[p] = moved[p]
    BY <1>5 DEF Move, IInv, Streams
  <1>10. \A i : Start(s, i)' = Start(s, i)
    BY <1>4 DEF Start, Written
  <1>11. Current(p)' = c /\ Current(s)' = Current(s) /\ UNCHANGED SkewOf
    <2>1. Current(p)' = Current(p) /\ SkewOf'[p] = SkewOf[p]
      BY <1>4, <1>5, KeepReader
    <2>2. Current(s)' = Current(s) /\ SkewOf'[s] = SkewOf[s]
      BY <1>4, <1>5, KeepReader
    <2> QED BY <1>3, <1>5, <2>1, <2>2, SideFunctions
  <1>12. OutOf'[p] = OutOf[p] /\ WireOf'[p] = WireOf[p]
    BY <1>4, <1>5, <1>9, <1>11, KeepWriter
  <1>13. ConfOf' = ConfOf
    BY <1>4, ConfSame
  <1>14. /\ WireOf[s] = Slice(log[s], c, u - 1) /\ OutOf[s] = Slice(log[s], u, L)
    BY <1>1, <1>2, <1>3, Point
  <1>15. Start(s, u) \in Nat /\ (u <= L => m <= Start(s, u))
    BY <1>6, <1>8, LayoutFacts DEF ToMove
  <1>16. CASE u <= L /\ m = Start(s, u)
    <2>1. PICK v \in Nat : v = u + 1
      BY <1>6
    <2>2. v \in 1..(L + 1) /\ v - 1 = u /\ v > 1 /\ Start(s, u) < Start(s, v) /\ Start(s, v) \in Nat
      <3>1. v \in 1..(L + 1) /\ v - 1 = u /\ v > 1 /\ u < v
        BY <1>6, <1>16, <2>1
      <3> QED BY <1>6, <3>1, LayoutFacts
    <2>3. m + 1 <= Start(s, v) /\ Start(s, u) < m + 1
      BY <1>7, <1>15, <1>16, <2>2
    <2>4. ToMove(s, v)'
      <3>1. Start(s, v - 1)' = Start(s, u)
        BY <1>10, <2>2
      <3> QED BY <1>4, <1>9, <1>10, <2>2, <2>3, <3>1 DEF ToMove
    <2>5. v = Unmoved(s)'
      BY <2>4 DEF Mapped
    <2>6. /\ WireOf'[s] = Slice(log[s], c, v - 1) /\ OutOf'[s] = Slice(log[s], v, L)
      BY <1>2, <1>4, <1>11, <2>5, PointNext
    <2>7. u \in 1..L /\ L \in u..L
      BY <1>6, <1>16
    <2>8. /\ OutOf[s] # <<>> /\ Head(OutOf[s]) = LayerItem(log[s][u])
          /\ Tail(OutOf[s]) = OutOf'[s]
      BY <1>6, <1>14, <2>1, <2>6, <2>7, SliceDrop
    <2>9. Append(WireOf[s], Head(OutOf[s])) = WireOf'[s]
      <3>1. PICK j : j = u - 1
        OBVIOUS
      <3>2. c \in 1..L /\ j \in (c - 1)..(L - 1) /\ j + 1 = u
        BY <1>6, <2>7, <3>1
      <3>3. Append(Slice(log[s], c, j), LayerItem(log[s][j + 1])) = Slice(log[s], c, j + 1)
        BY <1>6, <3>2, SliceAdd
      <3> QED BY <1>14, <2>2, <2>6, <2>8, <3>1, <3>2, <3>3
    <2>10. WireOf' = [WireOf EXCEPT ![s] = Append(@, Head(OutOf[s]))]
      BY <1>5, <1>12, <2>9, SideFunctions
    <2>11. OutOf' = [OutOf EXCEPT ![s] = Tail(@)]
      BY <1>5, <1>12, <2>8, SideFunctions
    <2>12. Layer!Drain(s)
      BY <1>4, <1>11, <1>13, <2>8, <2>10, <2>11, DrainIs
    <2>13. moved'[s] # moved[s]
      BY <1>7, <1>9
    <2> QED BY <1>4, <2>12, <2>13 DEF LayerNext
  <1>17. CASE ~(u <= L /\ m = Start(s, u))
    <2>1. u \in Nat /\ (u <= L => m + 1 <= Start(s, u))
      BY <1>6, <1>7, <1>15, <1>17
    <2>2. u > 1 => Start(s, u - 1) < m + 1
      <3> SUFFICES ASSUME u > 1 PROVE Start(s, u - 1) < m + 1
        OBVIOUS
      <3>1. u - 1 \in 1..(L + 1)
        BY <1>6
      <3>2. Start(s, u - 1) \in Nat /\ Start(s, u - 1) < m
        BY <1>8, <3>1, LayoutFacts DEF ToMove
      <3> QED BY <1>7, <3>2
    <2>3. ToMove(s, u)'
      BY <1>4, <1>6, <1>9, <1>10, <2>1, <2>2 DEF ToMove
    <2>4. u = Unmoved(s)'
      BY <2>1, <2>3 DEF Mapped
    <2>5. /\ WireOf'[s] = Slice(log[s], c, u - 1) /\ OutOf'[s] = Slice(log[s], u, L)
      BY <1>2, <1>4, <1>11, <2>4, PointNext
    <2>6. UNCHANGED <<WireOf, OutOf>>
      BY <1>5, <1>12, <1>14, <2>5, SideFunctions
    <2> QED BY <1>4, <1>11, <1>13, <2>6, StutterIs
  <1> QED BY <1>16, <1>17

\* What is written comes behind what the writer holds; nobody's place changes.
LEMMA PutLayer ==
    ASSUME IInv, Mapped, Mapped', NEW s \in Side, NEW b \in Body, NEW bytes \in Seq(Byte),
           Put(s, b, bytes), bytes # <<>>,
           UNCHANGED <<moved, taken, from, max_packet_size>>
    PROVE  /\ UNCHANGED <<ConfOf, SkewOf, WireOf>>
           /\ OutOf' = [OutOf EXCEPT ![s] =
                           Append(@, [pkt |-> LayerPacket(b), cut |-> bytes # Frame[b]])]
           /\ stream'[s] # stream[s]
  <1>1. PICK u : u = Unmoved(s)
    OBVIOUS
  <1>2. PICK p : p = Peer(s)
    OBVIOUS
  <1>3. PICK c : c = Current(p)
    OBVIOUS
  <1> DEFINE e == [body |-> b, bytes |-> bytes, start |-> Written(s)]
  <1>4. PICK L : L = Len(log[s])
    OBVIOUS
  <1>5. PICK n \in Nat : n = L + 1
    BY <1>4, LayoutFacts
  <1>6. /\ p \in Side /\ Peer(p) = s /\ p # s /\ \A r \in Side : r = s \/ r = p
    BY <1>2, SideFacts
  <1>7. /\ L \in Nat /\ log[s] \in Seq(Entry) /\ c \in 1..n /\ u \in 1..n /\ c <= u
    BY <1>1, <1>3, <1>4, <1>5, <1>6, MapFacts
  <1>8. Streams
    BY DEF IInv
  <1>9. /\ log' \in [Side -> Seq(Entry)] /\ stream'[p] = stream[p] /\ log'[p] = log[p]
        /\ Written(s)' = Written(s) + Len(bytes)
        /\ Len(log'[s]) = n
        /\ \A i \in 1..L : log'[s][i] = log[s][i]
        /\ log'[s][n] = e
        /\ \A i \in 1..n : Start(s, i)' = Start(s, i)
    BY <1>2, <1>4, <1>5, <1>8, PutFacts
  <1>10. /\ Written(s) \in Nat /\ Len(bytes) \in Nat \ {0} /\ Start(s, n) = Written(s)
    <2>1. Written(s) \in Nat /\ Start(s, n) = Written(s)
      BY <1>4, <1>5, LayoutFacts
    <2>2. Len(bytes) \in Nat /\ Len(bytes) # 0
      BY EmptySeq, LenProperties
    <2> QED BY <2>1, <2>2
  <1>11. stream'[s] # stream[s]
    BY <1>9, <1>10 DEF Written
  <1>12. Current(s)' = Current(s) /\ SkewOf'[s] = SkewOf[s]
    BY <1>2, <1>9, KeepReader
  <1>13. c = Current(p)'
    <2>1. AtItem(p, c)
      BY <1>3, <1>6 DEF Mapped
    <2>2. taken[p] \in Nat /\ taken[p] <= Written(s)
      BY <1>6, ConsumedFacts DEF IInv
    <2>3. \A i \in 1..L : Stop(s, i)' = Stop(s, i) /\ i \in 1..n
      <3>1. \A i \in 1..L : i \in 1..n
        BY <1>5, <1>7
      <3> QED BY <1>9, <3>1 DEF Stop
    <2>4. Start(s, c)' = Start(s, c)
      BY <1>7, <1>9
    <2>5. CASE from[p] < taken[p]
      <3>1. c \in 1..L /\ Start(s, c) < taken[p] /\ taken[p] <= Stop(s, c)
        BY <1>4, <1>6, <2>1, <2>5 DEF AtItem
      <3>2. AtItem(p, c)'
        BY <1>6, <1>9, <2>3, <2>4, <2>5, <3>1 DEF AtItem
      <3> QED BY <1>6, <1>7, <3>2 DEF Mapped
    <2>6. CASE ~(from[p] < taken[p])
      <3>1. Start(s, c) <= taken[p] /\ (c <= L => taken[p] < Stop(s, c))
        BY <1>4, <1>6, <2>1, <2>6 DEF AtItem
      <3>2. taken[p] < Stop(s, c)'
        <4>1. CASE c <= L
          BY <1>7, <2>3, <3>1, <4>1
        <4>2. CASE c = n
          <5>1. Stop(s, c)' = Start(s, c)' + Len(log'[s][c].bytes)
            BY DEF Stop
          <5>2. Stop(s, c)' = Written(s) + Len(bytes)
            BY <1>9, <1>10, <2>4, <4>2, <5>1
          <5> QED BY <1>10, <2>2, <5>2
        <4> QED BY <1>5, <1>7, <4>1, <4>2
      <3>3. c \in 1..(n + 1)
        BY <1>7
      <3>4. AtItem(p, c)'
        BY <1>6, <1>9, <2>4, <2>6, <3>1, <3>2, <3>3 DEF AtItem
      <3> QED BY <1>6, <1>7, <3>4 DEF Mapped
    <2> QED BY <2>5, <2>6
  <1>14. SkewOf'[p] = SkewOf[p]
    <2>1. Start(s, c)' = Start(s, c)
      BY <1>7, <1>9
    <2>2. SkewOf'[p] = (from'[p] # Start(Peer(p), c)')
      BY <1>6, <1>13, SkewNext
    <2> QED BY <1>3, <1>6, <2>1, <2>2, Point
  <1>15. u = Unmoved(s)'
    <2>1. ToMove(s, u)
      BY <1>1 DEF Mapped
    <2>2. moved[s] \in Nat /\ moved[s] <= Written(s)
      BY LayoutFacts
    <2>3. moved[s] <= Start(s, u)
      <3>1. u <= L \/ u = n
        BY <1>5, <1>7
      <3> QED BY <1>4, <1>10, <2>1, <2>2, <3>1 DEF ToMove
    <2>4. u > 1 => Start(s, u - 1)' < moved[s]
      <3> SUFFICES ASSUME u > 1 PROVE Start(s, u - 1)' < moved[s]
        OBVIOUS
      <3>1. PICK v : v = u - 1
        OBVIOUS
      <3>2. v \in 1..n
        BY <1>7, <3>1
      <3>3. Start(s, v)' = Start(s, v) /\ Start(s, v) < moved[s]
        BY <1>9, <2>1, <3>1, <3>2 DEF ToMove
      <3> QED BY <3>1, <3>3
    <2>5. Start(s, u)' = Start(s, u) /\ u \in 1..(n + 1)
      BY <1>7, <1>9
    <2>6. ToMove(s, u)'
      BY <1>9, <2>3, <2>4, <2>5 DEF ToMove
    <2> QED BY <1>7, <2>6 DEF Mapped
  <1>16. log'[s] \in Seq(Entry) /\ Len(log'[s]) = Len(log[s]) + 1
    BY <1>4, <1>5, <1>9
  <1>17. /\ WireOf[s] = Slice(log[s], c, u - 1) /\ OutOf[s] = Slice(log[s], u, L)
         /\ WireOf'[s] = Slice(log'[s], c, u - 1) /\ OutOf'[s] = Slice(log'[s], u, n)
    <2>1. WireOf[s] = Slice(log[s], c, u - 1) /\ OutOf[s] = Slice(log[s], u, L)
      BY <1>1, <1>2, <1>3, <1>4, Point
    <2>2. WireOf'[s] = Slice(log'[s], c, u - 1) /\ OutOf'[s] = Slice(log'[s], u, Len(log'[s]))
      BY <1>2, <1>13, <1>15, PointNext
    <2> QED BY <1>9, <2>1, <2>2
  <1>18. WireOf'[s] = WireOf[s]
    <2>1. c \in 1..(Len(log[s]) + 1) /\ u - 1 \in (c - 1)..Len(log[s])
      BY <1>4, <1>5, <1>7
    <2> QED BY <1>4, <1>7, <1>9, <1>16, <1>17, <2>1, SliceGrow
  <1>19. OutOf'[s] = Append(OutOf[s], LayerItem(e))
    <2>1. u \in 1..(Len(log[s]) + 1) /\ L \in (u - 1)..Len(log[s])
      BY <1>4, <1>5, <1>7
    <2>2. Slice(log'[s], u, L) = Slice(log[s], u, L)
      BY <1>4, <1>7, <1>9, <1>16, <2>1, SliceGrow
    <2>3. u \in 1..Len(log'[s]) /\ L \in (u - 1)..(Len(log'[s]) - 1)
      BY <1>4, <1>5, <1>7, <1>9
    <2>4. Append(Slice(log'[s], u, L), LayerItem(log'[s][L + 1])) = Slice(log'[s], u, L + 1)
      BY <1>16, <2>3, SliceAdd
    <2> QED BY <1>5, <1>9, <1>17, <2>2, <2>4
  <1>20. OutOf'[p] = OutOf[p] /\ WireOf'[p] = WireOf[p]
    BY <1>2, <1>6, <1>9, <1>12, KeepWriter
  <1>21. LayerItem(e) = [pkt |-> LayerPacket(b), cut |-> bytes # Frame[b]]
    BY DEF LayerItem
  <1>22. UNCHANGED <<SkewOf, WireOf>>
    BY <1>6, <1>12, <1>14, <1>18, <1>20, SideFunctions
  <1>23. OutOf' = [OutOf EXCEPT ![s] =
                      Append(@, [pkt |-> LayerPacket(b), cut |-> bytes # Frame[b]])]
    BY <1>6, <1>19, <1>20, <1>21, SideFunctions
  <1> QED BY <1>11, <1>22, <1>23, ConfSame

LEMMA SendLayer ==
    ASSUME IInv, Mapped, Mapped', NEW s \in Side, NEW c, Send(s, c)
    PROVE  LayerNext
  <1>1. PICK b \in Body : Len(b) <= max_packet_size[s] /\ Put(s, b, Frame[b])
    BY DEF Send
  <1>2. UNCHANGED <<max_packet_size, moved, taken, from, up, got>>
    BY DEF Send
  <1>3. Frame[b] \in Seq(Byte) /\ Frame[b] # <<>>
    BY FrameNotEmpty
  <1>4. /\ UNCHANGED <<ConfOf, SkewOf, WireOf>> /\ stream'[s] # stream[s]
        /\ OutOf' = [OutOf EXCEPT ![s] =
                        Append(@, [pkt |-> LayerPacket(b), cut |-> Frame[b] # Frame[b]])]
    BY <1>1, <1>2, <1>3, PutLayer
  <1>5. (Frame[b] # Frame[b]) = FALSE
    OBVIOUS
  <1>6. Layer!WritePacket(s, LayerPacket(b))
    BY <1>1, <1>2, <1>4, <1>5, WritePacketIs
  <1> QED BY <1>2, <1>4, <1>6 DEF LayerNext

LEMMA SendStopsLayer ==
    ASSUME IInv, Mapped, Mapped', NEW s \in Side, SendStops(s)
    PROVE  LayerNext
  <1>1. PICK b \in Body : \E n \in 1 .. Len(Frame[b]) - 1 :
           Len(b) <= max_packet_size[s] /\ Put(s, b, SubSeq(Frame[b], 1, n))
    BY DEF SendStops, Interrupt
  <1>2. PICK n \in 1 .. Len(Frame[b]) - 1 :
           Len(b) <= max_packet_size[s] /\ Put(s, b, SubSeq(Frame[b], 1, n))
    BY <1>1
  <1> DEFINE q == SubSeq(Frame[b], 1, n)
  <1>3. UNCHANGED <<max_packet_size, moved, taken, from, up, got>>
    BY DEF SendStops, Interrupt
  <1>4. q \in Seq(Byte) /\ q # <<>> /\ q # Frame[b]
    BY FrameCut
  <1> HIDE DEF q
  <1>5. Put(s, b, q)
    BY <1>2 DEF q
  <1>6. /\ UNCHANGED <<ConfOf, SkewOf, WireOf>> /\ stream'[s] # stream[s]
        /\ OutOf' = [OutOf EXCEPT ![s] =
                        Append(@, [pkt |-> LayerPacket(b), cut |-> q # Frame[b]])]
    BY <1>3, <1>4, <1>5, PutLayer
  <1>7. (q # Frame[b]) = TRUE
    BY <1>4
  <1>8. Layer!WriteInterrupted(s, LayerPacket(b))
    BY <1>2, <1>3, <1>6, <1>7, WriteInterruptedIs
  <1> QED BY <1>3, <1>6, <1>8 DEF LayerNext

LEMMA ConfigureLayer ==
    ASSUME IInv, Mapped, Mapped', NEW s \in Side, Configure(s)
    PROVE  LayerNext
  <1>1. PICK z \in Limits \ {max_packet_size[s]} :
           max_packet_size' = [max_packet_size EXCEPT ![s] = z]
    BY DEF Configure
  <1>2. UNCHANGED <<stream, log, moved, taken, from, up, got>>
    BY DEF Configure
  <1>3. UNCHANGED <<WireOf, OutOf, SkewOf>>
    BY <1>2, NothingMoves
  <1>4. max_packet_size \in [Side -> Limits]
    BY DEF IInv, Streams
  <1>5. max_packet_size'[s] = z
    BY <1>1, <1>4
  <1>6. Configuration(z) # ConfOf[s]
    <2>1. Configuration(z).max_packet_size = z
      BY DEF Configuration
    <2>2. ConfOf[s].max_packet_size = max_packet_size[s]
      BY DEF ConfOf, Configuration
    <2> QED BY <2>1, <2>2
  <1>7. ConfOf' = [ConfOf EXCEPT ![s] = Configuration(z)]
    BY <1>1, <1>4 DEF ConfOf, Configuration
  <1>8. Layer!set_config(s, Configuration(z))
    BY <1>2, <1>3, <1>6, <1>7, set_configIs
  <1>9. max_packet_size'[s] # max_packet_size[s]
    BY <1>5
  <1> QED BY <1>2, <1>5, <1>8, <1>9 DEF LayerNext

LEMMA LoseConnectionLayer ==
    ASSUME IInv, Mapped, Mapped', LoseConnection
    PROVE  LayerNext
  <1>1. /\ UNCHANGED <<max_packet_size, stream, log, moved, taken, from, got>>
        /\ up /\ up' = FALSE
    BY DEF LoseConnection
  <1>2. Layer!Disconnect
    BY <1>1, NothingMoves, ConfSame, DisconnectIs
  <1> QED BY <1>1, <1>2 DEF LayerNext

\* Every step is a step of PacketLayer, or none.
LEMMA LayerStep ==
    ASSUME IInv, IInv', Mapped, Mapped', [Next]_vars
    PROVE  [LayerNext]_<<Layer!layerVars, got>>
  <1> SUFFICES LayerNext \/ UNCHANGED <<Layer!layerVars, got>>
    OBVIOUS
  <1>1. ASSUME NEW s \in Side, handler_send(s) \/ handler_send_recv(s) PROVE LayerNext
    BY <1>1, SendLayer DEF handler_send, handler_send_recv
  <1>2. ASSUME NEW s \in Side, Flushed(s) \/ FlushStops(s) \/ handler_recv(s) \/ Accept(s)
        PROVE  UNCHANGED <<Layer!layerVars, got>>
    <2>1. UNCHANGED <<max_packet_size, stream, log, moved, taken, up, got>>
      BY <1>2 DEF Flushed, FlushStops, handler_recv, Accept
    <2>2. from' = from
      <3>1. CASE Flushed(s) \/ handler_recv(s)
        BY <3>1, FromUnchanged DEF Flushed, handler_recv
      <3>2. CASE FlushStops(s) \/ Accept(s)
        BY <3>2 DEF FlushStops, Accept
      <3> QED BY <1>2, <3>1, <3>2
    <2> QED BY <2>1, <2>2, QuietLayer
  <1>3. CASE UNCHANGED vars
    BY <1>3, QuietLayer DEF vars
  <1>4. CASE LoseConnection
    BY <1>4, LoseConnectionLayer
  <1>5. CASE \E s \in Side :
                \/ handler_send(s) \/ handler_send_recv(s) \/ SendStops(s)
                \/ Move(s) \/ Flushed(s) \/ FlushStops(s)
                \/ handler_recv(s) \/ Receiving(s) \/ RecvStops(s)
                \/ Configure(s)
    <2>1. PICK s \in Side :
             \/ handler_send(s) \/ handler_send_recv(s) \/ SendStops(s)
             \/ Move(s) \/ Flushed(s) \/ FlushStops(s)
             \/ handler_recv(s) \/ Receiving(s) \/ RecvStops(s)
             \/ Configure(s)
      BY <1>5
    <2>2. CASE SendStops(s)
      BY <2>2, SendStopsLayer
    <2>3. CASE Move(s)
      BY <2>3, MoveLayer
    <2>4. CASE Receiving(s)
      BY <1>2, <2>4, TakeLayer, ReturnLayer, RefuseLayer DEF Receiving
    <2>5. CASE RecvStops(s)
      BY <2>5, RecvStopsLayer
    <2>6. CASE Configure(s)
      BY <2>6, ConfigureLayer
    <2> QED BY <1>1, <1>2, <2>1, <2>2, <2>3, <2>4, <2>5, <2>6
  <1> QED BY <1>3, <1>4, <1>5 DEF Next

\* At the beginning no item has been written, and every reader is at the first.
LEMMA LayerInit == ASSUME Init, IInv, Mapped PROVE Layer!InitLayer
  <1>1. ASSUME NEW s \in Side
        PROVE  WireOf[s] = <<>> /\ OutOf[s] = <<>> /\ SkewOf[s] = FALSE
    <2>1. PICK u : u = Unmoved(s)
      OBVIOUS
    <2>2. PICK c : c = Current(Peer(s))
      OBVIOUS
    <2>3. PICK d : d = Current(s)
      OBVIOUS
    <2>4. /\ Peer(s) \in Side /\ Peer(Peer(s)) = s
          /\ Len(log[s]) = 0 /\ Len(log[Peer(s)]) = 0 /\ log[s] \in Seq(Entry)
      BY SideFacts, StreamFacts DEF Init, IInv
    <2>5. u = 1 /\ c = 1
      <3>1. c \in 1..(Len(log[s]) + 1) /\ u \in 1..(Len(log[s]) + 1)
        BY <2>1, <2>2, <2>4, MapFacts
      <3> QED BY <2>4, <3>1
    <2>6. d = 1
      <3>1. d \in 1..(Len(log[Peer(s)]) + 1)
        BY <2>3, <2>4, MapFacts
      <3> QED BY <2>4, <3>1
    <2>7. Slice(log[s], 1, 0) = <<>>
      <3>1. 1 \in 1..(Len(log[s]) + 1) /\ 0 \in (1 - 1)..Len(log[s]) /\ 0 - 1 + 1 = 0
        BY <2>4
      <3>2. Slice(log[s], 1, 0) \in Seq(LogItem) /\ Len(Slice(log[s], 1, 0)) = 0
        BY <2>4, <3>1, SliceFacts
      <3> QED BY <3>2, EmptySeq
    <2>8. WireOf[s] = <<>> /\ OutOf[s] = <<>>
      <3>1. WireOf[s] = Slice(log[s], 1, 1 - 1) /\ OutOf[s] = Slice(log[s], 1, 0)
        BY <2>1, <2>2, <2>4, <2>5, Point
      <3>2. 1 - 1 = 0
        OBVIOUS
      <3> QED BY <2>7, <3>1, <3>2
    <2>9. SkewOf[s] = FALSE
      <3>1. SkewOf[s] = (from[s] # Start(Peer(s), 1))
        BY <2>3, <2>6, Point
      <3>2. Start(Peer(s), 1) = 0 /\ from[s] = 0
        BY <2>4, LayoutFacts DEF Init
      <3> QED BY <3>1, <3>2
    <2> QED BY <2>8, <2>9
  <1>2. /\ WireOf = [s \in Side |-> <<>>] /\ OutOf = [s \in Side |-> <<>>]
        /\ SkewOf = [s \in Side |-> FALSE]
    BY <1>1, SideFunctions
  <1>3. ConfOf \in [Side -> {Configuration(z) : z \in Limits}]
    BY DEF Init, ConfOf
  <1> QED BY <1>2, <1>3
          DEF Init, Layer!InitLayer, Layer!Side, Side, ConfOf, OutOf, WireOf, SkewOf

\* write_packet and read_packet, byte by byte over a connection of bounded
\* capacity, implement the packets of PacketLayer: every step of the bytes is a
\* step of the items they are, and what a recv returns is the head of the stream
\* unless its reader is misaligned.
THEOREM FramesImplementLayer == Spec => ImplementsLayer
  <1>1. Init => IInv
    BY InvInit
  <1>2. IInv => Mapped
    BY MappedHolds
  <1>3. Init /\ IInv /\ Mapped => Layer!InitLayer
    BY LayerInit
  <1>4. IInv /\ IInv' /\ Mapped /\ Mapped' /\ [Next]_vars
           => [LayerNext]_<<Layer!layerVars, got>>
    BY LayerStep
  <1> QED BY <1>1, <1>2, <1>3, <1>4, Invariant, PTL DEF Spec, ImplementsLayer
=============================================================================
