------------------------ MODULE FrameAssemblyProofs ------------------------
(***************************************************************************)
(* Theorems about the assembly of one frame, for every frame of a sender,  *)
(* any number of packets, and any order and repetition of their arrival.   *)
(***************************************************************************)
EXTENDS FrameAssembly, FrameBufferProofs, FiniteSetTheorems

-----------------------------------------------------------------------------
(* The frame as the sender made it.  Everything is told by the place of a  *)
(* packet, the distance of its number from the base of the half circle.    *)
Base == CHOOSE base \in SeqNums :
          \A p \in Stream : Distance(p.seq, base, SeqHalf) < SeqHalf

Place(p) == Pos(p.seq, Base)

\* The packet list, in terms of places.
Ordered(ps) ==
  \A i, j \in 1 .. Len(ps) : i < j => Place(ps[i]) < Place(ps[j])

Holds(ps, p) == \E i \in 1 .. Len(ps) : ps[i] = p

\* A list holds all the media packets of the frame.
HoldsAll(ps) == \A p \in Media(Stream) : Holds(ps, p)

\* A boundary is known when the packet that carries the flag is in the list.
FirstKnown(f) ==
  /\ f.first # NoSeq =>
       \E i \in 1 .. Len(f.packets) : f.packets[i].first /\ f.packets[i].seq = f.first
  /\ \A i \in 1 .. Len(f.packets) : f.packets[i].first => f.first # NoSeq

LastKnown(f) ==
  /\ f.last # NoSeq =>
       \E i \in 1 .. Len(f.packets) : f.packets[i].marker /\ f.packets[i].seq = f.last
  /\ \A i \in 1 .. Len(f.packets) : f.packets[i].marker => f.last # NoSeq

\* The packets without payload that have arrived span the range noted for them.
Padding(S) == S \ Media(S)

PaddingNoted(f, S) ==
  /\ f.emptyLow = NoSeq <=> Padding(S) = {}
  /\ f.emptyHigh = NoSeq <=> Padding(S) = {}
  /\ Padding(S) # {} =>
       /\ \E p \in Padding(S) : p.seq = f.emptyLow
                                /\ \A q \in Padding(S) : Place(p) <= Place(q)
       /\ \E p \in Padding(S) : p.seq = f.emptyHigh
                                /\ \A q \in Padding(S) : Place(q) <= Place(p)

Fits == Cardinality(Media(Stream)) <= kMaxPacketsInSession

\* The inductive invariant.
Assembled(f, S) ==
  /\ f \in Frame
  /\ S \subseteq Stream
  /\ \A i \in 1 .. Len(f.packets) : f.packets[i] \in Media(S)
  /\ Ordered(f.packets)
  /\ Fits => \A p \in Media(S) : Holds(f.packets, p)
  /\ FirstKnown(f)
  /\ LastKnown(f)
  /\ f.complete <=> f.packets # << >> /\ HoldsAll(f.packets)
  /\ f.state = "kStateComplete" => f.complete
  /\ PaddingNoted(f, S)

AInv == Assembled(frame, received)

-----------------------------------------------------------------------------
\* Places tell the packets of a frame apart and order them as
\* IsNewerSequenceNumber does.
LEMMA PlaceOrder ==
  ASSUME OneFrame, NEW p \in Stream, NEW q \in Stream
  PROVE  /\ Place(p) \in Nat /\ Place(q) \in Nat
         /\ IsNewerSequenceNumber(p.seq, q.seq) <=> Place(p) > Place(q)
         /\ Place(p) = Place(q) => p = q
         /\ q.seq = NextSeq(p.seq) => Place(q) = Place(p) + 1
<1>1. Base \in SeqNums /\ InHalf(p.seq, Base) /\ InHalf(q.seq, Base)
  <2>1. \E base \in SeqNums :
          \A r \in Stream : Distance(r.seq, base, SeqHalf) < SeqHalf
    BY DEF OneFrame
  <2> QED
    BY <2>1 DEF Base, InHalf, Pos
<1>2. p.seq \in SeqNums /\ q.seq \in SeqNums
  BY StreamAssumption DEF PacketType
<1>3. /\ Place(p) \in Nat /\ Place(q) \in Nat
      /\ IsNewerSequenceNumber(p.seq, q.seq) <=> Place(p) > Place(q)
      /\ Place(p) = Place(q) => p.seq = q.seq
  BY <1>1, <1>2, HalfOrder DEF Place
<1>4. p.seq = q.seq => p = q
  BY DEF OneFrame
<1>5. q.seq = NextSeq(p.seq) => Place(q) = Place(p) + 1
  BY <1>1, <1>2, HalfAssumption
  DEF Place, SeqNums, InHalf, Pos, Distance, NextSeq
<1> QED
  BY <1>3, <1>4, <1>5

\* The media packets of a sender's frame.
LEMMA MediaIs ==
  ASSUME OneFrame, NEW p \in Media(Stream)
  PROVE  /\ p \in Stream /\ p \in PacketType /\ p.seq \in SeqNums /\ p.size = 1
         /\ p.first <=> \A q \in Media(Stream) : Place(p) <= Place(q)
         /\ p.marker <=> \A q \in Media(Stream) : Place(q) <= Place(p)
         /\ p.marker \/ \E q \in Media(Stream) : Place(q) = Place(p) + 1
<1>1. p \in Stream /\ \A q \in Media(Stream) : q \in Stream
  BY DEF Media
<1>2. p \in PacketType /\ p.seq \in SeqNums
  BY <1>1, StreamAssumption DEF PacketType
<1>3. \A q \in Media(Stream) :
        /\ Place(p) \in Nat /\ Place(q) \in Nat
        /\ IsNewerSequenceNumber(p.seq, q.seq) <=> Place(p) > Place(q)
        /\ IsNewerSequenceNumber(q.seq, p.seq) <=> Place(q) > Place(p)
        /\ q.seq = NextSeq(p.seq) => Place(q) = Place(p) + 1
  BY <1>1, PlaceOrder
<1>4. /\ p.size = 1
      /\ p.first <=> \A q \in Media(Stream) : ~IsNewerSequenceNumber(p.seq, q.seq)
      /\ p.marker <=> \A q \in Media(Stream) : ~IsNewerSequenceNumber(q.seq, p.seq)
      /\ p.marker \/ \E q \in Media(Stream) : q.seq = NextSeq(p.seq)
  BY DEF OneFrame
<1>5. \A q \in Media(Stream) :
        /\ ~IsNewerSequenceNumber(p.seq, q.seq) <=> Place(p) <= Place(q)
        /\ ~IsNewerSequenceNumber(q.seq, p.seq) <=> Place(q) <= Place(p)
  BY <1>3
<1> QED
  BY <1>1, <1>2, <1>3, <1>4, <1>5, Zenon

\* A list of media packets in order.
MediaList(ps) ==
  /\ ps \in Seq(PacketType)
  /\ \A i \in 1 .. Len(ps) : ps[i] \in Media(Stream)
  /\ Ordered(ps)

\* The places along such a list.
LEMMA MediaListIs ==
  ASSUME OneFrame, NEW ps, MediaList(ps)
  PROVE  /\ Len(ps) \in Nat
         /\ \A i \in 1 .. Len(ps) : Place(ps[i]) \in Nat
         /\ \A i, j \in 1 .. Len(ps) :
              /\ i < j <=> Place(ps[i]) < Place(ps[j])
              /\ Place(ps[i]) = Place(ps[j]) => i = j
<1>1. Len(ps) \in Nat
  BY DEF MediaList
<1>2. \A i \in 1 .. Len(ps) : ps[i] \in Stream
  BY DEF MediaList, Media
<1>3. \A i \in 1 .. Len(ps) : Place(ps[i]) \in Nat
  BY <1>2, PlaceOrder
<1>4. \A i, j \in 1 .. Len(ps) : i < j => Place(ps[i]) < Place(ps[j])
  BY DEF MediaList, Ordered
<1>5. ASSUME NEW i \in 1 .. Len(ps), NEW j \in 1 .. Len(ps)
      PROVE  /\ i < j <=> Place(ps[i]) < Place(ps[j])
             /\ Place(ps[i]) = Place(ps[j]) => i = j
  <2>1. Place(ps[i]) \in Nat /\ Place(ps[j]) \in Nat
    BY <1>3
  <2>2. (i < j => Place(ps[i]) < Place(ps[j])) /\ (j < i => Place(ps[j]) < Place(ps[i]))
    BY <1>4
  <2>3. i = j => Place(ps[i]) = Place(ps[j])
    OBVIOUS
  <2>4. i < j \/ i = j \/ j < i
    BY <1>1
  <2> QED
    BY <2>1, <2>2, <2>3, <2>4
<1> QED
  BY <1>1, <1>3, <1>5

\* UpdateCompleteSession is right to go by the ends and the gaps: a list
\* with both ends and no gap holds every packet ...
LEMMA NoGapHoldsAll ==
  ASSUME OneFrame, NEW f, MediaList(f.packets),
         \E i \in 1 .. Len(f.packets) : f.packets[i].first,
         \E i \in 1 .. Len(f.packets) : f.packets[i].marker,
         InSequence(f)
  PROVE  HoldsAll(f.packets)
<1> DEFINE ps == f.packets
           n  == Len(ps)
<1> SUFFICES ASSUME NEW p \in Media(Stream), ~Holds(ps, p)
             PROVE  FALSE
  BY DEF HoldsAll
<1>1. n \in Nat /\ \A i \in 1 .. n : ps[i] \in Media(Stream)
  BY DEF MediaList
<1>2. /\ \A i \in 1 .. n : Place(ps[i]) \in Nat
      /\ \A i, j \in 1 .. n : i < j <=> Place(ps[i]) < Place(ps[j])
  BY MediaListIs
<1>3. Place(p) \in Nat
  BY PlaceOrder DEF Media
<1>4. \A i \in 1 .. n : Place(ps[i]) # Place(p)
  <2>1. \A i \in 1 .. n : ps[i] \in Stream /\ p \in Stream /\ ps[i] # p
    BY <1>1 DEF Holds, Media
  <2> QED
    BY <2>1, PlaceOrder
<1>5. PICK a \in 1 .. n : Place(ps[a]) < Place(p)
  <2>1. PICK a \in 1 .. n : ps[a].first
    OBVIOUS
  <2>2. Place(ps[a]) <= Place(p)
    BY <1>1, <2>1, MediaIs
  <2>3. Place(ps[a]) # Place(p) /\ Place(ps[a]) \in Nat
    BY <1>2, <1>4
  <2>4. Place(ps[a]) < Place(p)
    BY <1>3, <2>2, <2>3
  <2> QED
    BY <2>4
<1>6. PICK b \in 1 .. n : Place(p) < Place(ps[b])
  <2>1. PICK b \in 1 .. n : ps[b].marker
    OBVIOUS
  <2>2. Place(p) <= Place(ps[b])
    BY <1>1, <2>1, MediaIs
  <2>3. Place(ps[b]) # Place(p) /\ Place(ps[b]) \in Nat
    BY <1>2, <1>4
  <2>4. Place(p) < Place(ps[b])
    BY <1>3, <2>2, <2>3
  <2> QED
    BY <2>4
<1> DEFINE T == {i \in 1 .. n : Place(p) < Place(ps[i])}
<1>7. PICK m \in T : \A k \in T : m <= k
  <2>1. T \in SUBSET Nat /\ T # {}
    BY <1>6
  <2> HIDE DEF T
  <2> QED
    BY <2>1, LeastNumber
<1>8. m \in 1 .. n /\ Place(p) < Place(ps[m]) /\ m - 1 \in 1 .. n /\ m - 1 \notin T
  <2>1. m \in 1 .. n /\ Place(p) < Place(ps[m])
    BY <1>7
  <2>2. Place(ps[a]) < Place(ps[m])
    BY <1>2, <1>3, <1>5, <2>1
  <2>3. a < m
    BY <1>2, <2>1, <2>2
  <2>4. m - 1 \in 1 .. n /\ m - 1 < m
    BY <1>1, <2>1, <2>3
  <2> QED
    BY <1>7, <2>1, <2>4
<1>9. Place(ps[m - 1]) < Place(p)
  <2>1. ~(Place(p) < Place(ps[m - 1]))
    BY <1>8
  <2>2. Place(ps[m - 1]) # Place(p) /\ Place(ps[m - 1]) \in Nat
    BY <1>2, <1>4, <1>8
  <2> QED
    BY <1>3, <2>1, <2>2
<1>10. Place(ps[m]) = Place(ps[m - 1]) + 1
  <2>1. m - 1 \in 1 .. (n - 1) /\ (m - 1) + 1 = m
    BY <1>1, <1>8
  <2>2. NextSeq(ps[m - 1].seq) = ps[m].seq
    <3>1. NextSeq(ps[m - 1].seq) = ps[(m - 1) + 1].seq
      BY <2>1 DEF InSequence
    <3> QED
      BY <2>1, <3>1
  <2>3. ps[m - 1] \in Stream /\ ps[m] \in Stream
    BY <1>1, <1>8 DEF Media
  <2> QED
    BY <2>2, <2>3, PlaceOrder
<1>11. Place(ps[m - 1]) \in Nat /\ Place(ps[m]) \in Nat
  BY <1>2, <1>8
<1> QED
  BY <1>3, <1>8, <1>9, <1>10, <1>11

\* ... and a list that holds every packet has both ends and no gap.
LEMMA AllHasNoGap ==
  ASSUME OneFrame, NEW f, MediaList(f.packets), f.packets # << >>,
         HoldsAll(f.packets)
  PROVE  /\ \E i \in 1 .. Len(f.packets) : f.packets[i].first
         /\ \E i \in 1 .. Len(f.packets) : f.packets[i].marker
         /\ InSequence(f)
<1> DEFINE ps == f.packets
           n  == Len(ps)
<1>1. n \in Nat /\ \A i \in 1 .. n : ps[i] \in Media(Stream)
  BY DEF MediaList
<1>2. /\ \A i \in 1 .. n : Place(ps[i]) \in Nat
      /\ \A i, j \in 1 .. n : i < j <=> Place(ps[i]) < Place(ps[j])
  BY MediaListIs
<1>3. n >= 1 /\ 1 \in 1 .. n /\ n \in 1 .. n
  BY DEF MediaList
<1>4. \A q \in Media(Stream) : \E i \in 1 .. n : ps[i] = q
  BY DEF HoldsAll, Holds
<1>5. ps[1].first
  <2>1. ASSUME NEW i \in 1 .. n
        PROVE  Place(ps[1]) <= Place(ps[i])
    <3>1. i = 1 \/ 1 < i
      BY <1>1
    <3>2. Place(ps[i]) \in Nat /\ Place(ps[1]) \in Nat
          /\ (1 < i <=> Place(ps[1]) < Place(ps[i]))
      BY <1>2, <1>3
    <3> QED
      BY <3>1, <3>2
  <2>2. \A q \in Media(Stream) : Place(ps[1]) <= Place(q)
    BY <1>4, <2>1
  <2> QED
    BY <1>1, <1>3, <2>2, MediaIs
<1>6. ps[n].marker
  <2>1. ASSUME NEW i \in 1 .. n
        PROVE  Place(ps[i]) <= Place(ps[n])
    <3>1. i = n \/ i < n
      BY <1>1
    <3>2. Place(ps[i]) \in Nat /\ Place(ps[n]) \in Nat
          /\ (i < n <=> Place(ps[i]) < Place(ps[n]))
      BY <1>2, <1>3
    <3> QED
      BY <3>1, <3>2
  <2>2. \A q \in Media(Stream) : Place(q) <= Place(ps[n])
    BY <1>4, <2>1
  <2> QED
    BY <1>1, <1>3, <2>2, MediaIs
<1>7. ASSUME NEW i \in 1 .. (n - 1)
      PROVE  NextSeq(ps[i].seq) = ps[i + 1].seq
  <2>1. i \in 1 .. n /\ i + 1 \in 1 .. n /\ i < i + 1
    BY <1>1
  <2>2. Place(ps[i]) < Place(ps[i + 1])
    BY <1>2, <2>1
  <2>3. ~ps[i].marker
    <3>1. ps[i] \in Media(Stream) /\ ps[i + 1] \in Media(Stream)
      BY <1>1, <2>1
    <3>2. ps[i].marker => Place(ps[i + 1]) <= Place(ps[i])
      BY <3>1, MediaIs
    <3>3. Place(ps[i]) \in Nat /\ Place(ps[i + 1]) \in Nat
      BY <1>2, <2>1
    <3> QED
      BY <2>2, <3>2, <3>3
  <2>4. PICK q \in Media(Stream) : q.seq = NextSeq(ps[i].seq)
    BY <1>1, <2>1, <2>3 DEF OneFrame
  <2>5. PICK k \in 1 .. n : ps[k] = q
    BY <1>4
  <2>6. Place(ps[k]) = Place(ps[i]) + 1
    BY <1>1, <2>1, <2>4, <2>5, PlaceOrder DEF Media
  <2>7. Place(ps[i]) \in Nat /\ Place(ps[k]) \in Nat /\ Place(ps[i + 1]) \in Nat
    BY <1>2, <2>1, <2>5
  <2>8. i < k
    <3>1. Place(ps[i]) < Place(ps[k])
      BY <2>6, <2>7
    <3> QED
      BY <1>2, <2>1, <3>1
  <2>9. ~(i + 1 < k)
    <3>1. ~(Place(ps[i + 1]) < Place(ps[k]))
      BY <2>2, <2>6, <2>7
    <3> QED
      BY <1>2, <2>1, <3>1
  <2>10. k = i + 1
    BY <1>1, <2>8, <2>9
  <2> QED
    BY <2>4, <2>5, <2>10
<1> QED
  BY <1>3, <1>5, <1>6, <1>7 DEF InSequence

-----------------------------------------------------------------------------
\* The reverse scan stops behind the packets that are not newer.
LEMMA InsertPositionIs ==
  ASSUME OneFrame, NEW f \in Frame, MediaList(f.packets), NEW p \in Media(Stream)
  PROVE  LET i == InsertPosition(f, p.seq)
         IN  /\ i \in 0 .. Len(f.packets)
             /\ \A j \in 1 .. Len(f.packets) : j <= i <=> Place(f.packets[j]) <= Place(p)
<1> DEFINE ps == f.packets
           n  == Len(ps)
           older == {i \in 1 .. n : LatestSequenceNumber(p.seq, ps[i].seq) = p.seq}
           i == InsertPosition(f, p.seq)
<1>1. /\ n \in Nat
      /\ \A j \in 1 .. n : Place(ps[j]) \in Nat
      /\ \A j, k \in 1 .. n : j < k <=> Place(ps[j]) < Place(ps[k])
  BY MediaListIs
<1>2. p \in Stream /\ \A j \in 1 .. n : ps[j] \in Stream
  BY DEF MediaList, Media
<1>3. Place(p) \in Nat
  BY <1>2, PlaceOrder
<1>4. i = IF older = {} THEN 0 ELSE CHOOSE k \in older : \A j \in older : j <= k
  BY DEF InsertPosition
<1>5. ASSUME NEW j \in 1 .. n
      PROVE  j \in older <=> Place(ps[j]) <= Place(p)
  <2>1. /\ Place(ps[j]) \in Nat
        /\ IsNewerSequenceNumber(p.seq, ps[j].seq) <=> Place(p) > Place(ps[j])
        /\ Place(ps[j]) = Place(p) => ps[j] = p
    BY <1>2, PlaceOrder
  <2>2. ps[j].seq = p.seq => Place(ps[j]) = Place(p)
    BY DEF Place
  <2>3. j \in older <=> IsNewerSequenceNumber(p.seq, ps[j].seq) \/ ps[j].seq = p.seq
    BY DEF LatestSequenceNumber
  <2> QED
    BY <1>3, <2>1, <2>2, <2>3
<1>6. older \in SUBSET (1 .. n)
  OBVIOUS
<1> HIDE DEF older, i
<1>7. CASE older = {}
  <2>1. i = 0
    BY <1>4, <1>7
  <2>2. \A j \in 1 .. n : ~(j <= i) /\ ~(Place(ps[j]) <= Place(p))
    BY <1>1, <1>5, <1>7, <2>1
  <2> QED
    BY <1>1, <2>1, <2>2 DEF i
<1>8. CASE older # {}
  <2>1. \E k \in older : \A j \in older : j <= k
    BY <1>1, <1>6, <1>8, GreatestIndex
  <2>2. i \in older /\ \A j \in older : j <= i
    BY <1>4, <1>8, <2>1
  <2>3. i \in 1 .. n /\ Place(ps[i]) <= Place(p)
    BY <1>5, <1>6, <2>2
  <2>4. ASSUME NEW j \in 1 .. n
        PROVE  j <= i <=> Place(ps[j]) <= Place(p)
    <3>1. ASSUME j <= i
          PROVE  Place(ps[j]) <= Place(p)
      <4>1. j = i \/ j < i
        BY <1>1, <2>3, <3>1
      <4>2. Place(ps[j]) \in Nat /\ Place(ps[i]) \in Nat
            /\ (j < i <=> Place(ps[j]) < Place(ps[i]))
        BY <1>1, <2>3
      <4> QED
        BY <1>3, <2>3, <4>1, <4>2
    <3>2. ASSUME Place(ps[j]) <= Place(p)
          PROVE  j <= i
      BY <1>5, <2>2, <3>2
    <3> QED
      BY <3>1, <3>2
  <2> QED
    BY <1>1, <2>3, <2>4 DEF i
<1> QED
  BY <1>7, <1>8

\* A packet is a duplicate exactly if it is in the list already.
LEMMA DuplicateIs ==
  ASSUME OneFrame, NEW f \in Frame, MediaList(f.packets), NEW p \in Media(Stream)
  PROVE  IsDuplicate(f, p) <=> Holds(f.packets, p)
<1> DEFINE ps == f.packets
           n  == Len(ps)
           i  == InsertPosition(f, p.seq)
<1>1. /\ n \in Nat
      /\ \A j \in 1 .. n : Place(ps[j]) \in Nat
      /\ \A j, k \in 1 .. n : j < k <=> Place(ps[j]) < Place(ps[k])
  BY MediaListIs
<1>2. p \in Stream /\ \A j \in 1 .. n : ps[j] \in Media(Stream) /\ ps[j] \in Stream
  BY DEF MediaList, Media
<1>3. i \in 0 .. n /\ \A j \in 1 .. n : j <= i <=> Place(ps[j]) <= Place(p)
  BY InsertPositionIs
<1>4. IsDuplicate(f, p) <=> i > 0 /\ ps[i].seq = p.seq /\ ps[i].size > 0
  BY DEF IsDuplicate
<1> HIDE DEF i
<1>5. ASSUME i > 0, ps[i].seq = p.seq
      PROVE  Holds(ps, p)
  <2>1. i \in 1 .. n
    BY <1>1, <1>3, <1>5
  <2>2. ps[i] = p
    BY <1>2, <1>5, <2>1 DEF OneFrame
  <2> QED
    BY <2>1, <2>2 DEF Holds
<1>6. ASSUME Holds(ps, p)
      PROVE  i > 0 /\ ps[i].seq = p.seq /\ ps[i].size > 0
  <2>1. PICK k \in 1 .. n : ps[k] = p
    BY <1>6 DEF Holds
  <2>2. k <= i
    BY <1>1, <1>3, <2>1
  <2>3. i \in 1 .. n
    BY <1>1, <1>3, <2>2
  <2>4. i <= i /\ Place(ps[i]) <= Place(p)
    BY <1>3, <2>3
  <2>5. ~(k < i)
    <3>1. ~(Place(ps[k]) < Place(ps[i]))
      BY <1>1, <2>1, <2>3, <2>4
    <3> QED
      BY <1>1, <2>3, <3>1
  <2>6. k = i
    BY <1>1, <2>2, <2>3, <2>5
  <2> QED
    BY <2>1, <2>3, <2>6, MediaIs
<1> QED
  BY <1>4, <1>5, <1>6

\* A list with one packet more.
OneMore(ps, p, new) ==
  /\ MediaList(new)
  /\ Len(new) = Len(ps) + 1
  /\ \A q : Holds(new, q) <=> Holds(ps, q) \/ q = p

\* Putting a packet behind the older ones keeps the list in order.
LEMMA InsertedInOrder ==
  ASSUME OneFrame, NEW ps, MediaList(ps), NEW p \in Media(Stream), ~Holds(ps, p),
         NEW i \in 0 .. Len(ps),
         \A j \in 1 .. Len(ps) : j <= i <=> Place(ps[j]) <= Place(p),
         NEW new, Inserted(ps, i, p, new)
  PROVE  OneMore(ps, p, new)
<1> DEFINE n == Len(ps)
<1>1. /\ n \in Nat /\ i \in Nat /\ i <= n
      /\ \A j \in 1 .. n : Place(ps[j]) \in Nat
      /\ \A j, k \in 1 .. n : j < k <=> Place(ps[j]) < Place(ps[k])
  BY MediaListIs
<1>2. p \in Stream /\ \A j \in 1 .. n : ps[j] \in Media(Stream) /\ ps[j] \in Stream
  BY DEF MediaList, Media
<1>3. Place(p) \in Nat
  BY <1>2, PlaceOrder
<1>4. \A j \in 1 .. n : Place(ps[j]) # Place(p)
  BY <1>2, PlaceOrder DEF Holds
<1>5. \A j \in 1 .. n : j <= i => Place(ps[j]) < Place(p)
  BY <1>1, <1>3, <1>4
<1>6. \A j \in 1 .. n : j > i => Place(p) < Place(ps[j])
  BY <1>1, <1>3
<1>7. /\ new \in Seq(PacketType) /\ Len(new) = n + 1
      /\ \A j \in 1 .. i : new[j] = ps[j]
      /\ new[i + 1] = p
      /\ \A j \in (i + 2) .. (n + 1) : new[j] = ps[j - 1]
  BY DEF Inserted
<1> HIDE DEF n
<1>8. ASSUME NEW j \in 1 .. (n + 1)
      PROVE  \/ j \in 1 .. i /\ j \in 1 .. n /\ new[j] = ps[j]
             \/ j = i + 1 /\ new[j] = p
             \/ j > i + 1 /\ j - 1 \in 1 .. n /\ j - 1 > i /\ new[j] = ps[j - 1]
  <2>1. j \in 1 .. i \/ j = i + 1 \/ j \in (i + 2) .. (n + 1)
    BY <1>1
  <2>2. j \in 1 .. i => j \in 1 .. n
    BY <1>1
  <2>3. j \in (i + 2) .. (n + 1) => j > i + 1 /\ j - 1 \in 1 .. n /\ j - 1 > i
    BY <1>1
  <2> QED
    BY <1>7, <2>1, <2>2, <2>3
<1>9. \A j \in 1 .. (n + 1) : new[j] \in Media(Stream)
  BY <1>2, <1>8
<1>10. ASSUME NEW j \in 1 .. (n + 1), NEW k \in 1 .. (n + 1), j < k
       PROVE  Place(new[j]) < Place(new[k])
  <2>1. CASE j \in 1 .. i /\ j \in 1 .. n /\ new[j] = ps[j]
    <3>1. CASE k \in 1 .. i /\ k \in 1 .. n /\ new[k] = ps[k]
      BY <1>1, <1>10, <2>1, <3>1
    <3>2. CASE k = i + 1 /\ new[k] = p
      BY <1>1, <1>5, <2>1, <3>2
    <3>3. CASE k > i + 1 /\ k - 1 \in 1 .. n /\ k - 1 > i /\ new[k] = ps[k - 1]
      <4>1. j < k - 1
        BY <1>1, <2>1, <3>3
      <4> QED
        BY <1>1, <2>1, <3>3, <4>1
    <3> QED
      BY <1>8, <3>1, <3>2, <3>3
  <2>2. CASE j = i + 1 /\ new[j] = p
    <3>1. k - 1 \in 1 .. n /\ k - 1 > i /\ new[k] = ps[k - 1]
      <4>1. ~(k \in 1 .. i) /\ k # i + 1
        BY <1>1, <1>10, <2>2
      <4> QED
        BY <1>8, <4>1
    <3> QED
      BY <1>6, <2>2, <3>1
  <2>3. CASE j > i + 1 /\ j - 1 \in 1 .. n /\ j - 1 > i /\ new[j] = ps[j - 1]
    <3>1. k - 1 \in 1 .. n /\ new[k] = ps[k - 1]
      <4>1. ~(k \in 1 .. i) /\ k # i + 1
        BY <1>1, <1>10, <2>3
      <4> QED
        BY <1>8, <4>1
    <3>2. j - 1 < k - 1
      BY <1>10
    <3> QED
      BY <1>1, <2>3, <3>1, <3>2
  <2> QED
    BY <1>8, <2>1, <2>2, <2>3
<1>11. MediaList(new)
  BY <1>7, <1>9, <1>10 DEF MediaList, Ordered
<1>12. ASSUME NEW q
       PROVE  Holds(new, q) <=> Holds(ps, q) \/ q = p
  <2>1. ASSUME NEW j \in 1 .. (n + 1), new[j] = q
        PROVE  Holds(ps, q) \/ q = p
    BY <1>8, <2>1 DEF Holds, n
  <2>2. ASSUME NEW j \in 1 .. n, ps[j] = q
        PROVE  Holds(new, q)
    <3>1. CASE j <= i
      <4>1. j \in 1 .. i /\ j \in 1 .. (n + 1)
        BY <1>1, <3>1
      <4> QED
        BY <1>7, <2>2, <4>1 DEF Holds
    <3>2. CASE j > i
      <4>1. j + 1 \in (i + 2) .. (n + 1) /\ j + 1 \in 1 .. (n + 1) /\ (j + 1) - 1 = j
        BY <1>1, <3>2
      <4>2. new[j + 1] = q
        BY <1>7, <2>2, <4>1
      <4> QED
        BY <1>7, <4>1, <4>2 DEF Holds
    <3> QED
      BY <1>1, <3>1, <3>2
  <2>3. i + 1 \in 1 .. (n + 1) /\ new[i + 1] = p
    BY <1>1, <1>7
  <2>4. q = p => Holds(new, q)
    BY <1>7, <2>3 DEF Holds
  <2> QED
    BY <1>7, <2>1, <2>2, <2>4 DEF Holds, n
<1> QED
  BY <1>7, <1>11, <1>12 DEF OneMore, n

-----------------------------------------------------------------------------
\* There are finitely many media packets.
LEMMA FiniteMedia ==
  ASSUME OneFrame
  PROVE  IsFiniteSet(Media(Stream)) /\ Cardinality(Media(Stream)) \in Nat
<1> DEFINE h == [q \in Media(Stream) |-> q.seq]
<1>1. h \in Injection(Media(Stream), SeqNums)
  <2>1. \A q \in Media(Stream) : q.seq \in SeqNums
    BY MediaIs
  <2>2. \A q, r \in Media(Stream) : q.seq = r.seq => q = r
    BY DEF OneFrame, Media
  <2> QED
    BY <2>1, <2>2 DEF Injection, IsInjective
<1>2. IsFiniteSet(SeqNums)
  BY FS_Interval, HalfAssumption DEF SeqNums
<1> HIDE DEF h
<1>3. IsFiniteSet(Media(Stream))
  BY <1>1, <1>2, FS_Injection
<1> QED
  BY <1>3, FS_CardinalityType

\* A list as long as the frame allows, of a frame that fits, holds everything:
\* a size error then concerns a duplicate.
LEMMA FullHoldsAll ==
  ASSUME OneFrame, Fits, NEW ps, MediaList(ps), Len(ps) = kMaxPacketsInSession
  PROVE  HoldsAll(ps)
<1> DEFINE n == Len(ps)
           h == [i \in 1 .. n |-> ps[i]]
<1>1. n \in Nat
  BY DEF MediaList
<1>2. h \in Injection(1 .. n, Media(Stream))
  <2>1. \A i \in 1 .. n : ps[i] \in Media(Stream)
    BY DEF MediaList
  <2>2. \A i, j \in 1 .. n : ps[i] = ps[j] => i = j
    BY MediaListIs
  <2> QED
    BY <2>1, <2>2 DEF Injection, IsInjective
<1>3. IsFiniteSet(Media(Stream)) /\ Cardinality(Media(Stream)) \in Nat
  BY FiniteMedia
<1>4. Cardinality(1 .. n) = n
  BY <1>1, FS_Interval
<1> HIDE DEF h
<1>5. /\ Cardinality(1 .. n) <= Cardinality(Media(Stream))
      /\ Cardinality(1 .. n) = Cardinality(Media(Stream))
           <=> h \in Surjection(1 .. n, Media(Stream))
  BY <1>2, <1>3, FS_Injection
<1>6. Cardinality(Media(Stream)) <= n
  BY DEF Fits
<1>7. h \in Surjection(1 .. n, Media(Stream))
  BY <1>1, <1>3, <1>4, <1>5, <1>6
<1>8. \A p \in Media(Stream) : \E i \in 1 .. n : h[i] = p
  BY <1>7 DEF Surjection
<1> QED
  BY <1>8 DEF HoldsAll, Holds, h

\* The invariant is about the list and its boundaries, the padding, and the
\* state of a complete frame.
SameSession(f, g) ==
  /\ g.packets = f.packets
  /\ g.first = f.first /\ g.last = f.last
  /\ g.complete = f.complete
  /\ g.emptyLow = f.emptyLow /\ g.emptyHigh = f.emptyHigh

\* So it outlives whatever changes none of these.
LEMMA SameAssembled ==
  ASSUME NEW f, NEW S, Assembled(f, S), NEW g \in Frame, SameSession(f, g),
         g.state = "kStateComplete" => g.complete
  PROVE  Assembled(g, S)
<1>1. FirstKnown(g) /\ LastKnown(g)
  BY DEF Assembled, SameSession, FirstKnown, LastKnown
<1>2. PaddingNoted(g, S)
  BY DEF Assembled, SameSession, PaddingNoted
<1> QED
  BY <1>1, <1>2 DEF Assembled, SameSession

\* The list of an assembled frame.
LEMMA AssembledList ==
  ASSUME NEW f, NEW S, Assembled(f, S)
  PROVE  MediaList(f.packets) /\ Media(S) \subseteq Media(Stream)
<1>1. Media(S) \subseteq Media(Stream)
  BY DEF Assembled, Media
<1>2. f.packets \in Seq(PacketType)
  BY DEF Assembled, Frame
<1> QED
  BY <1>1, <1>2 DEF Assembled, MediaList

\* A complete frame holds every media packet that may come.
LEMMA CompleteHolds ==
  ASSUME NEW f, NEW S, Assembled(f, S), f.complete, NEW p \in Media(Stream)
  PROVE  Holds(f.packets, p)
BY DEF Assembled, HoldsAll

\* Opening the frame.
LEMMA OpenAssembled ==
  ASSUME NEW f, NEW S, Assembled(f, S), NEW p \in Stream
  PROVE  /\ Assembled(OpenFrame(f, p), S)
         /\ OpenFrame(f, p).complete = f.complete
         /\ \/ OpenFrame(f, p).state = f.state
            \/ f.state = "kStateEmpty" /\ OpenFrame(f, p).state = "kStateIncomplete"
<1>1. CASE f.state # "kStateEmpty"
  BY <1>1, Zenon DEF OpenFrame
<1>2. CASE f.state = "kStateEmpty"
  <2> DEFINE st == IF p.type = "empty" THEN f.state ELSE "kStateIncomplete"
             g  == OpenFrame(f, p)
  <2>1. g = [f EXCEPT !.ts = p.ts, !.state = st]
    BY <1>2 DEF OpenFrame
  <2>2. st \in {"kStateEmpty", "kStateIncomplete"}
    BY <1>2
  <2>3. f \in Frame /\ p.ts \in Timestamps
    BY StreamAssumption DEF Assembled, PacketType
  <2>4. f.state = st \/ st = "kStateIncomplete"
    OBVIOUS
  <2> HIDE DEF st, g
  <2>5. g \in Frame /\ SameSession(f, g) /\ g.state = st
    BY <2>1, <2>2, <2>3 DEF Frame, SameSession, States
  <2>6. Assembled(g, S)
    BY <2>2, <2>5, SameAssembled
  <2> QED
    BY <1>2, <2>4, <2>5, <2>6, Zenon DEF g, SameSession
<1> QED
  BY <1>1, <1>2

-----------------------------------------------------------------------------
\* A packet that is received again, or that only the padding sees, leaves the
\* media as they were.
LEMMA MediaOfMore ==
  ASSUME NEW S \in SUBSET Stream, NEW p \in Stream
  PROVE  /\ S \cup {p} \subseteq Stream
         /\ p.type = "empty" => /\ Media(S \cup {p}) = Media(S)
                                /\ Padding(S \cup {p}) = Padding(S) \cup {p}
         /\ p.type # "empty" => /\ Media(S \cup {p}) = Media(S) \cup {p}
                                /\ Padding(S \cup {p}) = Padding(S)
         /\ \A q \in Padding(S) : q \in Stream
BY DEF Media, Padding

\* InformOfEmptyPacket: the range of the padding grows by the new packet.
LEMMA PaddingAssembled ==
  ASSUME OneFrame, NEW f, NEW S, Assembled(f, S), NEW p \in Stream, p.type = "empty"
  PROVE  LET g == InformOfEmptyPacket(f, p.seq)
         IN  /\ Assembled(g, S \cup {p})
             /\ g.state = f.state /\ g.complete = f.complete
<1> DEFINE g == InformOfEmptyPacket(f, p.seq)
           E == Padding(S)
           high == IF f.emptyHigh = NoSeq THEN p.seq
                   ELSE LatestSequenceNumber(p.seq, f.emptyHigh)
           low  == IF f.emptyLow = NoSeq
                        \/ IsNewerSequenceNumber(f.emptyLow, p.seq)
                     THEN p.seq ELSE f.emptyLow
<1>1. f \in Frame /\ S \in SUBSET Stream /\ p.seq \in SeqNums
  BY StreamAssumption DEF Assembled, PacketType
<1>2. /\ S \cup {p} \subseteq Stream /\ Media(S \cup {p}) = Media(S)
      /\ Padding(S \cup {p}) = E \cup {p} /\ \A q \in E : q \in Stream
  BY <1>1, MediaOfMore
<1>3. g = [f EXCEPT !.emptyHigh = high, !.emptyLow = low]
  BY DEF InformOfEmptyPacket
<1>4. g \in Frame
  BY <1>1, InformOfEmptyPacketType DEF Continues
<1>5. p.seq # NoSeq /\ \A q \in Stream : q.seq # NoSeq
  BY StreamAssumption DEF PacketType, SeqNums, NoSeq
<1>6. /\ f.emptyLow = NoSeq <=> E = {}
      /\ f.emptyHigh = NoSeq <=> E = {}
      /\ E # {} =>
           /\ \E r \in E : r.seq = f.emptyLow /\ \A q \in E : Place(r) <= Place(q)
           /\ \E r \in E : r.seq = f.emptyHigh /\ \A q \in E : Place(q) <= Place(r)
  BY DEF Assembled, PaddingNoted
<1>7. \A q \in E \cup {p} : Place(q) \in Nat
  BY <1>2, PlaceOrder
<1>8. \E r \in E \cup {p} : r.seq = high /\ \A q \in E \cup {p} : Place(q) <= Place(r)
  <2>1. CASE E = {}
    BY <1>6, <1>7, <2>1
  <2>2. CASE E # {}
    <3>1. PICK r \in E : r.seq = f.emptyHigh /\ \A q \in E : Place(q) <= Place(r)
      BY <1>6, <2>2
    <3>2. high = LatestSequenceNumber(p.seq, r.seq)
      BY <1>6, <2>2, <3>1
    <3>3. IsNewerSequenceNumber(p.seq, r.seq) <=> Place(p) > Place(r)
      BY <1>2, PlaceOrder
    <3>4. Place(p) \in Nat /\ Place(r) \in Nat /\ \A q \in E : Place(q) \in Nat
      BY <1>7
    <3> HIDE DEF high
    <3>5. CASE Place(p) > Place(r)
      <4>1. high = p.seq
        BY <3>2, <3>3, <3>5 DEF LatestSequenceNumber
      <4>2. \A q \in E \cup {p} : Place(q) <= Place(p)
        BY <3>1, <3>4, <3>5
      <4> QED
        BY <4>1, <4>2
    <3>6. CASE ~(Place(p) > Place(r))
      <4>1. high = r.seq
        BY <3>2, <3>3, <3>6 DEF LatestSequenceNumber
      <4>2. \A q \in E \cup {p} : Place(q) <= Place(r)
        BY <3>1, <3>4, <3>6
      <4> QED
        BY <4>1, <4>2
    <3> QED
      BY <3>5, <3>6
  <2> QED
    BY <2>1, <2>2
<1>9. \E r \in E \cup {p} : r.seq = low /\ \A q \in E \cup {p} : Place(r) <= Place(q)
  <2>1. CASE E = {}
    BY <1>6, <1>7, <2>1
  <2>2. CASE E # {}
    <3>1. PICK r \in E : r.seq = f.emptyLow /\ \A q \in E : Place(r) <= Place(q)
      BY <1>6, <2>2
    <3>2. low = IF IsNewerSequenceNumber(r.seq, p.seq) THEN p.seq ELSE r.seq
      BY <1>6, <2>2, <3>1
    <3>3. IsNewerSequenceNumber(r.seq, p.seq) <=> Place(r) > Place(p)
      BY <1>2, PlaceOrder
    <3>4. Place(p) \in Nat /\ Place(r) \in Nat /\ \A q \in E : Place(q) \in Nat
      BY <1>7
    <3> HIDE DEF low
    <3>5. CASE Place(r) > Place(p)
      <4>1. low = p.seq
        BY <3>2, <3>3, <3>5
      <4>2. \A q \in E \cup {p} : Place(p) <= Place(q)
        BY <3>1, <3>4, <3>5
      <4> QED
        BY <4>1, <4>2
    <3>6. CASE ~(Place(r) > Place(p))
      <4>1. low = r.seq
        BY <3>2, <3>3, <3>6
      <4>2. \A q \in E \cup {p} : Place(r) <= Place(q)
        BY <3>1, <3>4, <3>6
      <4> QED
        BY <4>1, <4>2
    <3> QED
      BY <3>5, <3>6
  <2> QED
    BY <2>1, <2>2
<1> HIDE DEF high, low, g
<1>10. /\ g.packets = f.packets /\ g.first = f.first /\ g.last = f.last
       /\ g.complete = f.complete /\ g.state = f.state
       /\ g.emptyLow = low /\ g.emptyHigh = high
  BY <1>1, <1>3 DEF Frame
<1>11. low # NoSeq /\ high # NoSeq
  BY <1>2, <1>5, <1>8, <1>9
<1>12. PaddingNoted(g, S \cup {p})
  <2>1. Padding(S \cup {p}) # {}
    BY <1>2
  <2> QED
    BY <1>2, <1>8, <1>9, <1>10, <1>11, <2>1 DEF PaddingNoted
<1>13. FirstKnown(g) /\ LastKnown(g)
  BY <1>10 DEF Assembled, FirstKnown, LastKnown
<1>14. Assembled(g, S \cup {p})
  BY <1>2, <1>4, <1>10, <1>12, <1>13 DEF Assembled
<1> QED
  BY <1>10, <1>14 DEF g

\* A media packet is refused only if it is there already, or too many.
LEMMA RefusedIs ==
  ASSUME OneFrame, NEW f, NEW S, Assembled(f, S), NEW p \in Media(Stream)
  PROVE  /\ ~OutOfBounds(f, p)
         /\ SessionError(f, p) = "none" =>
              ~Holds(f.packets, p) /\ Len(f.packets) # kMaxPacketsInSession
         /\ SessionError(f, p) # "none" => /\ SessionError(f, p) \in {"kSizeError", "kDuplicatePacket"}
                                           /\ Fits => Holds(f.packets, p)
<1>1. f \in Frame /\ MediaList(f.packets)
  BY AssembledList DEF Assembled
<1>2. IsDuplicate(f, p) <=> Holds(f.packets, p)
  BY <1>1, DuplicateIs
<1>3. ~OutOfBounds(f, p)
  <2>1. ASSUME f.first # NoSeq
        PROVE  ~IsNewerSequenceNumber(f.first, p.seq)
    <3>1. PICK i \in 1 .. Len(f.packets) : f.packets[i].first /\ f.packets[i].seq = f.first
      BY <2>1 DEF Assembled, FirstKnown
    <3>2. f.packets[i] \in Media(Stream)
      BY <1>1 DEF MediaList
    <3> QED
      BY <3>1, <3>2 DEF OneFrame
  <2>2. ASSUME f.last # NoSeq
        PROVE  ~IsNewerSequenceNumber(p.seq, f.last)
    <3>1. PICK i \in 1 .. Len(f.packets) : f.packets[i].marker /\ f.packets[i].seq = f.last
      BY <2>2 DEF Assembled, LastKnown
    <3>2. f.packets[i] \in Media(Stream)
      BY <1>1 DEF MediaList
    <3> QED
      BY <3>1, <3>2 DEF OneFrame
  <2> QED
    BY <2>1, <2>2 DEF OutOfBounds
<1>4. p.type # "empty"
  BY DEF Media
<1>5. Fits /\ Len(f.packets) = kMaxPacketsInSession => Holds(f.packets, p)
  BY <1>1, FullHoldsAll DEF HoldsAll
<1> QED
  BY <1>2, <1>3, <1>4, <1>5 DEF SessionError

\* A refused packet changes nothing.
LEMMA RefusedAssembled ==
  ASSUME OneFrame, NEW f, NEW S, Assembled(f, S), NEW p \in Media(Stream),
         SessionError(f, p) # "none", NEW mode
  PROVE  /\ SessionInsertPacket(f, p, mode) = f
         /\ Assembled(f, S \cup {p})
<1>1. p.type # "empty" /\ p \in Stream /\ S \in SUBSET Stream
  BY DEF Media, Assembled
<1>2. /\ SessionError(f, p) \in {"kSizeError", "kDuplicatePacket"}
      /\ Fits => Holds(f.packets, p)
  BY RefusedIs
<1>3. SessionInsertPacket(f, p, mode) = f
  BY <1>1, <1>2 DEF SessionInsertPacket
<1>4. /\ S \cup {p} \subseteq Stream /\ Media(S \cup {p}) = Media(S) \cup {p}
      /\ Padding(S \cup {p}) = Padding(S)
  BY <1>1, MediaOfMore
<1>5. PaddingNoted(f, S \cup {p})
  BY <1>4 DEF Assembled, PaddingNoted
<1>6. Assembled(f, S \cup {p})
  BY <1>2, <1>4, <1>5 DEF Assembled
<1> QED
  BY <1>3, <1>6

-----------------------------------------------------------------------------
\* Tracking the boundaries with a new packet: the flagged packet is unique, so
\* it meets no boundary that is known, whatever the codec.
LEMMA TrackedIs ==
  ASSUME OneFrame, NEW f, NEW S, Assembled(f, S), NEW p \in Media(Stream),
         ~Holds(f.packets, p)
  PROVE  LET h == TrackBoundaries(f, p)
         IN  /\ h \in Frame
             /\ h.packets = f.packets
             /\ h.complete = f.complete /\ h.state = f.state
             /\ h.emptyLow = f.emptyLow /\ h.emptyHigh = f.emptyHigh
             /\ h.first = IF p.first THEN p.seq ELSE f.first
             /\ h.last = IF p.marker THEN p.seq ELSE f.last
<1> DEFINE ps == f.packets
<1>1. f \in Frame /\ MediaList(ps) /\ \A i \in 1 .. Len(ps) : ps[i] \in Media(Stream)
  BY AssembledList DEF Assembled, MediaList
<1>2. p \in Stream /\ p \in PacketType /\ p.first \in BOOLEAN /\ p.marker \in BOOLEAN
  BY MediaIs DEF PacketType
<1>3. ASSUME NEW i \in 1 .. Len(ps)
      PROVE  Place(ps[i]) # Place(p) /\ Place(ps[i]) \in Nat /\ Place(p) \in Nat
  <2>1. ps[i] \in Stream /\ ps[i] # p
    BY <1>1 DEF Media, Holds
  <2> QED
    BY <1>2, <2>1, PlaceOrder
<1>4. p.first => f.first = NoSeq
  <2> SUFFICES ASSUME p.first, f.first # NoSeq
               PROVE  FALSE
    OBVIOUS
  <2>1. PICK i \in 1 .. Len(ps) : ps[i].first
    BY DEF Assembled, FirstKnown
  <2>2. Place(ps[i]) <= Place(p) /\ Place(p) <= Place(ps[i])
    BY <1>1, <2>1, MediaIs
  <2>3. Place(ps[i]) # Place(p) /\ Place(ps[i]) \in Nat /\ Place(p) \in Nat
    BY <1>3
  <2> QED
    BY <2>2, <2>3
<1>5. p.marker => f.last = NoSeq
  <2> SUFFICES ASSUME p.marker, f.last # NoSeq
               PROVE  FALSE
    OBVIOUS
  <2>1. PICK i \in 1 .. Len(ps) : ps[i].marker
    BY DEF Assembled, LastKnown
  <2>2. Place(ps[i]) <= Place(p) /\ Place(p) <= Place(ps[i])
    BY <1>1, <2>1, MediaIs
  <2>3. Place(ps[i]) # Place(p) /\ Place(ps[i]) \in Nat /\ Place(p) \in Nat
    BY <1>3
  <2> QED
    BY <2>2, <2>3
<1> DEFINE h == TrackBoundaries(f, p)
<1>6. h \in Frame /\ h.state = f.state
  BY <1>1, <1>2, TrackBoundariesType DEF Continues
<1>7. CASE Codec = "H264"
  <2>1. h = [f EXCEPT
               !.type  = p.type,
               !.first = IF p.first THEN p.seq ELSE @,
               !.last  = IF p.marker THEN p.seq ELSE @]
    BY <1>4, <1>5, <1>7 DEF TrackBoundaries, TrackBoundariesH264
  <2> HIDE DEF h
  <2> QED
    BY <1>1, <1>6, <2>1 DEF Frame, h
<1>8. CASE Codec # "H264"
  <2> DEFINE g == TrackFirst(f, p)
  <2>1. g = IF p.first THEN [f EXCEPT !.type = p.type, !.first = p.seq] ELSE f
    BY <1>4, <1>8 DEF TrackFirst
  <2>2. h = TrackLast(g, p)
    BY <1>8 DEF TrackBoundaries
  <2> HIDE DEF g, h
  <2>3. /\ g \in Frame
        /\ g.packets = f.packets /\ g.complete = f.complete
        /\ g.emptyLow = f.emptyLow /\ g.emptyHigh = f.emptyHigh
        /\ g.first = IF p.first THEN p.seq ELSE f.first
        /\ g.last = f.last
    <3>1. g \in Frame
      BY <1>1, <1>2, TrackFirstType DEF Continues, g
    <3> QED
      BY <1>1, <2>1, <3>1 DEF Frame
  <2>4. h = IF p.marker THEN [g EXCEPT !.last = p.seq] ELSE g
    BY <1>5, <2>2, <2>3 DEF TrackLast
  <2>5. /\ h.packets = g.packets /\ h.complete = g.complete
        /\ h.emptyLow = g.emptyLow /\ h.emptyHigh = g.emptyHigh
        /\ h.first = g.first
        /\ h.last = IF p.marker THEN p.seq ELSE g.last
    BY <2>3, <2>4 DEF Frame
  <2> QED
    BY <1>6, <2>3, <2>5 DEF h
<1> QED
  BY <1>7, <1>8

\* StorePacket, field by field.
LEMMA StorePacketIs ==
  ASSUME NEW f \in Frame, NEW p \in PacketType, NEW mode \in Modes
  PROVE  LET k == StorePacket(f, p, mode)
         IN  /\ k \in Frame
             /\ Inserted(f.packets, InsertPosition(f, p.seq), p, k.packets)
             /\ k.first = f.first /\ k.last = f.last /\ k.state = f.state
             /\ k.emptyLow = f.emptyLow /\ k.emptyHigh = f.emptyHigh
             /\ k.complete = IF HaveFirstPacket(k) /\ HaveLastPacket(k)
                               THEN InSequence(k) ELSE f.complete
<1> DEFINE i  == InsertPosition(f, p.seq)
           ps == SubSeq(f.packets, 1, i) \o <<p>>
                   \o SubSeq(f.packets, i + 1, Len(f.packets))
           g  == [f EXCEPT !.packets = ps]
           h  == UpdateCompleteSession(g)
           k  == UpdateDecodableSession(h, mode)
<1>1. StorePacket(f, p, mode) = k
  BY DEF StorePacket
<1>2. k \in Frame /\ k.state = f.state
  BY <1>1, StorePacketType DEF Continues
<1>3. Inserted(f.packets, i, p, ps)
  <2>1. p.seq \in SeqNums /\ f.packets \in Seq(PacketType)
    BY DEF PacketType, Frame
  <2>2. i \in 0 .. Len(f.packets)
    BY <2>1, InsertPositionType
  <2> HIDE DEF i
  <2> QED
    BY <2>1, <2>2, InsertedIs
<1> HIDE DEF i, ps
<1>4. /\ g \in Frame /\ g.packets = ps
      /\ g.first = f.first /\ g.last = f.last /\ g.complete = f.complete
      /\ g.emptyLow = f.emptyLow /\ g.emptyHigh = f.emptyHigh
  BY <1>3 DEF Frame, Inserted
<1> HIDE DEF g
<1> DEFINE c == IF HaveFirstPacket(g) /\ HaveLastPacket(g) THEN InSequence(g) ELSE f.complete
<1>5. /\ h \in Frame /\ h.packets = ps
      /\ h.first = f.first /\ h.last = f.last /\ h.complete = c
      /\ h.emptyLow = f.emptyLow /\ h.emptyHigh = f.emptyHigh
  <2>1. h \in Frame
    BY <1>4, UpdateCompleteSessionType DEF Continues
  <2>2. h = [g EXCEPT !.complete = c]
    BY <1>4 DEF UpdateCompleteSession
  <2> HIDE DEF c, h
  <2> QED
    BY <1>4, <2>1, <2>2 DEF Frame
<1> HIDE DEF h, c
<1>6. /\ k.packets = ps /\ k.first = f.first /\ k.last = f.last /\ k.complete = c
      /\ k.emptyLow = f.emptyLow /\ k.emptyHigh = f.emptyHigh
  <2>1. \E d : k = [h EXCEPT !.decodable = d]
    BY DEF UpdateDecodableSession
  <2> HIDE DEF k
  <2> QED
    BY <1>5, <2>1 DEF Frame
<1> HIDE DEF k
<1>7. /\ HaveFirstPacket(k) <=> HaveFirstPacket(g)
      /\ HaveLastPacket(k) <=> HaveLastPacket(g)
      /\ InSequence(k) <=> InSequence(g)
  BY <1>4, <1>6 DEF HaveFirstPacket, HaveLastPacket, InSequence
<1>8. k.complete = IF HaveFirstPacket(k) /\ HaveLastPacket(k)
                     THEN InSequence(k) ELSE f.complete
  <2>1. InSequence(k) = InSequence(g)
    BY <1>7 DEF InSequence
  <2> QED
    BY <1>6, <1>7, <2>1 DEF c
<1> QED
  BY <1>1, <1>2, <1>3, <1>6, <1>8 DEF i

\* A media packet that is stored.
LEMMA StoredAssembled ==
  ASSUME OneFrame, NEW f, NEW S, Assembled(f, S), NEW p \in Media(Stream),
         SessionError(f, p) = "none", NEW mode \in Modes
  PROVE  LET k == SessionInsertPacket(f, p, mode)
         IN  Assembled(k, S \cup {p}) /\ ~f.complete /\ k.state = f.state
<1> DEFINE ps  == f.packets
           h   == TrackBoundaries(f, p)
           k   == StorePacket(h, p, mode)
           new == k.packets
<1>1. ~Holds(ps, p)
  BY RefusedIs
<1>2. p.type # "empty" /\ p \in Stream /\ S \in SUBSET Stream /\ f \in Frame
      /\ p \in PacketType /\ p.seq # NoSeq /\ MediaList(ps)
  <2>1. p.type # "empty" /\ S \in SUBSET Stream /\ f \in Frame
    BY DEF Media, Assembled
  <2>2. p \in Stream /\ p \in PacketType /\ p.seq \in SeqNums
    BY MediaIs
  <2>3. p.seq # NoSeq
    BY <2>2 DEF SeqNums, NoSeq
  <2> QED
    BY <2>1, <2>2, <2>3, AssembledList
<1>3. SessionInsertPacket(f, p, mode) = k
  BY <1>2 DEF SessionInsertPacket
<1>4. ~f.complete
  BY <1>1, CompleteHolds
<1>5. /\ h \in Frame /\ h.packets = ps
      /\ h.complete = f.complete /\ h.state = f.state
      /\ h.emptyLow = f.emptyLow /\ h.emptyHigh = f.emptyHigh
      /\ h.first = IF p.first THEN p.seq ELSE f.first
      /\ h.last = IF p.marker THEN p.seq ELSE f.last
  BY <1>1, TrackedIs
<1> HIDE DEF h
<1>6. /\ k \in Frame
      /\ Inserted(ps, InsertPosition(h, p.seq), p, new)
      /\ k.first = h.first /\ k.last = h.last /\ k.state = f.state
      /\ k.emptyLow = f.emptyLow /\ k.emptyHigh = f.emptyHigh
      /\ k.complete = IF HaveFirstPacket(k) /\ HaveLastPacket(k)
                        THEN InSequence(k) ELSE f.complete
  <2>1. LET r == StorePacket(h, p, mode)
        IN  /\ r \in Frame
            /\ Inserted(h.packets, InsertPosition(h, p.seq), p, r.packets)
            /\ r.first = h.first /\ r.last = h.last /\ r.state = h.state
            /\ r.emptyLow = h.emptyLow /\ r.emptyHigh = h.emptyHigh
            /\ r.complete = IF HaveFirstPacket(r) /\ HaveLastPacket(r)
                              THEN InSequence(r) ELSE h.complete
    BY <1>2, <1>5, StorePacketIs, Zenon
  <2> QED
    BY <1>5, <2>1
<1> HIDE DEF k
<1>7. OneMore(ps, p, new)
  <2> DEFINE i == InsertPosition(h, p.seq)
  <2>1. /\ i \in 0 .. Len(ps)
        /\ \A j \in 1 .. Len(ps) : j <= i <=> Place(ps[j]) <= Place(p)
    BY <1>2, <1>5, InsertPositionIs
  <2> HIDE DEF i
  <2>2. Inserted(ps, i, p, new)
    BY <1>6 DEF i
  <2> QED
    BY <1>1, <1>2, <2>1, <2>2, InsertedInOrder
<1>8. /\ MediaList(new) /\ Len(new) \in Nat /\ new # << >>
      /\ \A q : Holds(new, q) <=> Holds(ps, q) \/ q = p
  <2>1. MediaList(new) /\ Len(new) = Len(ps) + 1
    BY <1>7 DEF OneMore
  <2>2. Len(ps) \in Nat /\ new \in Seq(PacketType)
    BY <1>2, <2>1 DEF MediaList
  <2>3. new # << >>
    BY <2>1, <2>2
  <2> QED
    BY <1>7, <2>1, <2>2, <2>3 DEF OneMore
<1>9. /\ S \cup {p} \subseteq Stream /\ Media(S \cup {p}) = Media(S) \cup {p}
      /\ Padding(S \cup {p}) = Padding(S)
  BY <1>2, MediaOfMore
<1>10. \A i \in 1 .. Len(new) : new[i] = p \/ \E j \in 1 .. Len(ps) : new[i] = ps[j]
  BY <1>8 DEF Holds
<1>11. /\ \E i \in 1 .. Len(new) : new[i] = p
       /\ \A j \in 1 .. Len(ps) : \E i \in 1 .. Len(new) : new[i] = ps[j]
  BY <1>8 DEF Holds
<1>12. \A i \in 1 .. Len(new) : new[i] \in Media(S \cup {p})
  BY <1>9, <1>10 DEF Assembled
<1>13. Fits => \A q \in Media(S \cup {p}) : Holds(new, q)
  BY <1>8, <1>9 DEF Assembled
<1>14. FirstKnown(k)
  <2>1. ASSUME k.first # NoSeq
        PROVE  \E i \in 1 .. Len(new) : new[i].first /\ new[i].seq = k.first
    <3>1. CASE p.first
      BY <1>5, <1>6, <1>11, <3>1
    <3>2. CASE ~p.first
      <4>1. k.first = f.first
        BY <1>5, <1>6, <3>2
      <4>2. PICK j \in 1 .. Len(ps) : ps[j].first /\ ps[j].seq = k.first
        BY <2>1, <4>1 DEF Assembled, FirstKnown
      <4> QED
        BY <1>11, <4>2
    <3> QED
      BY <3>1, <3>2
  <2>2. ASSUME NEW i \in 1 .. Len(new), new[i].first
        PROVE  k.first # NoSeq
    <3>1. CASE p.first
      BY <1>2, <1>5, <1>6, <3>1
    <3>2. CASE ~p.first
      <4>1. k.first = f.first
        BY <1>5, <1>6, <3>2
      <4>2. PICK j \in 1 .. Len(ps) : ps[j].first
        BY <1>10, <2>2, <3>2
      <4> QED
        BY <4>1, <4>2 DEF Assembled, FirstKnown
    <3> QED
      BY <3>1, <3>2
  <2> QED
    BY <2>1, <2>2 DEF FirstKnown
<1>15. LastKnown(k)
  <2>1. ASSUME k.last # NoSeq
        PROVE  \E i \in 1 .. Len(new) : new[i].marker /\ new[i].seq = k.last
    <3>1. CASE p.marker
      BY <1>5, <1>6, <1>11, <3>1
    <3>2. CASE ~p.marker
      <4>1. k.last = f.last
        BY <1>5, <1>6, <3>2
      <4>2. PICK j \in 1 .. Len(ps) : ps[j].marker /\ ps[j].seq = k.last
        BY <2>1, <4>1 DEF Assembled, LastKnown
      <4> QED
        BY <1>11, <4>2
    <3> QED
      BY <3>1, <3>2
  <2>2. ASSUME NEW i \in 1 .. Len(new), new[i].marker
        PROVE  k.last # NoSeq
    <3>1. CASE p.marker
      BY <1>2, <1>5, <1>6, <3>1
    <3>2. CASE ~p.marker
      <4>1. k.last = f.last
        BY <1>5, <1>6, <3>2
      <4>2. PICK j \in 1 .. Len(ps) : ps[j].marker
        BY <1>10, <2>2, <3>2
      <4> QED
        BY <4>1, <4>2 DEF Assembled, LastKnown
    <3> QED
      BY <3>1, <3>2
  <2> QED
    BY <2>1, <2>2 DEF LastKnown
<1>16. k.complete <=> HoldsAll(new)
  <2>1. /\ HaveFirstPacket(k) <=> \E i \in 1 .. Len(new) : new[i].first
        /\ HaveLastPacket(k) <=> \E i \in 1 .. Len(new) : new[i].marker
    BY <1>8, <1>14, <1>15 DEF FirstKnown, LastKnown, HaveFirstPacket, HaveLastPacket
  <2>2. ASSUME k.complete
        PROVE  HoldsAll(new)
    <3>1. HaveFirstPacket(k) /\ HaveLastPacket(k) /\ InSequence(k)
      BY <1>4, <1>6, <2>2
    <3> QED
      BY <1>8, <2>1, <3>1, NoGapHoldsAll
  <2>3. ASSUME HoldsAll(new)
        PROVE  k.complete
    <3>1. /\ \E i \in 1 .. Len(new) : new[i].first
          /\ \E i \in 1 .. Len(new) : new[i].marker
          /\ InSequence(k)
      BY <1>8, <2>3, AllHasNoGap
    <3>2. HaveFirstPacket(k) /\ HaveLastPacket(k)
      BY <2>1, <3>1
    <3> QED
      BY <1>6, <3>1, <3>2
  <2>4. k.complete \in BOOLEAN
    BY <1>6 DEF Frame
  <2> QED
    BY <2>2, <2>3, <2>4
<1>17. PaddingNoted(k, S \cup {p})
  BY <1>6, <1>9 DEF Assembled, PaddingNoted
<1>18. k.state # "kStateComplete"
  BY <1>4, <1>6 DEF Assembled
<1>19. Ordered(new)
  BY <1>8 DEF MediaList
<1>20. Assembled(k, S \cup {p})
  BY <1>6, <1>8, <1>9, <1>12, <1>13, <1>14, <1>15, <1>16, <1>17, <1>18, <1>19
  DEF Assembled
<1> QED
  BY <1>3, <1>4, <1>6, <1>20

-----------------------------------------------------------------------------
\* VCMFrameBuffer::InsertPacket.  A frame that is complete stays so: whatever
\* media packet may still come is in it.
LEMMA InsertAssembled ==
  ASSUME OneFrame, NEW f, NEW S, Assembled(f, S), NEW p \in Stream
  PROVE  LET r == FrameInsertPacket(f, p, Mode).frame
         IN  Assembled(r, S \cup {p}) /\ Rank(r.state) >= Rank(f.state)
<1> DEFINE open == OpenFrame(f, p)
           err  == SessionError(open, p)
           g    == SessionInsertPacket(open, p, Mode)
           r    == FrameInsertPacket(f, p, Mode).frame
<1>1. /\ Assembled(open, S)
      /\ open.complete = f.complete
      /\ \/ open.state = f.state
         \/ f.state = "kStateEmpty" /\ open.state = "kStateIncomplete"
  BY OpenAssembled
<1>2. r = IF err # "none" THEN g
          ELSE IF g.complete THEN [g EXCEPT !.state = "kStateComplete"]
          ELSE IF g.decodable THEN [g EXCEPT !.state = "kStateDecodable"]
          ELSE g
  BY DEF FrameInsertPacket
<1>3. Mode \in Modes
  BY ModeAssumption DEF Modes
<1> HIDE DEF open
<1>4. /\ Assembled(g, S \cup {p})
      /\ g.state = open.state
      /\ open.complete => g.complete
  <2>1. CASE p.type = "empty"
    <3>1. g = InformOfEmptyPacket(open, p.seq)
      BY <2>1 DEF SessionInsertPacket, SessionError
    <3> QED
      BY <1>1, <2>1, <3>1, PaddingAssembled
  <2>2. CASE p.type # "empty" /\ err # "none"
    <3>1. p \in Media(Stream)
      BY <2>2 DEF Media
    <3> QED
      BY <1>1, <2>2, <3>1, RefusedAssembled
  <2>3. CASE p.type # "empty" /\ err = "none"
    <3>1. p \in Media(Stream)
      BY <2>3 DEF Media
    <3> QED
      BY <1>1, <1>3, <2>3, <3>1, StoredAssembled
  <2> QED
    BY <2>1, <2>2, <2>3
<1> HIDE DEF err, g, r
<1>5. g \in Frame /\ f \in Frame /\ f.state \in States
  BY <1>4 DEF Assembled, Frame
<1>6. ASSUME NEW st \in States, st = "kStateComplete" => g.complete
      PROVE  LET h == [g EXCEPT !.state = st]
             IN  Assembled(h, S \cup {p}) /\ h.state = st
  <2> DEFINE h == [g EXCEPT !.state = st]
  <2>1. h \in Frame /\ SameSession(g, h) /\ h.state = st /\ h.complete = g.complete
    BY <1>5 DEF Frame, SameSession
  <2> HIDE DEF h
  <2>2. Assembled(h, S \cup {p})
    BY <1>4, <1>6, <2>1, SameAssembled
  <2> QED
    BY <2>1, <2>2 DEF h
<1>7. {"kStateComplete", "kStateDecodable"} \subseteq States
  BY DEF States
<1>8. /\ Assembled(r, S \cup {p})
      /\ \/ r.state = open.state
         \/ r.state = "kStateComplete"
         \/ r.state = "kStateDecodable" /\ ~g.complete
  <2>1. CASE r = g
    BY <1>4, <2>1
  <2>2. CASE g.complete /\ r = [g EXCEPT !.state = "kStateComplete"]
    BY <1>6, <1>7, <2>2
  <2>3. CASE ~g.complete /\ r = [g EXCEPT !.state = "kStateDecodable"]
    BY <1>6, <1>7, <2>3
  <2> QED
    BY <1>2, <2>1, <2>2, <2>3
<1>9. f.state = "kStateComplete" => g.complete
  BY <1>1, <1>4 DEF Assembled
<1>10. Rank(r.state) >= Rank(f.state)
  BY <1>1, <1>5, <1>8, <1>9 DEF Rank, States
<1> QED
  BY <1>8, <1>10 DEF r

\* The invariant holds at first ...
LEMMA InitAssembled ==
  ASSUME Init
  PROVE  AInv
<1>1. /\ frame \in Frame /\ frame.packets = << >> /\ frame.first = NoSeq /\ frame.last = NoSeq
      /\ frame.complete = FALSE /\ frame.state = "kStateEmpty"
      /\ frame.emptyLow = NoSeq /\ frame.emptyHigh = NoSeq
  BY HalfAssumption
  DEF Init, ResetFrame, Frame, Timestamps, States, FrameTypes, MaybeSeq, NoSeq
<1>2. received = {} /\ Media(received) = {} /\ Padding(received) = {}
  BY DEF Init, Media, Padding
<1>3. 1 .. Len(frame.packets) = {}
  BY <1>1
<1>4. FirstKnown(frame) /\ LastKnown(frame) /\ PaddingNoted(frame, received)
  BY <1>1, <1>2, <1>3 DEF FirstKnown, LastKnown, PaddingNoted
<1> QED
  BY <1>1, <1>2, <1>3, <1>4 DEF AInv, Assembled, Ordered

\* ... and is kept, and no packet puts the frame back.
LEMMA NextAssembled ==
  ASSUME OneFrame, AInv, [Next]_vars
  PROVE  AInv' /\ (vars' # vars => Rank(frame'.state) >= Rank(frame.state))
<1>1. CASE Next
  <2>1. PICK p \in Stream : Insert(p)
    BY <1>1 DEF Next
  <2>2. frame' = FrameInsertPacket(frame, p, Mode).frame /\ received' = received \cup {p}
    BY <2>1 DEF Insert
  <2>3. LET r == FrameInsertPacket(frame, p, Mode).frame
        IN  Assembled(r, received \cup {p}) /\ Rank(r.state) >= Rank(frame.state)
    BY InsertAssembled DEF AInv
  <2>4. Assembled(frame', received') /\ Rank(frame'.state) >= Rank(frame.state)
    BY <2>2, <2>3
  <2> QED
    BY <2>4 DEF AInv
<1>2. CASE UNCHANGED vars
  BY <1>2 DEF vars, AInv
<1> QED
  BY <1>1, <1>2

-----------------------------------------------------------------------------
\* What the list of an assembled frame has of the media that arrived, when the
\* frame fits.
LEMMA MediaInList ==
  ASSUME OneFrame, Fits, NEW f, NEW S, Assembled(f, S)
  PROVE  LET ps == f.packets
         IN  /\ ps = << >> <=> Media(S) = {}
             /\ ps # << >> =>
                  /\ ps[1] \in Media(S) /\ ps[Len(ps)] \in Media(S)
                  /\ \A q \in Media(S) : /\ Place(ps[1]) <= Place(q)
                                         /\ Place(q) <= Place(ps[Len(ps)])
<1> DEFINE ps == f.packets
           n  == Len(ps)
<1>1. MediaList(ps)
  BY AssembledList
<1>2. /\ n \in Nat
      /\ \A i \in 1 .. n : Place(ps[i]) \in Nat
      /\ \A i, j \in 1 .. n : i < j <=> Place(ps[i]) < Place(ps[j])
  BY <1>1, MediaListIs
<1>3. /\ \A i \in 1 .. n : ps[i] \in Media(S)
      /\ \A q \in Media(S) : \E i \in 1 .. n : ps[i] = q
  BY DEF Assembled, Holds
<1>4. CASE ps = << >>
  <2>1. 1 .. n = {}
    BY <1>4
  <2> QED
    BY <1>3, <1>4, <2>1
<1>5. CASE ps # << >>
  <2>1. 1 \in 1 .. n /\ n \in 1 .. n
    BY <1>1, <1>2, <1>5 DEF MediaList
  <2>2. ASSUME NEW i \in 1 .. n
        PROVE  Place(ps[1]) <= Place(ps[i]) /\ Place(ps[i]) <= Place(ps[n])
    <3>1. (i = 1 \/ 1 < i) /\ (i = n \/ i < n)
      BY <1>2
    <3>2. /\ Place(ps[i]) \in Nat /\ Place(ps[1]) \in Nat /\ Place(ps[n]) \in Nat
          /\ 1 < i <=> Place(ps[1]) < Place(ps[i])
          /\ i < n <=> Place(ps[i]) < Place(ps[n])
      BY <1>2, <2>1
    <3>3. (i = 1 => Place(ps[1]) = Place(ps[i])) /\ (i = n => Place(ps[i]) = Place(ps[n]))
      OBVIOUS
    <3> QED
      BY <3>1, <3>2, <3>3
  <2>3. \A q \in Media(S) : Place(ps[1]) <= Place(q) /\ Place(q) <= Place(ps[n])
    BY <1>3, <2>2
  <2> QED
    BY <1>3, <1>5, <2>1, <2>3
<1> QED
  BY <1>4, <1>5

\* GetHighSeqNum is the number of the newest packet that arrived.
LEMMA HighSeqIs ==
  ASSUME OneFrame, Fits, NEW f, NEW S, Assembled(f, S), S # {}
  PROVE  \E r \in S : r.seq = HighSeq(f) /\ \A q \in S : Place(q) <= Place(r)
<1> DEFINE ps   == f.packets
           back == ps[Len(ps)]
<1>1. /\ ps = << >> <=> Media(S) = {}
      /\ ps # << >> => back \in Media(S) /\ \A q \in Media(S) : Place(q) <= Place(back)
  BY MediaInList
<1>2. S \subseteq Stream /\ PaddingNoted(f, S)
  BY DEF Assembled
<1>3. \A q \in S : q \in Media(S) \/ q \in Padding(S)
  BY DEF Media, Padding
<1>4. \A q \in S : Place(q) \in Nat
  BY <1>2, PlaceOrder
<1>5. CASE Padding(S) = {}
  <2>1. ps # << >> /\ f.emptyHigh = NoSeq
    BY <1>1, <1>2, <1>3, <1>5 DEF PaddingNoted
  <2>2. HighSeq(f) = back.seq
    BY <2>1 DEF HighSeq
  <2> QED
    BY <1>1, <1>3, <1>5, <2>1, <2>2 DEF Media
<1>6. CASE Padding(S) # {}
  <2>1. PICK r \in Padding(S) : r.seq = f.emptyHigh
                                /\ \A q \in Padding(S) : Place(q) <= Place(r)
    BY <1>2, <1>6 DEF PaddingNoted
  <2>2. f.emptyHigh # NoSeq /\ r \in S
    BY <1>2, <1>6, <2>1 DEF PaddingNoted, Padding
  <2>3. CASE ps = << >>
    <3>1. HighSeq(f) = r.seq
      BY <2>1, <2>3 DEF HighSeq
    <3> QED
      BY <1>1, <1>3, <2>1, <2>2, <2>3, <3>1
  <2>4. CASE ps # << >>
    <3>1. HighSeq(f) = LatestSequenceNumber(back.seq, r.seq)
      BY <2>1, <2>2, <2>4 DEF HighSeq
    <3>2. back \in S
      BY <1>1, <2>4 DEF Media
    <3>3. IsNewerSequenceNumber(back.seq, r.seq) <=> Place(back) > Place(r)
      BY <1>2, <2>2, <3>2, PlaceOrder
    <3>4. Place(back) \in Nat /\ Place(r) \in Nat
      BY <1>4, <2>2, <3>2
    <3> HIDE DEF back
    <3>5. CASE Place(back) > Place(r)
      <4>1. HighSeq(f) = back.seq
        BY <3>1, <3>3, <3>5 DEF LatestSequenceNumber
      <4>2. \A q \in S : Place(q) <= Place(back)
        BY <1>1, <1>3, <1>4, <2>1, <2>4, <3>4, <3>5
      <4> QED
        BY <3>2, <4>1, <4>2
    <3>6. CASE ~(Place(back) > Place(r))
      <4>1. HighSeq(f) = r.seq
        BY <3>1, <3>3, <3>6 DEF LatestSequenceNumber
      <4>2. \A q \in S : Place(q) <= Place(r)
        BY <1>1, <1>3, <1>4, <2>1, <2>4, <3>4, <3>6
      <4> QED
        BY <2>2, <4>1, <4>2
    <3> QED
      BY <3>5, <3>6
  <2> QED
    BY <2>3, <2>4
<1> QED
  BY <1>5, <1>6

\* GetLowSeqNum is the number of the oldest media packet that arrived, or of the
\* oldest packet while there is only padding.
LEMMA LowSeqIs ==
  ASSUME OneFrame, Fits, NEW f, NEW S, Assembled(f, S), S # {},
         NEW low, low = IF Media(S) = {} THEN S ELSE Media(S)
  PROVE  \E r \in low : r.seq = LowSeq(f) /\ \A q \in low : Place(r) <= Place(q)
<1> DEFINE ps == f.packets
<1>1. /\ ps = << >> <=> Media(S) = {}
      /\ ps # << >> => ps[1] \in Media(S) /\ \A q \in Media(S) : Place(ps[1]) <= Place(q)
  BY MediaInList
<1>2. CASE ps = << >>
  <2>1. low = S /\ Padding(S) = S
    BY <1>1, <1>2 DEF Padding
  <2>2. PaddingNoted(f, S) /\ LowSeq(f) = f.emptyLow
    BY <1>2 DEF Assembled, LowSeq
  <2> QED
    BY <2>1, <2>2 DEF PaddingNoted
<1>3. CASE ps # << >>
  <2>1. low = Media(S) /\ LowSeq(f) = ps[1].seq
    BY <1>1, <1>3 DEF LowSeq
  <2> QED
    BY <1>1, <1>3, <2>1
<1> QED
  BY <1>2, <1>3

\* The invariant gives the order of the packets and the range of the frame.
LEMMA AssembledInOrder ==
  ASSUME OneFrame, Fits, AInv
  PROVE  PacketsInOrder
<1> DEFINE ps == frame.packets
<1>1. Assembled(frame, received) /\ received \subseteq Stream
  BY DEF AInv, Assembled
<1>2. MediaList(ps) /\ DOMAIN ps = 1 .. Len(ps)
  BY <1>1, AssembledList DEF MediaList
<1>3. \A i \in 1 .. Len(ps) : ps[i] \in received /\ ps[i] \in Stream
  BY <1>1 DEF Assembled, Media
<1>4. ASSUME NEW i \in 1 .. Len(ps), NEW j \in 1 .. Len(ps), i < j
      PROVE  IsNewerSequenceNumber(ps[j].seq, ps[i].seq)
  <2>1. Place(ps[i]) < Place(ps[j])
    BY <1>2, <1>4, MediaListIs
  <2>2. /\ Place(ps[i]) \in Nat /\ Place(ps[j]) \in Nat
        /\ IsNewerSequenceNumber(ps[j].seq, ps[i].seq) <=> Place(ps[j]) > Place(ps[i])
    BY <1>3, PlaceOrder
  <2> QED
    BY <2>1, <2>2
<1>5. \A q, r \in received : Place(q) <= Place(r) => ~IsNewerSequenceNumber(q.seq, r.seq)
  <2>1. ASSUME NEW q \in received, NEW r \in received, Place(q) <= Place(r)
        PROVE  ~IsNewerSequenceNumber(q.seq, r.seq)
    <3>1. /\ Place(q) \in Nat /\ Place(r) \in Nat
          /\ IsNewerSequenceNumber(q.seq, r.seq) <=> Place(q) > Place(r)
      BY <1>1, PlaceOrder
    <3> QED
      BY <2>1, <3>1
  <2> QED
    BY <2>1
<1>6. RangeIsReceived
  <2> SUFFICES ASSUME received # {}
               PROVE  LET seqs == {p.seq : p \in received}
                          low  == {p.seq : p \in IF Media(received) = {} THEN received
                                                               ELSE Media(received)}
                      IN  /\ HighSeq(frame) \in seqs
                          /\ \A s \in seqs : ~IsNewerSequenceNumber(s, HighSeq(frame))
                          /\ LowSeq(frame) \in low
                          /\ \A s \in low : ~IsNewerSequenceNumber(LowSeq(frame), s)
    BY DEF RangeIsReceived
  <2> DEFINE L == IF Media(received) = {} THEN received ELSE Media(received)
  <2>1. PICK r \in received : r.seq = HighSeq(frame)
                              /\ \A q \in received : Place(q) <= Place(r)
    BY <1>1, HighSeqIs
  <2>2. PICK t \in L : t.seq = LowSeq(frame) /\ \A q \in L : Place(t) <= Place(q)
    BY <1>1, LowSeqIs
  <2>3. L \subseteq received
    BY DEF Media
  <2> HIDE DEF L
  <2>4. \A q \in received : ~IsNewerSequenceNumber(q.seq, HighSeq(frame))
    BY <1>5, <2>1
  <2>5. \A q \in L : ~IsNewerSequenceNumber(LowSeq(frame), q.seq)
    BY <1>5, <2>2, <2>3
  <2> QED
    BY <2>1, <2>2, <2>4, <2>5 DEF L
<1> QED
  BY <1>2, <1>3, <1>4, <1>6 DEF PacketsInOrder

\* And what kStateComplete promises.
LEMMA AssembledComplete ==
  ASSUME OneFrame, AInv
  PROVE  CompleteHasAllPackets
<1> DEFINE ps == frame.packets
<1>1. Assembled(frame, received)
  BY DEF AInv
<1>2. ASSUME frame.state = "kStateComplete"
      PROVE  Media(Stream) \subseteq received
  <2>1. HoldsAll(ps)
    BY <1>1, <1>2 DEF Assembled
  <2>2. \A i \in 1 .. Len(ps) : ps[i] \in received
    BY <1>1 DEF Assembled, Media
  <2> QED
    BY <2>1, <2>2 DEF HoldsAll, Holds
<1>3. ASSUME Media(Stream) \subseteq received, Media(Stream) # {}, Fits
      PROVE  frame.complete
  <2>1. Media(received) = Media(Stream)
    BY <1>1, <1>3 DEF Assembled, Media
  <2>2. HoldsAll(ps)
    BY <1>1, <1>3, <2>1 DEF Assembled, HoldsAll
  <2>3. ps # << >>
    <3>1. PICK p \in Media(Stream) : TRUE
      BY <1>3
    <3>2. Holds(ps, p)
      BY <2>2 DEF HoldsAll
    <3>3. ps = << >> => 1 .. Len(ps) = {}
      OBVIOUS
    <3> QED
      BY <3>2, <3>3 DEF Holds
  <2> QED
    BY <1>1, <2>2, <2>3 DEF Assembled
<1> QED
  BY <1>2, <1>3 DEF CompleteHasAllPackets, Fits

-----------------------------------------------------------------------------
\* jitter_buffer_common.h: a frame in kStateComplete has all its packets, whatever
\* the order in which they arrived and however often; and a frame that has got them
\* all, if it takes as many, is complete.  UpdateCompleteSession decides it by the
\* two flags and the gaps alone.
THEOREM CompleteMeansAll ==
  ASSUME OneFrame
  PROVE  Spec => []CompleteHasAllPackets
<1>1. Init => AInv
  BY InitAssembled
<1>2. AInv /\ [Next]_vars => AInv'
  BY NextAssembled
<1>3. AInv => CompleteHasAllPackets
  BY AssembledComplete
<1> QED
  BY <1>1, <1>2, <1>3, PTL DEF Spec

\* VCMSessionInfo::InsertPacket keeps the packets of a frame in transmission order,
\* each once, and the range of sequence numbers that links the frame to its
\* neighbours is that of the packets that arrived, provided that the frame has no
\* more packets than a session takes.
THEOREM FrameStaysInOrder ==
  ASSUME OneFrame, Cardinality(Media(Stream)) <= kMaxPacketsInSession
  PROVE  Spec => []PacketsInOrder
<1>1. Init => AInv
  BY InitAssembled
<1>2. AInv /\ [Next]_vars => AInv'
  BY NextAssembled
<1>3. AInv => PacketsInOrder
  BY AssembledInOrder DEF Fits
<1> QED
  BY <1>1, <1>2, <1>3, PTL DEF Spec

\* VCMFrameBuffer::SetState asserts that a frame never goes back to an earlier
\* state: for a sender's frame the assertions hold, with either codec.
THEOREM FrameOnlyAdvances ==
  ASSUME OneFrame
  PROVE  Spec => StateOnlyAdvances
<1>1. Init => AInv
  BY InitAssembled
<1>2. AInv /\ [Next]_vars => AInv'
  BY NextAssembled
<1>3. AInv /\ [Next]_vars => [Rank(frame'.state) >= Rank(frame.state)]_vars
  BY NextAssembled
<1> QED
  BY <1>1, <1>2, <1>3, PTL DEF Spec, StateOnlyAdvances
=============================================================================
