------------------------- MODULE FrameBufferProofs -------------------------
(***************************************************************************)
(* What inserting a packet does to a frame buffer, for every frame and     *)
(* every packet: the result is a frame, under the packet's timestamp, that *)
(* has received a packet.                                                  *)
(***************************************************************************)
EXTENDS FrameBuffer, WellFoundedInduction, SequenceTheorems, TLAPS

Modes == {"kNoErrors", "kSelectiveErrors", "kWithErrors"}

Returns == {"kSizeError", "kDuplicatePacket", "kOutOfBoundsPacket",
            "kCompleteSession", "kDecodableSession", "kIncomplete"}

-----------------------------------------------------------------------------
\* LatestSequenceNumber picks one of its arguments.
LEMMA LatestIsEither ==
  ASSUME NEW a, NEW b
  PROVE  LatestSequenceNumber(a, b) \in {a, b}
BY DEF LatestSequenceNumber

\* uint16_t arithmetic stays within uint16_t.
LEMMA SeqArithmetic ==
  ASSUME NEW s \in SeqNums
  PROVE  NextSeq(s) \in SeqNums /\ PrevSeq(s) \in SeqNums
BY HalfAssumption DEF SeqNums, NextSeq, PrevSeq

-----------------------------------------------------------------------------
(* Sequence numbers within half a circle from a base.  There "newer" is an *)
(* order, the one of the distances from the base.                          *)
Pos(s, base) == Distance(s, base, SeqHalf)

InHalf(s, base) == Pos(s, base) < SeqHalf

\* Within half a circle, newer means further from the base.
LEMMA HalfOrder ==
  ASSUME NEW base \in SeqNums, NEW a \in SeqNums, NEW b \in SeqNums,
         InHalf(a, base), InHalf(b, base)
  PROVE  /\ Pos(a, base) \in Nat /\ Pos(b, base) \in Nat
         /\ IsNewerSequenceNumber(a, b) <=> Pos(a, base) > Pos(b, base)
         /\ Pos(a, base) = Pos(b, base) => a = b
         /\ Pos(a, base) >= Pos(b, base)
              => Distance(a, b, SeqHalf) = Pos(a, base) - Pos(b, base)
BY HalfAssumption
DEF SeqNums, InHalf, Pos, Distance, IsNewerSequenceNumber, IsNewer

-----------------------------------------------------------------------------
(* The reverse scan over the packets of a frame.                          *)
\* A nonempty set of natural numbers has a least element.
LEMMA LeastNumber ==
  ASSUME NEW T \in SUBSET Nat, T # {}
  PROVE  \E m \in T : \A k \in T : m <= k
<1> DEFINE Less == OpToRel(<, Nat)
<1>1. \E x \in T : \A y \in T : ~(<<y, x>> \in Less)
  <2> HIDE DEF Less
  <2>1. IsWellFoundedOn(Less, Nat)
    BY NatLessThanWellFounded DEF Less
  <2> QED
    BY <2>1, WFMin
<1>2. \A x, y \in Nat : ~(<<y, x>> \in Less) => x <= y
  BY DEF OpToRel
<1> HIDE DEF Less
<1> QED
  BY <1>1, <1>2

\* A nonempty set of indices has a greatest element.
LEMMA GreatestIndex ==
  ASSUME NEW n \in Nat, NEW S \in SUBSET (1 .. n), S # {}
  PROVE  \E i \in S : \A j \in S : j <= i
<1> DEFINE T == {k \in Nat : \E i \in S : k = n - i}
<1>1. T \in SUBSET Nat
  OBVIOUS
<1>2. PICK m \in T : \A k \in T : m <= k
  <2>1. PICK i \in S : TRUE
    OBVIOUS
  <2>2. n - i \in T
    OBVIOUS
  <2>3. T # {}
    BY <2>2
  <2> HIDE DEF T
  <2> QED
    BY <1>1, <2>3, LeastNumber
<1>3. PICK i \in S : m = n - i
  BY <1>2
<1>4. ASSUME NEW j \in S
      PROVE  j <= i
  <2>1. n - j \in T
    OBVIOUS
  <2>2. n - i <= n - j
    BY <1>2, <1>3, <2>1
  <2> QED
    BY <2>2
<1> QED
  BY <1>4

\* The reverse scan of the packet list ends at a position of the list.
LEMMA InsertPositionType ==
  ASSUME NEW f \in Frame, NEW seq \in SeqNums
  PROVE  InsertPosition(f, seq) \in 0 .. Len(f.packets)
<1> DEFINE n == Len(f.packets)
           older == {i \in 1 .. n :
                       LatestSequenceNumber(seq, f.packets[i].seq) = seq}
<1>1. n \in Nat
  BY DEF Frame
<1>2. InsertPosition(f, seq)
        = IF older = {} THEN 0 ELSE CHOOSE i \in older : \A j \in older : j <= i
  BY DEF InsertPosition
<1>3. CASE older = {}
  BY <1>1, <1>2, <1>3
<1>4. CASE older # {}
  <2>1. older \in SUBSET (1 .. n)
    OBVIOUS
  <2> HIDE DEF n, older
  <2>2. \E i \in older : \A j \in older : j <= i
    BY <1>1, <1>4, <2>1, GreatestIndex
  <2>3. InsertPosition(f, seq) \in older
    BY <1>2, <1>4, <2>2
  <2> QED
    BY <1>1, <2>3 DEF n, older
<1> QED
  BY <1>3, <1>4

-----------------------------------------------------------------------------
\* g is f with its session changed: same timestamp and state, and no less
\* packets than before.
Continues(f, g) ==
  /\ g \in Frame
  /\ g.ts = f.ts
  /\ g.state = f.state
  /\ HasPacket(f) => HasPacket(g)

\* InformOfEmptyPacket records a sequence number.
LEMMA InformOfEmptyPacketType ==
  ASSUME NEW f \in Frame, NEW seq \in SeqNums
  PROVE  /\ Continues(f, InformOfEmptyPacket(f, seq))
         /\ HasPacket(InformOfEmptyPacket(f, seq))
<1> DEFINE high == IF f.emptyHigh = NoSeq THEN seq
                   ELSE LatestSequenceNumber(seq, f.emptyHigh)
           low  == IF f.emptyLow = NoSeq
                        \/ IsNewerSequenceNumber(f.emptyLow, seq)
                     THEN seq ELSE f.emptyLow
<1>1. high \in SeqNums
  <2>1. f.emptyHigh \in SeqNums \cup {NoSeq}
    BY DEF Frame, MaybeSeq
  <2> QED
    BY <2>1, LatestIsEither
<1>2. low \in SeqNums
  BY DEF Frame, MaybeSeq
<1>3. InformOfEmptyPacket(f, seq) = [f EXCEPT !.emptyHigh = high,
                                              !.emptyLow = low]
  BY DEF InformOfEmptyPacket
<1>4. NoSeq \notin SeqNums
  BY DEF NoSeq, SeqNums
<1> HIDE DEF high, low
<1> QED
  BY <1>1, <1>2, <1>3, <1>4 DEF Continues, Frame, HasPacket, MaybeSeq

\* Tracking the boundaries of a frame touches neither its packets nor its state.
LEMMA TrackFirstType ==
  ASSUME NEW f \in Frame, NEW p \in PacketType
  PROVE  /\ Continues(f, TrackFirst(f, p))
         /\ TrackFirst(f, p).packets = f.packets
BY DEF TrackFirst, Continues, Frame, PacketType, MaybeSeq, HasPacket

\* The last-packet boundary likewise.
LEMMA TrackLastType ==
  ASSUME NEW f \in Frame, NEW p \in PacketType
  PROVE  /\ Continues(f, TrackLast(f, p))
         /\ TrackLast(f, p).packets = f.packets
BY DEF TrackLast, Continues, Frame, PacketType, MaybeSeq, HasPacket

\* So do the boundaries of an H.264 frame, which any packet may widen.
LEMMA TrackBoundariesH264Type ==
  ASSUME NEW f \in Frame, NEW p \in PacketType
  PROVE  /\ Continues(f, TrackBoundariesH264(f, p))
         /\ TrackBoundariesH264(f, p).packets = f.packets
<1> DEFINE first == IF p.first /\ (f.first = NoSeq
                                    \/ IsNewerSequenceNumber(f.first, p.seq))
                      THEN p.seq ELSE f.first
           last  == IF p.marker /\ (f.last = NoSeq
                                    \/ IsNewerSequenceNumber(p.seq, f.last))
                      THEN p.seq ELSE f.last
<1>1. first \in MaybeSeq /\ last \in MaybeSeq
  BY DEF Frame, PacketType, MaybeSeq
<1>2. TrackBoundariesH264(f, p) = [f EXCEPT !.type = p.type, !.first = first,
                                            !.last = last]
  BY DEF TrackBoundariesH264
<1> HIDE DEF first, last
<1> QED
  BY <1>1, <1>2 DEF Continues, Frame, PacketType, HasPacket

\* And so the boundaries of a frame of either codec.
LEMMA TrackBoundariesType ==
  ASSUME NEW f \in Frame, NEW p \in PacketType
  PROVE  Continues(f, TrackBoundaries(f, p))
<1>1. CASE Codec = "H264"
  BY <1>1, TrackBoundariesH264Type DEF TrackBoundaries
<1>2. CASE Codec # "H264"
  <2>1. Continues(f, TrackFirst(f, p))
    BY TrackFirstType
  <2>2. Continues(TrackFirst(f, p), TrackLast(TrackFirst(f, p), p))
    BY <2>1, TrackLastType DEF Continues
  <2> QED
    BY <1>2, <2>1, <2>2 DEF TrackBoundaries, Continues
<1> QED
  BY <1>1, <1>2

-----------------------------------------------------------------------------
\* Updating the flags of a session.
LEMMA UpdateCompleteSessionType ==
  ASSUME NEW f \in Frame
  PROVE  /\ Continues(f, UpdateCompleteSession(f))
         /\ UpdateCompleteSession(f).packets = f.packets
<1> DEFINE c == IF HaveFirstPacket(f) /\ HaveLastPacket(f)
                  THEN InSequence(f) ELSE f.complete
<1>1. c \in BOOLEAN
  BY DEF Frame, InSequence
<1>2. UpdateCompleteSession(f) = [f EXCEPT !.complete = c]
  BY DEF UpdateCompleteSession
<1> HIDE DEF c
<1> QED
  BY <1>1, <1>2 DEF Continues, Frame, HasPacket

\* The decodable flag is the only thing UpdateDecodableSession changes.
LEMMA UpdateDecodableSessionType ==
  ASSUME NEW f \in Frame, NEW mode \in Modes
  PROVE  /\ Continues(f, UpdateDecodableSession(f, mode))
         /\ UpdateDecodableSession(f, mode).packets = f.packets
<1> DEFINE enough == /\ f.type # "key"
                     /\ HaveFirstPacket(f)
                     /\ Len(f.packets) \in DecodablePacketCounts
           d == CASE mode = "kWithErrors"      -> TRUE
                  [] mode = "kSelectiveErrors" ->
                       f.decodable \/ (~f.complete /\ enough)
                  [] mode = "kNoErrors"        -> f.decodable
<1>1. d \in BOOLEAN
  <2>1. f.decodable \in BOOLEAN
    BY DEF Frame
  <2>2. (f.decodable \/ (~f.complete /\ enough)) \in BOOLEAN
    OBVIOUS
  <2> HIDE DEF enough
  <2> QED
    BY <2>1, <2>2 DEF Modes
<1>2. UpdateDecodableSession(f, mode) = [f EXCEPT !.decodable = d]
  BY DEF UpdateDecodableSession
<1> HIDE DEF d
<1> QED
  BY <1>1, <1>2 DEF Continues, Frame, HasPacket

\* Storing a media packet leaves a frame with packets.
LEMMA StorePacketType ==
  ASSUME NEW f \in Frame, NEW p \in PacketType, NEW mode \in Modes
  PROVE  /\ Continues(f, StorePacket(f, p, mode))
         /\ HasPacket(StorePacket(f, p, mode))
<1> DEFINE i  == InsertPosition(f, p.seq)
           ps == SubSeq(f.packets, 1, i) \o <<p>>
                   \o SubSeq(f.packets, i + 1, Len(f.packets))
           g  == [f EXCEPT !.packets = ps]
<1>1. i \in 0 .. Len(f.packets)
  <2>1. p.seq \in SeqNums
    BY DEF PacketType
  <2> QED
    BY <2>1, InsertPositionType
<1>2. ps \in Seq(PacketType) /\ ps # << >>
  <2> HIDE DEF i
  <2>1. f.packets \in Seq(PacketType) /\ Len(f.packets) \in Nat
    BY DEF Frame
  <2>2. SubSeq(f.packets, 1, i) \in Seq(PacketType)
    BY <1>1, <2>1
  <2>3. SubSeq(f.packets, i + 1, Len(f.packets)) \in Seq(PacketType)
    BY <1>1, <2>1
  <2>4. SubSeq(f.packets, 1, i) \o <<p>> \in Seq(PacketType) \ {<< >>}
    BY <2>2
  <2> QED
    BY <2>3, <2>4
<1>3. StorePacket(f, p, mode)
        = UpdateDecodableSession(UpdateCompleteSession(g), mode)
  BY DEF StorePacket
<1> HIDE DEF i, ps
<1>4. Continues(f, g) /\ g.packets = ps
  BY <1>2 DEF Continues, Frame, HasPacket
<1>5. Continues(g, UpdateCompleteSession(g))
       /\ UpdateCompleteSession(g).packets = ps
  BY <1>4, UpdateCompleteSessionType DEF Continues
<1> HIDE DEF g
<1> DEFINE h == UpdateCompleteSession(g)
<1>6. Continues(h, UpdateDecodableSession(h, mode))
       /\ UpdateDecodableSession(h, mode).packets = ps
  BY <1>5, UpdateDecodableSessionType DEF Continues
<1> HIDE DEF h
<1> QED
  BY <1>2, <1>3, <1>4, <1>5, <1>6 DEF Continues, HasPacket, h

-----------------------------------------------------------------------------
EmptySession(f) == f.packets = << >> /\ f.first = NoSeq /\ f.last = NoSeq

\* VCMSessionInfo::InsertPacket on a frame that is open.  An empty session
\* refuses no packet, so a packet has been received in any case.
LEMMA SessionInsertPacketType ==
  ASSUME NEW f \in Frame, NEW p \in PacketType, NEW mode \in Modes
  PROVE  LET g == SessionInsertPacket(f, p, mode)
         IN  /\ Continues(f, g)
             /\ HasPacket(f) \/ EmptySession(f) => HasPacket(g)
<1> DEFINE err == SessionError(f, p)
           g   == SessionInsertPacket(f, p, mode)
<1>1. CASE p.type = "empty"
  <2>1. g = InformOfEmptyPacket(f, p.seq)
    BY <1>1 DEF SessionInsertPacket, SessionError
  <2>2. p.seq \in SeqNums
    BY DEF PacketType
  <2> QED
    BY <2>1, <2>2, InformOfEmptyPacketType
<1>2. CASE p.type # "empty" /\ err = "none"
  <2>1. g = StorePacket(TrackBoundaries(f, p), p, mode)
    BY <1>2 DEF SessionInsertPacket
  <2> DEFINE h == TrackBoundaries(f, p)
  <2>2. Continues(f, h)
    BY TrackBoundariesType
  <2> HIDE DEF h
  <2>3. Continues(h, StorePacket(h, p, mode))
         /\ HasPacket(StorePacket(h, p, mode))
    BY <2>2, StorePacketType DEF Continues
  <2> QED
    BY <2>1, <2>2, <2>3 DEF Continues, h
<1>3. CASE p.type # "empty" /\ err # "none"
  <2>1. err \in {"kSizeError", "kDuplicatePacket", "kOutOfBoundsPacket"}
    BY <1>3 DEF SessionError
  <2>2. ~EmptySession(f)
    <3> SUFFICES ASSUME f.packets = << >>, f.first = NoSeq, f.last = NoSeq
                 PROVE  FALSE
      BY DEF EmptySession
    <3>1. Len(f.packets) = 0
      OBVIOUS
    <3>2. InsertPosition(f, p.seq) = 0
      BY <3>1 DEF InsertPosition
    <3>3. ~IsDuplicate(f, p)
      BY <3>2 DEF IsDuplicate
    <3>4. ~OutOfBounds(f, p)
      BY DEF OutOfBounds
    <3>5. Len(f.packets) # kMaxPacketsInSession
      BY <3>1, StreamAssumption
    <3> QED
      BY <1>3, <3>3, <3>4, <3>5 DEF SessionError
  <2>3. g = IF err = "kOutOfBoundsPacket" THEN TrackFirst(f, p) ELSE f
    BY <1>3, <2>1 DEF SessionInsertPacket
  <2>4. Continues(f, g)
    BY <2>3, TrackFirstType DEF Continues
  <2> QED
    BY <2>2, <2>4 DEF Continues
<1> QED
  BY <1>1, <1>2, <1>3

\* VCMFrameBuffer::InsertPacket, on a buffer fresh from Reset or on the buffer
\* that has the packet's timestamp.
LEMMA FrameInsertPacketType ==
  ASSUME NEW f \in Frame, NEW p \in PacketType, NEW mode \in Modes,
         f = ResetFrame \/ (f.ts = p.ts /\ HasPacket(f))
  PROVE  LET r == FrameInsertPacket(f, p, mode)
         IN  /\ r.frame \in Frame
             /\ r.frame.ts = p.ts
             /\ HasPacket(r.frame)
             /\ r.ret \in Returns
<1> DEFINE open == OpenFrame(f, p)
           err  == SessionError(open, p)
           g    == SessionInsertPacket(open, p, mode)
           r    == FrameInsertPacket(f, p, mode)
<1>1. /\ open \in Frame
      /\ open.ts = p.ts
      /\ HasPacket(open) \/ EmptySession(open)
  <2>1. CASE f.state # "kStateEmpty"
    BY <2>1 DEF OpenFrame, ResetFrame, HasPacket
  <2>2. CASE f.state = "kStateEmpty"
    <3> DEFINE st == IF p.type = "empty" THEN f.state ELSE "kStateIncomplete"
    <3>1. open = [f EXCEPT !.ts = p.ts, !.state = st]
      BY <2>2 DEF OpenFrame
    <3>2. st \in States
      BY DEF Frame, States
    <3> HIDE DEF st, open
    <3>3. open \in Frame /\ open.ts = p.ts
      BY <3>1, <3>2 DEF Frame, PacketType
    <3>4. /\ open.packets = f.packets
          /\ open.first = f.first /\ open.last = f.last
          /\ open.emptyLow = f.emptyLow /\ open.emptyHigh = f.emptyHigh
      BY <3>1 DEF Frame
    <3>5. CASE f = ResetFrame
      BY <3>3, <3>4, <3>5 DEF ResetFrame, EmptySession
    <3>6. CASE HasPacket(f)
      BY <3>3, <3>4, <3>6 DEF HasPacket
    <3> QED
      BY <3>5, <3>6
  <2> QED
    BY <2>1, <2>2
<1>2. Continues(open, g) /\ HasPacket(g)
  <2> HIDE DEF open
  <2>1. open \in Frame
    BY <1>1
  <2>2. LET h == SessionInsertPacket(open, p, mode)
        IN  /\ Continues(open, h)
            /\ HasPacket(open) \/ EmptySession(open) => HasPacket(h)
    BY <2>1, SessionInsertPacketType, Zenon
  <2> QED
    BY <1>1, <2>2
<1>3. err \in {"none", "kSizeError", "kDuplicatePacket", "kOutOfBoundsPacket"}
  BY DEF SessionError
<1>4. r = IF err # "none" THEN [frame |-> g, ret |-> err]
          ELSE IF g.complete
            THEN [frame |-> [g EXCEPT !.state = "kStateComplete"],
                  ret |-> "kCompleteSession"]
          ELSE IF g.decodable
            THEN [frame |-> [g EXCEPT !.state = "kStateDecodable"],
                  ret |-> "kDecodableSession"]
          ELSE [frame |-> g, ret |-> "kIncomplete"]
  BY DEF FrameInsertPacket
<1> HIDE DEF err, g, open, r
<1>5. ASSUME NEW st \in States
      PROVE  LET h == [g EXCEPT !.state = st]
             IN  h \in Frame /\ h.ts = p.ts /\ HasPacket(h)
  BY <1>1, <1>2 DEF Continues, Frame, HasPacket
<1>6. g \in Frame /\ g.ts = p.ts /\ HasPacket(g)
  BY <1>1, <1>2 DEF Continues
<1>7. {"kStateComplete", "kStateDecodable"} \subseteq States
  BY DEF States
<1> QED
  BY <1>3, <1>4, <1>5, <1>6, <1>7 DEF Returns, r

-----------------------------------------------------------------------------
(* Which sequence numbers a frame knows of.                                *)
\* The packets a frame holds, and with them the highest packet without payload.
PacketSeqs(f) == {f.packets[i].seq : i \in 1 .. Len(f.packets)}

SeqsOf(f) == PacketSeqs(f) \cup ({f.emptyHigh} \ {NoSeq})

\* The packets of a frame have sequence numbers.
LEMMA PacketSeqsType ==
  ASSUME NEW f \in Frame
  PROVE  PacketSeqs(f) \subseteq SeqNums
<1>1. f.packets \in Seq(PacketType)
  BY DEF Frame
<1>2. \A i \in 1 .. Len(f.packets) : f.packets[i] \in PacketType
  BY <1>1
<1>3. \A q \in PacketType : q.seq \in SeqNums
  BY DEF PacketType
<1> QED
  BY <1>2, <1>3 DEF PacketSeqs

\* The highest sequence number of a frame is one of those it knows of.
LEMMA HighSeqIsKnown ==
  ASSUME NEW f \in Frame, HasPacket(f)
  PROVE  HighSeq(f) \in SeqsOf(f)
<1>1. CASE f.packets = << >>
  BY <1>1 DEF HighSeq, HasPacket, SeqsOf
<1>2. CASE f.packets # << >>
  <2> DEFINE back == f.packets[Len(f.packets)].seq
  <2>1. f.packets \in Seq(PacketType)
    BY DEF Frame
  <2>2. Len(f.packets) \in 1 .. Len(f.packets)
    BY <1>2, <2>1
  <2>3. back \in PacketSeqs(f)
    BY <2>2 DEF PacketSeqs
  <2>4. HighSeq(f) = back \/ (f.emptyHigh # NoSeq /\ HighSeq(f) \in {back, f.emptyHigh})
    BY <1>2, LatestIsEither DEF HighSeq
  <2> QED
    BY <2>3, <2>4 DEF SeqsOf
<1> QED
  BY <1>1, <1>2

\* A list and what putting an element into it between two others gives.
Inserted(ps, i, p, new) ==
  /\ new \in Seq(PacketType)
  /\ Len(new) = Len(ps) + 1
  /\ \A j \in 1 .. i : new[j] = ps[j]
  /\ new[i + 1] = p
  /\ \A j \in (i + 2) .. (Len(ps) + 1) : new[j] = ps[j - 1]

\* The list StorePacket makes.
LEMMA InsertedIs ==
  ASSUME NEW ps \in Seq(PacketType), NEW p \in PacketType, NEW i \in 0 .. Len(ps)
  PROVE  Inserted(ps, i, p, SubSeq(ps, 1, i) \o <<p>> \o SubSeq(ps, i + 1, Len(ps)))
<1> DEFINE front == SubSeq(ps, 1, i)
           back  == SubSeq(ps, i + 1, Len(ps))
           n     == Len(ps)
<1>1. n \in Nat /\ i \in Nat /\ i <= n
  OBVIOUS
<1>2. /\ front \in Seq(PacketType) /\ Len(front) = i
      /\ \A j \in 1 .. i : front[j] = ps[j]
  OBVIOUS
<1>3. /\ back \in Seq(PacketType) /\ Len(back) = n - i
      /\ \A j \in 1 .. (n - i) : back[j] = ps[i + j]
  OBVIOUS
<1> HIDE DEF front, back
<1> DEFINE fp == front \o <<p>>
<1>4. /\ fp \in Seq(PacketType) /\ Len(fp) = i + 1
      /\ \A j \in 1 .. i : fp[j] = front[j]
      /\ fp[i + 1] = p
  BY <1>1, <1>2
<1> HIDE DEF fp, n
<1> DEFINE new == fp \o back
<1>5. /\ new \in Seq(PacketType) /\ Len(new) = Len(fp) + Len(back)
      /\ \A j \in 1 .. (Len(fp) + Len(back)) :
           new[j] = IF j <= Len(fp) THEN fp[j] ELSE back[j - Len(fp)]
  <2>1. fp \in Seq(PacketType) /\ back \in Seq(PacketType)
    BY <1>3, <1>4
  <2> QED
    BY <2>1
<1> HIDE DEF new
<1>6. Len(fp) + Len(back) = n + 1
  BY <1>1, <1>3, <1>4
<1>7. \A j \in 1 .. (n + 1) : new[j] = IF j <= i + 1 THEN fp[j] ELSE back[j - (i + 1)]
  BY <1>4, <1>5, <1>6
<1>8. ASSUME NEW j \in 1 .. i
      PROVE  new[j] = ps[j]
  <2>1. j \in 1 .. (n + 1) /\ j <= i + 1
    BY <1>1
  <2> QED
    BY <1>2, <1>4, <1>7, <2>1
<1>9. new[i + 1] = p
  <2>1. i + 1 \in 1 .. (n + 1) /\ i + 1 <= i + 1
    BY <1>1
  <2> QED
    BY <1>4, <1>7, <2>1
<1>10. ASSUME NEW j \in (i + 2) .. (n + 1)
       PROVE  new[j] = ps[j - 1]
  <2>1. /\ j \in 1 .. (n + 1) /\ ~(j <= i + 1)
        /\ j - (i + 1) \in 1 .. (n - i) /\ i + (j - (i + 1)) = j - 1
    BY <1>1
  <2>2. new[j] = back[j - (i + 1)]
    BY <1>7, <2>1
  <2>3. back[j - (i + 1)] = ps[i + (j - (i + 1))]
    BY <1>3, <2>1
  <2> QED
    BY <2>1, <2>2, <2>3
<1> QED
  BY <1>5, <1>6, <1>8, <1>9, <1>10 DEF Inserted, n, new, fp, front, back

\* Storing a packet adds it to the list.
LEMMA StorePacketSeqs ==
  ASSUME NEW f \in Frame, NEW p \in PacketType, NEW mode \in Modes
  PROVE  LET g == StorePacket(f, p, mode)
         IN  PacketSeqs(g) \subseteq PacketSeqs(f) \cup {p.seq} /\ g.emptyHigh = f.emptyHigh
<1> DEFINE i  == InsertPosition(f, p.seq)
           ps == SubSeq(f.packets, 1, i) \o <<p>>
                   \o SubSeq(f.packets, i + 1, Len(f.packets))
           g  == [f EXCEPT !.packets = ps]
           h  == UpdateCompleteSession(g)
           k  == UpdateDecodableSession(h, mode)
<1>1. i \in 0 .. Len(f.packets)
  <2>1. p.seq \in SeqNums
    BY DEF PacketType
  <2> QED
    BY <2>1, InsertPositionType
<1>2. f.packets \in Seq(PacketType) /\ Len(f.packets) \in Nat
  BY DEF Frame
<1>3. StorePacket(f, p, mode) = k
  BY DEF StorePacket
<1> HIDE DEF i
<1>4. ps \in Seq(PacketType)
      /\ \A j \in 1 .. Len(ps) : ps[j] = p \/ \E l \in 1 .. Len(f.packets) : ps[j] = f.packets[l]
  <2>1. Inserted(f.packets, i, p, ps)
    BY <1>1, <1>2, InsertedIs
  <2> HIDE DEF ps
  <2> DEFINE n == Len(f.packets)
  <2>2. /\ ps \in Seq(PacketType) /\ Len(ps) = n + 1
        /\ \A j \in 1 .. i : ps[j] = f.packets[j]
        /\ ps[i + 1] = p
        /\ \A j \in (i + 2) .. (n + 1) : ps[j] = f.packets[j - 1]
    BY <2>1 DEF Inserted
  <2>3. n \in Nat /\ i \in 0 .. n
    BY <1>1, <1>2
  <2> HIDE DEF n
  <2>4. ASSUME NEW j \in 1 .. (n + 1)
        PROVE  ps[j] = p \/ \E l \in 1 .. n : ps[j] = f.packets[l]
    <3>1. \/ j \in 1 .. i /\ j \in 1 .. n
          \/ j = i + 1
          \/ j \in (i + 2) .. (n + 1) /\ j - 1 \in 1 .. n
      BY <2>3
    <3> QED
      BY <2>2, <3>1
  <2> QED
    BY <2>2, <2>4 DEF n
<1> HIDE DEF ps
<1>5. g \in Frame /\ g.packets = ps /\ g.emptyHigh = f.emptyHigh
  BY <1>4 DEF Frame
<1>6. h \in Frame /\ h.packets = ps /\ h.emptyHigh = f.emptyHigh
  <2>1. h \in Frame /\ h.packets = g.packets
    BY <1>5, UpdateCompleteSessionType DEF Continues
  <2>2. h.emptyHigh = g.emptyHigh
    BY <1>5 DEF UpdateCompleteSession, Frame
  <2> QED
    BY <1>5, <2>1, <2>2
<1> HIDE DEF g, h
<1>7. k.packets = ps /\ k.emptyHigh = f.emptyHigh
  <2>1. k.packets = h.packets
    BY <1>6, UpdateDecodableSessionType
  <2>2. k.emptyHigh = h.emptyHigh
    BY <1>6 DEF UpdateDecodableSession, Frame
  <2> QED
    BY <1>6, <2>1, <2>2
<1> HIDE DEF k
<1>8. PacketSeqs(k) \subseteq PacketSeqs(f) \cup {p.seq}
  BY <1>4, <1>7 DEF PacketSeqs
<1> QED
  BY <1>3, <1>7, <1>8

\* Tracking the boundaries of a frame adds no packet.
LEMMA TrackBoundariesSeqs ==
  ASSUME NEW f \in Frame, NEW p \in PacketType
  PROVE  /\ TrackFirst(f, p).packets = f.packets /\ TrackFirst(f, p).emptyHigh = f.emptyHigh
         /\ TrackBoundaries(f, p).packets = f.packets
         /\ TrackBoundaries(f, p).emptyHigh = f.emptyHigh
<1>1. ASSUME NEW g \in Frame
      PROVE  /\ TrackFirst(g, p).packets = g.packets /\ TrackFirst(g, p).emptyHigh = g.emptyHigh
             /\ TrackLast(g, p).packets = g.packets /\ TrackLast(g, p).emptyHigh = g.emptyHigh
  BY DEF TrackFirst, TrackLast, Frame
<1>2. TrackFirst(f, p) \in Frame
  BY TrackFirstType DEF Continues
<1>3. CASE Codec = "H264"
  BY <1>1, <1>3 DEF TrackBoundaries, TrackBoundariesH264, Frame
<1>4. CASE Codec # "H264"
  BY <1>1, <1>2, <1>4 DEF TrackBoundaries
<1> QED
  BY <1>1, <1>3, <1>4

\* VCMSessionInfo::InsertPacket: a session comes to know of no other packet than
\* the one inserted, and of none that it refuses.
LEMMA SessionInsertPacketSeqs ==
  ASSUME NEW f \in Frame, NEW p \in PacketType, NEW mode \in Modes
  PROVE  LET g == SessionInsertPacket(f, p, mode)
         IN  /\ PacketSeqs(g) \subseteq PacketSeqs(f) \cup {p.seq}
             /\ SeqsOf(g) \subseteq SeqsOf(f) \cup {p.seq}
             /\ SessionError(f, p) # "none" =>
                  PacketSeqs(g) \subseteq PacketSeqs(f) /\ SeqsOf(g) \subseteq SeqsOf(f)
<1> DEFINE err == SessionError(f, p)
           g   == SessionInsertPacket(f, p, mode)
<1>1. CASE p.type = "empty"
  <2>1. g = InformOfEmptyPacket(f, p.seq) /\ err = "none"
    BY <1>1 DEF SessionInsertPacket, SessionError
  <2>2. g.packets = f.packets
    BY <2>1 DEF InformOfEmptyPacket, Frame
  <2>3. g.emptyHigh = p.seq \/ (f.emptyHigh # NoSeq /\ g.emptyHigh \in {p.seq, f.emptyHigh})
    <3> DEFINE high == IF f.emptyHigh = NoSeq THEN p.seq
                       ELSE LatestSequenceNumber(p.seq, f.emptyHigh)
    <3>1. g.emptyHigh = high
      BY <2>1 DEF InformOfEmptyPacket, Frame
    <3> QED
      BY <3>1, LatestIsEither
  <2> QED
    BY <2>1, <2>2, <2>3 DEF PacketSeqs, SeqsOf
<1>2. CASE p.type # "empty" /\ err = "none"
  <2> DEFINE h == TrackBoundaries(f, p)
  <2>1. g = StorePacket(h, p, mode)
    BY <1>2 DEF SessionInsertPacket
  <2>2. h \in Frame /\ h.packets = f.packets /\ h.emptyHigh = f.emptyHigh
    BY TrackBoundariesType, TrackBoundariesSeqs DEF Continues
  <2> HIDE DEF h
  <2>3. PacketSeqs(g) \subseteq PacketSeqs(h) \cup {p.seq} /\ g.emptyHigh = h.emptyHigh
    BY <2>1, <2>2, StorePacketSeqs
  <2>4. PacketSeqs(h) = PacketSeqs(f)
    BY <2>2 DEF PacketSeqs
  <2> HIDE DEF g
  <2> QED
    BY <1>2, <2>2, <2>3, <2>4 DEF SeqsOf, g
<1>3. CASE p.type # "empty" /\ err # "none"
  <2>1. err \in {"kSizeError", "kDuplicatePacket", "kOutOfBoundsPacket"}
    BY <1>3 DEF SessionError
  <2>2. g = IF err = "kOutOfBoundsPacket" THEN TrackFirst(f, p) ELSE f
    BY <1>3, <2>1 DEF SessionInsertPacket
  <2>3. g.packets = f.packets /\ g.emptyHigh = f.emptyHigh
    BY <2>2, TrackBoundariesSeqs
  <2> HIDE DEF g
  <2> QED
    BY <2>3 DEF PacketSeqs, SeqsOf, g
<1> QED
  BY <1>1, <1>2, <1>3

\* VCMFrameBuffer::InsertPacket likewise; of a packet that is refused for its place
\* or for want of room the frame keeps nothing.
LEMMA FrameInsertPacketSeqs ==
  ASSUME NEW f \in Frame, NEW p \in PacketType, NEW mode \in Modes
  PROVE  LET r == FrameInsertPacket(f, p, mode)
         IN  /\ PacketSeqs(r.frame) \subseteq PacketSeqs(f) \cup {p.seq}
             /\ SeqsOf(r.frame) \subseteq SeqsOf(f) \cup {p.seq}
             /\ r.ret \in {"kSizeError", "kOutOfBoundsPacket"} =>
                  PacketSeqs(r.frame) \subseteq PacketSeqs(f)
                    /\ SeqsOf(r.frame) \subseteq SeqsOf(f)
<1> DEFINE open == OpenFrame(f, p)
           err  == SessionError(open, p)
           g    == SessionInsertPacket(open, p, mode)
           r    == FrameInsertPacket(f, p, mode)
<1>1. open \in Frame /\ open.packets = f.packets /\ open.emptyHigh = f.emptyHigh
  <2>1. CASE f.state # "kStateEmpty"
    BY <2>1 DEF OpenFrame
  <2>2. CASE f.state = "kStateEmpty"
    <3> DEFINE st == IF p.type = "empty" THEN f.state ELSE "kStateIncomplete"
    <3>1. open = [f EXCEPT !.ts = p.ts, !.state = st]
      BY <2>2 DEF OpenFrame
    <3>2. st \in States
      BY DEF Frame, States
    <3> HIDE DEF st, open
    <3> QED
      BY <3>1, <3>2 DEF Frame, PacketType
  <2> QED
    BY <2>1, <2>2
<1>2. PacketSeqs(open) = PacketSeqs(f) /\ SeqsOf(open) = SeqsOf(f)
  BY <1>1 DEF PacketSeqs, SeqsOf
<1>3. r = IF err # "none" THEN [frame |-> g, ret |-> err]
          ELSE IF g.complete
            THEN [frame |-> [g EXCEPT !.state = "kStateComplete"],
                  ret |-> "kCompleteSession"]
          ELSE IF g.decodable
            THEN [frame |-> [g EXCEPT !.state = "kStateDecodable"],
                  ret |-> "kDecodableSession"]
          ELSE [frame |-> g, ret |-> "kIncomplete"]
  BY DEF FrameInsertPacket
<1> HIDE DEF open
<1>4. /\ g \in Frame
      /\ PacketSeqs(g) \subseteq PacketSeqs(f) \cup {p.seq}
      /\ SeqsOf(g) \subseteq SeqsOf(f) \cup {p.seq}
      /\ err # "none" => PacketSeqs(g) \subseteq PacketSeqs(f) /\ SeqsOf(g) \subseteq SeqsOf(f)
  <2>1. g \in Frame
    BY <1>1, SessionInsertPacketType DEF Continues
  <2> QED
    BY <1>1, <1>2, <2>1, SessionInsertPacketSeqs
<1> HIDE DEF g, err, r
<1>5. r.frame.packets = g.packets /\ r.frame.emptyHigh = g.emptyHigh
      /\ (r.ret \in {"kSizeError", "kOutOfBoundsPacket"} => err # "none")
  BY <1>3, <1>4 DEF Frame
<1>6. PacketSeqs(r.frame) = PacketSeqs(g) /\ SeqsOf(r.frame) = SeqsOf(g)
  BY <1>5 DEF PacketSeqs, SeqsOf
<1> QED
  BY <1>4, <1>5, <1>6 DEF r

\* Storing a media packet and tracking the boundaries leave the packets without
\* payload alone.
LEMMA MediaKeepsEmptyLow ==
  ASSUME NEW f \in Frame, NEW p \in PacketType, NEW mode \in Modes
  PROVE  /\ TrackFirst(f, p).emptyLow = f.emptyLow
         /\ TrackBoundaries(f, p).emptyLow = f.emptyLow
         /\ StorePacket(f, p, mode).emptyLow = f.emptyLow
<1>1. ASSUME NEW g \in Frame
      PROVE  /\ TrackFirst(g, p).emptyLow = g.emptyLow
             /\ TrackLast(g, p).emptyLow = g.emptyLow
  BY DEF TrackFirst, TrackLast, Frame
<1>2. TrackFirst(f, p) \in Frame
  BY TrackFirstType DEF Continues
<1>3. TrackBoundaries(f, p).emptyLow = f.emptyLow
  <2>1. CASE Codec = "H264"
    BY <2>1 DEF TrackBoundaries, TrackBoundariesH264, Frame
  <2>2. CASE Codec # "H264"
    BY <1>1, <1>2, <2>2 DEF TrackBoundaries
  <2> QED
    BY <2>1, <2>2
<1>4. StorePacket(f, p, mode).emptyLow = f.emptyLow
  <2> DEFINE i  == InsertPosition(f, p.seq)
             ps == SubSeq(f.packets, 1, i) \o <<p>>
                     \o SubSeq(f.packets, i + 1, Len(f.packets))
             g  == [f EXCEPT !.packets = ps]
             h  == UpdateCompleteSession(g)
  <2>1. StorePacket(f, p, mode) = UpdateDecodableSession(h, mode)
    BY DEF StorePacket
  <2> HIDE DEF ps
  <2>2. g.emptyLow = f.emptyLow /\ DOMAIN g = DOMAIN f
    BY DEF Frame
  <2>3. "emptyLow" \in DOMAIN f
    BY DEF Frame
  <2> HIDE DEF g
  <2>4. h.emptyLow = g.emptyLow /\ DOMAIN h = DOMAIN g
    BY <2>2, <2>3 DEF UpdateCompleteSession
  <2> HIDE DEF h
  <2>5. UpdateDecodableSession(h, mode).emptyLow = h.emptyLow
    BY <2>2, <2>3, <2>4 DEF UpdateDecodableSession
  <2> QED
    BY <2>1, <2>2, <2>4, <2>5
<1> QED
  BY <1>1, <1>3, <1>4

\* VCMSessionInfo::InsertPacket and the packets without payload: the lowest of
\* them, and what a session without media keeps.
LEMMA SessionInsertPacketEmpty ==
  ASSUME NEW f \in Frame, NEW p \in PacketType, NEW mode \in Modes
  PROVE  LET g == SessionInsertPacket(f, p, mode)
         IN  /\ g.emptyLow \in {f.emptyLow, p.seq}
             /\ p.type = "empty" => g.packets = f.packets /\ g.type = f.type
<1> DEFINE err == SessionError(f, p)
           g   == SessionInsertPacket(f, p, mode)
<1>1. CASE p.type = "empty"
  <2>1. g = InformOfEmptyPacket(f, p.seq)
    BY <1>1 DEF SessionInsertPacket, SessionError
  <2> DEFINE low  == IF f.emptyLow = NoSeq
                          \/ IsNewerSequenceNumber(f.emptyLow, p.seq)
                       THEN p.seq ELSE f.emptyLow
             high == IF f.emptyHigh = NoSeq THEN p.seq
                     ELSE LatestSequenceNumber(p.seq, f.emptyHigh)
  <2>2. g = [f EXCEPT !.emptyHigh = high, !.emptyLow = low]
    BY <2>1 DEF InformOfEmptyPacket
  <2>3. low \in {f.emptyLow, p.seq}
    OBVIOUS
  <2> HIDE DEF low, high, g
  <2> QED
    BY <1>1, <2>2, <2>3 DEF Frame, g
<1>2. CASE p.type # "empty" /\ err = "none"
  <2> DEFINE h == TrackBoundaries(f, p)
  <2>1. g = StorePacket(h, p, mode)
    BY <1>2 DEF SessionInsertPacket
  <2>2. h \in Frame /\ h.emptyLow = f.emptyLow
    BY TrackBoundariesType, MediaKeepsEmptyLow DEF Continues
  <2> HIDE DEF h
  <2>3. g.emptyLow = h.emptyLow
    BY <2>1, <2>2, MediaKeepsEmptyLow
  <2> QED
    BY <1>2, <2>2, <2>3
<1>3. CASE p.type # "empty" /\ err # "none"
  <2>1. err \in {"kSizeError", "kDuplicatePacket", "kOutOfBoundsPacket"}
    BY <1>3 DEF SessionError
  <2>2. g = IF err = "kOutOfBoundsPacket" THEN TrackFirst(f, p) ELSE f
    BY <1>3, <2>1 DEF SessionInsertPacket
  <2>3. g.emptyLow = f.emptyLow
    BY <2>2, MediaKeepsEmptyLow
  <2> QED
    BY <1>3, <2>3
<1> QED
  BY <1>1, <1>2, <1>3

\* VCMFrameBuffer::InsertPacket: a frame that is still empty was empty before
\* and has received no media.
LEMMA FrameInsertPacketEmpty ==
  ASSUME NEW f \in Frame, NEW p \in PacketType, NEW mode \in Modes
  PROVE  LET r == FrameInsertPacket(f, p, mode)
         IN  /\ r.frame.emptyLow \in {f.emptyLow, p.seq}
             /\ r.frame.state = "kStateEmpty" =>
                  /\ f.state = "kStateEmpty"
                  /\ r.frame.packets = f.packets
                  /\ r.frame.type = f.type
<1> DEFINE open == OpenFrame(f, p)
           err  == SessionError(open, p)
           g    == SessionInsertPacket(open, p, mode)
           r    == FrameInsertPacket(f, p, mode)
<1>1. /\ open \in Frame /\ open.packets = f.packets /\ open.type = f.type
      /\ open.emptyLow = f.emptyLow
      /\ open.state = "kStateEmpty" => f.state = "kStateEmpty" /\ p.type = "empty"
  <2>1. CASE f.state # "kStateEmpty"
    BY <2>1 DEF OpenFrame
  <2>2. CASE f.state = "kStateEmpty"
    <3> DEFINE st == IF p.type = "empty" THEN f.state ELSE "kStateIncomplete"
    <3>1. open = [f EXCEPT !.ts = p.ts, !.state = st]
      BY <2>2 DEF OpenFrame
    <3>2. st \in States /\ (st = "kStateEmpty" => p.type = "empty")
      BY DEF Frame, States
    <3> HIDE DEF st, open
    <3> QED
      BY <2>2, <3>1, <3>2 DEF Frame, PacketType
  <2> QED
    BY <2>1, <2>2
<1>2. r.frame = IF err = "none" /\ g.complete
                  THEN [g EXCEPT !.state = "kStateComplete"]
                ELSE IF err = "none" /\ g.decodable
                  THEN [g EXCEPT !.state = "kStateDecodable"]
                ELSE g
  BY DEF FrameInsertPacket
<1> HIDE DEF open
<1>3. /\ g \in Frame /\ g.state = open.state
      /\ g.emptyLow \in {open.emptyLow, p.seq}
      /\ p.type = "empty" => g.packets = open.packets /\ g.type = open.type
  <2>1. g \in Frame /\ g.state = open.state
    BY <1>1, SessionInsertPacketType DEF Continues
  <2> QED
    BY <1>1, <2>1, SessionInsertPacketEmpty
<1> HIDE DEF g, err, r
<1>4. /\ r.frame.emptyLow = g.emptyLow
      /\ r.frame.packets = g.packets /\ r.frame.type = g.type
      /\ r.frame.state \in {g.state, "kStateComplete", "kStateDecodable"}
  BY <1>2, <1>3 DEF Frame
<1> QED
  BY <1>1, <1>3, <1>4 DEF r
=============================================================================
