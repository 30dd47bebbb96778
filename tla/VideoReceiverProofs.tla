------------------------- MODULE VideoReceiverProofs -------------------------
(***************************************************************************)
(* Theorems about the receiver, for every stream of packets, every         *)
(* setting, and every interleaving of the threads.  The argument is one    *)
(* inductive invariant: the types, together with the conservation of the   *)
(* frame buffers.  Neither is inductive alone: the count of free buffers   *)
(* is a natural number because recycling yields a buffer, and that follows *)
(* from conservation.  The first part is about the methods of the jitter   *)
(* buffer: what each does to its types, to the pool and to the NACK list.  *)
(***************************************************************************)
EXTENDS VideoReceiver, FrameBufferProofs, FiniteSetTheorems

-----------------------------------------------------------------------------
(* Decoding states.                                                        *)
\* A frame that has received a packet has a range of sequence numbers.
LEMMA SeqRangeType ==
  ASSUME NEW f \in Frame, HasPacket(f)
  PROVE  LowSeq(f) \in SeqNums /\ HighSeq(f) \in SeqNums
<1>1. /\ f.emptyLow \in SeqNums \cup {NoSeq}
      /\ f.emptyHigh \in SeqNums \cup {NoSeq}
      /\ f.packets \in Seq(PacketType)
  BY DEF Frame, MaybeSeq
<1>2. CASE f.packets = << >>
  BY <1>1, <1>2 DEF LowSeq, HighSeq, HasPacket
<1>3. CASE f.packets # << >>
  <2> DEFINE back == f.packets[Len(f.packets)].seq
  <2>1. Len(f.packets) \in Nat \ {0}
    BY <1>1, <1>3
  <2>2. f.packets[1] \in PacketType /\ f.packets[Len(f.packets)] \in PacketType
    BY <1>1, <2>1
  <2>3. f.packets[1].seq \in SeqNums /\ back \in SeqNums
    BY <2>2 DEF PacketType
  <2>4. HighSeq(f) \in {back, f.emptyHigh}
         /\ (f.emptyHigh = NoSeq => HighSeq(f) = back)
    BY <1>3, LatestIsEither DEF HighSeq
  <2> QED
    BY <1>1, <1>3, <2>3, <2>4 DEF LowSeq
<1> QED
  BY <1>2, <1>3

\* The layer information of a frame has its types.
LEMMA LayerType ==
  ASSUME NEW f \in Frame
  PROVE  PictureId(f) \in Int /\ TemporalId(f) \in Nat /\ Tl0PicId(f) \in Int
<1>1. CASE f.packets = << >>
  BY <1>1 DEF PictureId, TemporalId, Tl0PicId, kNoPictureId, kNoTemporalIdx,
              kNoTl0PicIdx
<1>2. CASE f.packets # << >>
  <2>1. f.packets[1] \in PacketType
    BY <1>2 DEF Frame
  <2> QED
    BY <1>2, <2>1 DEF PictureId, TemporalId, Tl0PicId, PacketType
<1> QED
  BY <1>1, <1>2

\* VCMDecodingState::Reset gives a decoding state.
LEMMA InitialStateType == InitialState \in DecodingStates
BY HalfAssumption DEF DecodingStates, InitialState, SeqNums, Timestamps,
                      kNoPictureId, kNoTemporalIdx, kNoTl0PicIdx

\* VCMDecodingState::SetState, whose assertion is that the frame has a sequence
\* number.
LEMMA SetStateType ==
  ASSUME NEW ds \in DecodingStates, NEW f \in Frame, HasPacket(f)
  PROVE  SetState(ds, f) \in DecodingStates
<1>1. SyncAfter(ds, f) \in BOOLEAN
  BY DEF SyncAfter, DecodingStates
<1>2. f.ts \in Timestamps
  BY DEF Frame
<1> QED
  BY <1>1, <1>2, SeqRangeType, LayerType DEF SetState, DecodingStates

\* UpdateEmptyFrame keeps a decoding state one.
LEMMA AfterEmptyType ==
  ASSUME NEW ds \in DecodingStates, NEW f \in Frame, HasPacket(f)
  PROVE  AfterEmpty(ds, f) \in DecodingStates
<1>1. f.ts \in Timestamps
  BY DEF Frame
<1> QED
  BY <1>1, SeqRangeType DEF AfterEmpty, DecodingStates

\* UpdateOldPacket keeps a decoding state one.
LEMMA UpdateOldPacketType ==
  ASSUME NEW ds \in DecodingStates, NEW p \in PacketType
  PROVE  UpdateOldPacket(ds, p) \in DecodingStates
<1>1. LatestSequenceNumber(p.seq, ds.seq) \in SeqNums
  BY LatestIsEither DEF PacketType, DecodingStates
<1> QED
  BY <1>1 DEF UpdateOldPacket, DecodingStates

-----------------------------------------------------------------------------
(* Frame lists.                                                            *)
\* Sets of timestamps are finite, since timestamps are.
LEMMA FiniteTimestamps ==
  ASSUME NEW S, S \subseteq Timestamps
  PROVE  IsFiniteSet(S) /\ Cardinality(S) \in Nat
<1>1. IsFiniteSet(Timestamps)
  BY FS_Interval, HalfAssumption DEF Timestamps
<1> QED
  BY <1>1, FS_Subset, FS_CardinalityType

\* begin() and rbegin() of a list that is not empty are in the list.
LEMMA OldestNewest ==
  ASSUME NEW S, S # {}
  PROVE  OldestTs(S) \in S /\ NewestTs(S) \in S
<1>1. OldestTs(S) \in S
  <2> DEFINE first == {t \in S : \A u \in S : ~IsNewerTimestamp(t, u)}
  <2>1. \E t \in S : first # {} => t \in first
    OBVIOUS
  <2> HIDE DEF first
  <2>2. (CHOOSE t \in S : first # {} => t \in first) \in S
    BY <2>1
  <2> QED
    BY <2>2 DEF OldestTs, first
<1>2. NewestTs(S) \in S
  <2> DEFINE last == {t \in S : \A u \in S : ~IsNewerTimestamp(u, t)}
  <2>1. \E t \in S : last # {} => t \in last
    OBVIOUS
  <2> HIDE DEF last
  <2>2. (CHOOSE t \in S : last # {} => t \in last) \in S
    BY <2>1
  <2> QED
    BY <2>2 DEF NewestTs, last
<1> QED
  BY <1>1, <1>2

\* A list without frames is a frame list.
LEMMA EmptyListType ==
  /\ IsFrameList(EmptyList)
  /\ DOMAIN EmptyList = {}
  /\ Cardinality(DOMAIN EmptyList) = 0
BY FS_EmptySet DEF EmptyList, IsFrameList

\* A part of a frame list is a frame list.
LEMMA KeepType ==
  ASSUME NEW list, IsFrameList(list), NEW S
  PROVE  /\ IsFrameList(Keep(list, S))
         /\ DOMAIN Keep(list, S) = DOMAIN list \cap S
BY DEF Keep, IsFrameList

\* Erasing timestamps from a frame list leaves a frame list.
LEMMA WithoutType ==
  ASSUME NEW list, IsFrameList(list), NEW S
  PROVE  /\ IsFrameList(Without(list, S))
         /\ DOMAIN Without(list, S) = DOMAIN list \ S
<1>1. DOMAIN list \cap (DOMAIN list \ S) = DOMAIN list \ S
  OBVIOUS
<1> QED
  BY <1>1, KeepType DEF Without

\* A frame whose timestamp is not taken makes a list one frame longer.
LEMMA InsertFrameType ==
  ASSUME NEW list, IsFrameList(list),
         NEW f \in Frame, HasPacket(f), f.ts \notin DOMAIN list
  PROVE  /\ IsFrameList(InsertFrame(list, f))
         /\ DOMAIN InsertFrame(list, f) = DOMAIN list \cup {f.ts}
         /\ Cardinality(DOMAIN InsertFrame(list, f))
              = Cardinality(DOMAIN list) + 1
<1>1. f.ts \in Timestamps
  BY DEF Frame
<1>2. DOMAIN InsertFrame(list, f) = DOMAIN list \cup {f.ts}
  BY DEF InsertFrame
<1>3. IsFrameList(InsertFrame(list, f))
  BY <1>1 DEF InsertFrame, IsFrameList
<1>4. IsFiniteSet(DOMAIN list)
  BY FiniteTimestamps DEF IsFrameList
<1> QED
  BY <1>2, <1>3, <1>4, FS_AddElement

-----------------------------------------------------------------------------
(* The pool.                                                               *)
\* b has the buffers of a, neither more nor less.
Conserves(a, b) ==
  /\ IsJitterBuffer(b)
  /\ Buffers(b) = Buffers(a)
  /\ b.allocated = a.allocated

\* The number of buffers at hand is a natural number.
LEMMA BuffersType ==
  ASSUME NEW buf, IsJitterBuffer(buf)
  PROVE  /\ Cardinality(DOMAIN buf.decodable) \in Nat
         /\ Cardinality(DOMAIN buf.incomplete) \in Nat
         /\ Buffers(buf) \in Nat
<1>1. /\ Cardinality(DOMAIN buf.decodable) \in Nat
      /\ Cardinality(DOMAIN buf.incomplete) \in Nat
  BY FiniteTimestamps DEF IsJitterBuffer, IsFrameList
<1> QED
  BY <1>1 DEF Buffers, IsJitterBuffer

\* Frames that leave the lists for the free list are accounted for.
LEMMA DropFrames ==
  ASSUME NEW a, IsJitterBuffer(a), NEW b, DOMAIN b = Fields,
         IsFrameList(b.decodable), IsFrameList(b.incomplete),
         DOMAIN b.decodable \subseteq DOMAIN a.decodable,
         DOMAIN b.incomplete \subseteq DOMAIN a.incomplete,
         b.free = a.free + Cardinality(DOMAIN a.decodable)
                         - Cardinality(DOMAIN b.decodable)
                         + Cardinality(DOMAIN a.incomplete)
                         - Cardinality(DOMAIN b.incomplete),
         b.allocated = a.allocated,
         b.last \in DecodingStates,
         b.missing \subseteq SeqNums,
         b.latest = a.latest, b.fresh = a.fresh, b.old = a.old,
         b.running = a.running,
         b.nack_mode = a.nack_mode, b.error_mode = a.error_mode
  PROVE  Conserves(a, b) /\ b.free >= a.free
<1> DEFINE da == Cardinality(DOMAIN a.decodable)
           ia == Cardinality(DOMAIN a.incomplete)
           db == Cardinality(DOMAIN b.decodable)
           ib == Cardinality(DOMAIN b.incomplete)
<1>1. da \in Nat /\ ia \in Nat
  BY BuffersType
<1>2. db \in Nat /\ ib \in Nat
  BY FiniteTimestamps DEF IsFrameList
<1>3. db <= da
  BY FiniteTimestamps, FS_Subset DEF IsJitterBuffer, IsFrameList
<1>4. ib <= ia
  BY FiniteTimestamps, FS_Subset DEF IsJitterBuffer, IsFrameList
<1>5. a.free \in Nat
  BY DEF IsJitterBuffer
<1> HIDE DEF da, ia, db, ib
<1>6. b.free \in Nat /\ b.free >= a.free /\ b.free + db + ib = a.free + da + ia
  BY <1>1, <1>2, <1>3, <1>4, <1>5 DEF da, ia, db, ib
<1>7. IsJitterBuffer(b)
  BY <1>6 DEF IsJitterBuffer
<1>8. Buffers(b) = Buffers(a)
  BY <1>6 DEF Buffers, da, ia, db, ib
<1> QED
  BY <1>6, <1>7, <1>8 DEF Conserves

-----------------------------------------------------------------------------
(* Recycling.                                                              *)
\* What is left of a list after recycling is a part of it, and the front frame
\* is not in it.
LEMMA RecycledRestType ==
  ASSUME NEW list, IsFrameList(list)
  PROVE  /\ IsFrameList(RecycledRest(list))
         /\ DOMAIN RecycledRest(list) \subseteq Later(list)
<1>1. CASE LaterKeys(list) = {}
  BY <1>1, EmptyListType DEF RecycledRest
<1>2. CASE LaterKeys(list) # {}
  <2>1. RecycledRest(list)
          = Keep(list, FromKey(list, OldestTs(LaterKeys(list))))
    BY <1>2 DEF RecycledRest
  <2>2. FromKey(list, OldestTs(LaterKeys(list))) \subseteq Later(list)
    BY DEF FromKey
  <2> QED
    BY <2>1, <2>2, KeepType
<1> QED
  BY <1>1, <1>2

\* Throwing the front frame makes a list shorter.
LEMMA LaterIsShorter ==
  ASSUME NEW list, IsFrameList(list), ~IsEmptyList(list),
         NEW rest, DOMAIN rest \subseteq Later(list)
  PROVE  Cardinality(DOMAIN rest) < Cardinality(DOMAIN list)
<1>1. OldestTs(DOMAIN list) \in DOMAIN list
  BY OldestNewest DEF IsEmptyList
<1>2. IsFiniteSet(DOMAIN list) /\ Cardinality(DOMAIN list) \in Nat
  BY FiniteTimestamps DEF IsFrameList
<1>3. DOMAIN rest \in SUBSET (DOMAIN list) /\ DOMAIN rest # DOMAIN list
  BY <1>1 DEF Later
<1>4. /\ Cardinality(DOMAIN rest) <= Cardinality(DOMAIN list)
      /\ Cardinality(DOMAIN rest) # Cardinality(DOMAIN list)
  BY <1>2, <1>3, FS_Subset
<1>5. Cardinality(DOMAIN rest) \in Nat
  BY <1>3, FiniteTimestamps DEF IsFrameList
<1> QED
  BY <1>2, <1>4, <1>5

\* RecycleFramesUntilKeyFrame conserves the pool, and frees a buffer whenever
\* there is a frame in a list.
LEMMA RecycleOK ==
  ASSUME NEW buf, IsJitterBuffer(buf)
  PROVE  LET b == RecycleFramesUntilKeyFrame(buf).jb
         IN  /\ Conserves(buf, b)
             /\ b.free >= buf.free
             /\ ~IsEmptyList(buf.incomplete) \/ ~IsEmptyList(buf.decodable)
                  => b.free > buf.free
             /\ DOMAIN b.decodable \subseteq DOMAIN buf.decodable
             /\ DOMAIN b.incomplete \subseteq DOMAIN buf.incomplete
<1> DEFINE fromIncomplete == ~IsEmptyList(buf.incomplete)
           list  == IF fromIncomplete THEN buf.incomplete ELSE buf.decodable
           rest  == RecycledRest(list)
           found == ~IsEmptyList(rest)
           dcd   == IF fromIncomplete THEN buf.decodable ELSE rest
           inc   == IF fromIncomplete THEN rest ELSE buf.incomplete
           fresh == found \/ IsEmptyList(dcd)
           last  == IF fresh THEN InitialState ELSE buf.last
           free  == buf.free + Cardinality(DOMAIN list)
                            - Cardinality(DOMAIN rest)
           missing == IF found
                        THEN DropPacketsFromNackList(buf.missing,
                               EstimatedLowSequenceNumber(Front(rest)))
                      ELSE IF fresh THEN {} ELSE buf.missing
           b == [buf EXCEPT !.incomplete = inc, !.decodable = dcd,
                           !.free = free, !.last = last, !.missing = missing]
<1>1. RecycleFramesUntilKeyFrame(buf).jb = b
  BY DEF RecycleFramesUntilKeyFrame
<1>2. last \in DecodingStates
  BY InitialStateType DEF IsJitterBuffer
<1>3. missing \subseteq SeqNums
  BY DEF IsJitterBuffer, DropPacketsFromNackList
<1>4. IsFrameList(list)
  BY DEF IsJitterBuffer
<1> HIDE DEF last, missing, list
<1>5. IsFrameList(rest) /\ DOMAIN rest \subseteq Later(list)
  BY <1>4, RecycledRestType
<1>6. DOMAIN rest \subseteq DOMAIN list
  BY <1>5 DEF Later
<1> HIDE DEF rest, found, fresh
<1>7. /\ IsFrameList(dcd) /\ DOMAIN dcd \subseteq DOMAIN buf.decodable
      /\ IsFrameList(inc) /\ DOMAIN inc \subseteq DOMAIN buf.incomplete
  BY <1>5, <1>6 DEF IsJitterBuffer, list
<1>8. free = buf.free + Cardinality(DOMAIN buf.decodable)
                     - Cardinality(DOMAIN dcd)
                     + Cardinality(DOMAIN buf.incomplete)
                     - Cardinality(DOMAIN inc)
  <2>1. /\ Cardinality(DOMAIN buf.decodable) \in Nat
        /\ Cardinality(DOMAIN buf.incomplete) \in Nat
        /\ Cardinality(DOMAIN rest) \in Nat
        /\ buf.free \in Nat
    BY <1>5, BuffersType, FiniteTimestamps DEF IsFrameList, IsJitterBuffer
  <2>2. CASE fromIncomplete
    BY <2>1, <2>2 DEF list
  <2>3. CASE ~fromIncomplete
    BY <2>1, <2>3 DEF list
  <2> QED
    BY <2>2, <2>3
<1> HIDE DEF dcd, inc
<1>9. /\ DOMAIN b = Fields
      /\ b.free = free /\ b.decodable = dcd /\ b.incomplete = inc
      /\ b.allocated = buf.allocated /\ b.last = last /\ b.missing = missing
      /\ b.latest = buf.latest /\ b.fresh = buf.fresh /\ b.old = buf.old
      /\ b.running = buf.running
      /\ b.nack_mode = buf.nack_mode /\ b.error_mode = buf.error_mode
  BY DEF IsJitterBuffer, Fields
<1> HIDE DEF b
<1>10. Conserves(buf, b) /\ b.free >= buf.free
  <2> HIDE DEF free
  <2> QED
    BY <1>2, <1>3, <1>7, <1>8, <1>9, DropFrames
<1>11. ASSUME fromIncomplete \/ ~IsEmptyList(buf.decodable)
       PROVE  b.free > buf.free
  <2>1. ~IsEmptyList(list)
    BY <1>11 DEF list
  <2>2. Cardinality(DOMAIN rest) < Cardinality(DOMAIN list)
    BY <1>4, <1>5, <2>1, LaterIsShorter
  <2>3. /\ Cardinality(DOMAIN rest) \in Nat /\ Cardinality(DOMAIN list) \in Nat
        /\ buf.free \in Nat
    BY <1>4, <1>5, FiniteTimestamps DEF IsFrameList, IsJitterBuffer
  <2> QED
    BY <1>9, <2>2, <2>3
<1> QED
  BY <1>1, <1>7, <1>9, <1>10, <1>11

\* Where the loops of HandleTooLargeNackList and HandleTooOldPackets end: parts
\* of the two lists remain, and nothing is remembered of what was decoded.
IsPart(part, list) ==
  IsFrameList(part) /\ DOMAIN part \subseteq DOMAIN list

Recycled(buf, inc, dcd, missing) ==
  [buf EXCEPT
     !.incomplete = inc,
     !.decodable  = dcd,
     !.free = @ + Cardinality(DOMAIN buf.incomplete) - Cardinality(DOMAIN inc)
                + Cardinality(DOMAIN buf.decodable) - Cardinality(DOMAIN dcd),
     !.last = InitialState,
     !.missing = missing]

\* The record that recycling builds from parts of the lists conserves the pool.
LEMMA RecycledOK ==
  ASSUME NEW buf, IsJitterBuffer(buf),
         NEW inc, IsPart(inc, buf.incomplete),
         NEW dcd, IsPart(dcd, buf.decodable),
         NEW missing, missing \subseteq SeqNums
  PROVE  LET b == Recycled(buf, inc, dcd, missing)
         IN  /\ Conserves(buf, b)
             /\ DOMAIN b.decodable \subseteq DOMAIN buf.decodable
             /\ DOMAIN b.incomplete \subseteq DOMAIN buf.incomplete
<1> DEFINE free == buf.free
              + Cardinality(DOMAIN buf.incomplete) - Cardinality(DOMAIN inc)
              + Cardinality(DOMAIN buf.decodable) - Cardinality(DOMAIN dcd)
           b == Recycled(buf, inc, dcd, missing)
<1>1. /\ DOMAIN b = Fields
      /\ b.free = free /\ b.decodable = dcd /\ b.incomplete = inc
      /\ b.allocated = buf.allocated /\ b.last = InitialState
      /\ b.missing = missing
      /\ b.latest = buf.latest /\ b.fresh = buf.fresh /\ b.old = buf.old
      /\ b.running = buf.running
      /\ b.nack_mode = buf.nack_mode /\ b.error_mode = buf.error_mode
  <2>1. b = [buf EXCEPT !.incomplete = inc, !.decodable = dcd, !.free = free,
                       !.last = InitialState, !.missing = missing]
    BY DEF Recycled
  <2> HIDE DEF b, free
  <2> QED
    BY <2>1 DEF IsJitterBuffer, Fields
<1>2. free = buf.free + Cardinality(DOMAIN buf.decodable)
                     - Cardinality(DOMAIN dcd)
                     + Cardinality(DOMAIN buf.incomplete)
                     - Cardinality(DOMAIN inc)
  <2>1. /\ Cardinality(DOMAIN buf.decodable) \in Nat
        /\ Cardinality(DOMAIN buf.incomplete) \in Nat
        /\ Cardinality(DOMAIN inc) \in Nat /\ Cardinality(DOMAIN dcd) \in Nat
        /\ buf.free \in Nat
    BY BuffersType, FiniteTimestamps DEF IsPart, IsFrameList, IsJitterBuffer
  <2> QED
    BY <2>1
<1> HIDE DEF b, free
<1>3. Conserves(buf, b)
  BY <1>1, <1>2, InitialStateType, DropFrames DEF IsPart
<1> QED
  BY <1>1, <1>3 DEF IsPart, b

\* Keeping the frames from a key frame on, or none, keeps a part of the list.
LEMMA KeepIsPart ==
  ASSUME NEW list, IsFrameList(list)
  PROVE  /\ \A S : IsPart(Keep(list, S), list)
         /\ IsPart(EmptyList, list)
         /\ IsPart(list, list)
<1>1. ASSUME NEW S
      PROVE  IsPart(Keep(list, S), list)
  BY KeepType DEF IsPart
<1>2. IsPart(EmptyList, list)
  BY EmptyListType DEF IsPart
<1>3. IsPart(list, list)
  BY DEF IsPart
<1> QED
  BY <1>1, <1>2, <1>3, Zenon

\* HandleTooLargeNackList and HandleTooOldPackets conserve the pool.
LEMMA HandleTooLargeNackListOK ==
  ASSUME NEW buf, IsJitterBuffer(buf)
  PROVE  LET b == HandleTooLargeNackList(buf).jb
         IN  /\ Conserves(buf, b)
             /\ DOMAIN b.decodable \subseteq DOMAIN buf.decodable
             /\ DOMAIN b.incomplete \subseteq DOMAIN buf.incomplete
<1> DEFINE inc     == buf.incomplete
           dcd     == buf.decodable
           goodInc == {k \in LaterKeys(inc) :
                         ~TooLargeNackList(MissingAt(inc, buf.missing, k))}
           passed  == MissingAfter(inc, buf.missing)
           goodDec == {k \in LaterKeys(dcd) :
                         ~TooLargeNackList(MissingAt(dcd, passed, k))}
           restInc == IF goodInc # {}
                        THEN Keep(inc, FromKey(inc, OldestTs(goodInc)))
                        ELSE EmptyList
           restDec == IF goodInc # {} THEN dcd
                      ELSE IF goodDec # {}
                        THEN Keep(dcd, FromKey(dcd, OldestTs(goodDec)))
                      ELSE EmptyList
           missing == IF goodInc # {}
                        THEN MissingAt(inc, buf.missing, OldestTs(goodInc))
                      ELSE IF goodDec # {}
                        THEN MissingAt(dcd, passed, OldestTs(goodDec))
                      ELSE {}
<1>1. HandleTooLargeNackList(buf).jb = Recycled(buf, restInc, restDec, missing)
  BY DEF HandleTooLargeNackList, RecycleWhile, Recycled
<1>2. missing \subseteq SeqNums
  BY DEF IsJitterBuffer, MissingAt, MissingAfter
<1>3. IsPart(restInc, buf.incomplete) /\ IsPart(restDec, buf.decodable)
  <2> HIDE DEF goodInc, goodDec
  <2> QED
    BY KeepIsPart DEF IsJitterBuffer
<1> HIDE DEF restInc, restDec, missing
<1> QED
  BY <1>1, <1>2, <1>3, RecycledOK

\* The loop on the age of the oldest missing packet conserves the pool.
LEMMA HandleTooOldPacketsOK ==
  ASSUME NEW buf, IsJitterBuffer(buf), NEW seq
  PROVE  LET b == HandleTooOldPackets(buf, seq).jb
         IN  /\ Conserves(buf, b)
             /\ DOMAIN b.decodable \subseteq DOMAIN buf.decodable
             /\ DOMAIN b.incomplete \subseteq DOMAIN buf.incomplete
<1> DEFINE inc     == buf.incomplete
           dcd     == buf.decodable
           goodInc == {k \in LaterKeys(inc) :
                     ~MissingTooOldPacket(MissingAt(inc, buf.missing, k), seq)}
           passed  == MissingAfter(inc, buf.missing)
           goodDec == {k \in LaterKeys(dcd) :
                     ~MissingTooOldPacket(MissingAt(dcd, passed, k), seq)}
           restInc == IF goodInc # {}
                        THEN Keep(inc, FromKey(inc, OldestTs(goodInc)))
                        ELSE EmptyList
           restDec == IF goodInc # {} THEN dcd
                      ELSE IF goodDec # {}
                        THEN Keep(dcd, FromKey(dcd, OldestTs(goodDec)))
                      ELSE EmptyList
           missing == IF goodInc # {}
                        THEN MissingAt(inc, buf.missing, OldestTs(goodInc))
                      ELSE IF goodDec # {}
                        THEN MissingAt(dcd, passed, OldestTs(goodDec))
                      ELSE {}
<1>1. HandleTooOldPackets(buf, seq).jb = Recycled(buf, restInc, restDec, missing)
  BY DEF HandleTooOldPackets, RecycleWhile, Recycled
<1>2. missing \subseteq SeqNums
  BY DEF IsJitterBuffer, MissingAt, MissingAfter
<1>3. IsPart(restInc, buf.incomplete) /\ IsPart(restDec, buf.decodable)
  <2> HIDE DEF goodInc, goodDec
  <2> QED
    BY KeepIsPart DEF IsJitterBuffer
<1> HIDE DEF restInc, restDec, missing
<1> QED
  BY <1>1, <1>2, <1>3, RecycledOK

-----------------------------------------------------------------------------
(* Methods that move no frame, and the NACK list.                          *)
\* b is a with frames given back to the pool.
Shrinks(a, b) ==
  /\ Conserves(a, b)
  /\ DOMAIN b.decodable \subseteq DOMAIN a.decodable
  /\ DOMAIN b.incomplete \subseteq DOMAIN a.incomplete

\* One shrinking of the lists after another is a shrinking.
LEMMA ShrinksTrans ==
  ASSUME NEW a, NEW b, NEW c, Shrinks(a, b), Shrinks(b, c)
  PROVE  Shrinks(a, c)
BY DEF Shrinks, Conserves

\* Bringing the NACK list within its limits only shrinks the frame lists.
LEMMA ShrinkNackListOK ==
  ASSUME NEW buf, IsJitterBuffer(buf), NEW seq
  PROVE  Shrinks(buf, ShrinkNackList(buf, seq).jb)
<1> DEFINE a == IF TooLargeNackList(buf.missing)
                  THEN HandleTooLargeNackList(buf)
                  ELSE [jb |-> buf, found |-> TRUE]
<1>1. Shrinks(buf, a.jb)
  <2>1. CASE TooLargeNackList(buf.missing)
    BY <2>1, HandleTooLargeNackListOK DEF Shrinks
  <2>2. CASE ~TooLargeNackList(buf.missing)
    <3>1. a.jb = buf
      BY <2>2
    <3> QED
      BY <3>1 DEF Shrinks, Conserves
  <2> QED
    BY <2>1, <2>2
<1>2. ShrinkNackList(buf, seq)
        = IF a.found /\ MissingTooOldPacket(a.jb.missing, seq)
            THEN HandleTooOldPackets(a.jb, seq)
            ELSE a
  BY DEF ShrinkNackList
<1> HIDE DEF a
<1>3. IsJitterBuffer(a.jb)
  BY <1>1 DEF Shrinks, Conserves
<1>4. Shrinks(a.jb, HandleTooOldPackets(a.jb, seq).jb)
  BY <1>3, HandleTooOldPacketsOK DEF Shrinks
<1> QED
  BY <1>1, <1>2, <1>4, ShrinksTrans

\* UpdateNackList only shrinks the frame lists.
LEMMA UpdateNackListOK ==
  ASSUME NEW buf, IsJitterBuffer(buf), NEW seq \in SeqNums
  PROVE  Shrinks(buf, UpdateNackList(buf, seq).jb)
<1> DEFINE latest == IF buf.last.initial
                       THEN buf.latest
                       ELSE LatestSequenceNumber(buf.latest, buf.last.seq)
           newer  == IsNewerSequenceNumber(seq, latest)
           grown  == [buf EXCEPT !.latest = latest,
                        !.missing = @ \cup SeqNumsBetween(latest, seq)]
           erased == [buf EXCEPT !.latest = latest, !.missing = @ \ {seq}]
<1>1. UpdateNackList(buf, seq)
        = IF buf.nack_mode = "kNoNack" THEN [jb |-> buf, found |-> TRUE]
          ELSE IF newer THEN ShrinkNackList(grown, seq)
          ELSE [jb |-> erased, found |-> TRUE]
  BY DEF UpdateNackList
<1>2. latest \in SeqNums
  BY LatestIsEither DEF IsJitterBuffer, DecodingStates
<1> HIDE DEF latest
<1>3. Shrinks(buf, grown)
  <2> DEFINE missing == buf.missing \cup SeqNumsBetween(latest, seq)
  <2>1. missing \subseteq SeqNums
    BY DEF IsJitterBuffer, SeqNumsBetween
  <2>2. grown = [buf EXCEPT !.latest = latest, !.missing = missing]
    OBVIOUS
  <2> HIDE DEF missing, grown
  <2> QED
    BY <1>2, <2>1, <2>2
    DEF Shrinks, Conserves, IsJitterBuffer, Buffers, Fields
<1>4. Shrinks(buf, erased)
  <2> DEFINE missing == buf.missing \ {seq}
  <2>1. missing \subseteq SeqNums
    BY DEF IsJitterBuffer
  <2>2. erased = [buf EXCEPT !.latest = latest, !.missing = missing]
    OBVIOUS
  <2> HIDE DEF missing, erased
  <2> QED
    BY <1>2, <2>1, <2>2
    DEF Shrinks, Conserves, IsJitterBuffer, Buffers, Fields
<1> HIDE DEF grown, erased, newer
<1>5. Shrinks(buf, ShrinkNackList(grown, seq).jb)
  <2>1. IsJitterBuffer(grown)
    BY <1>3 DEF Shrinks, Conserves
  <2> QED
    BY <1>3, <2>1, ShrinkNackListOK, ShrinksTrans
<1>6. Shrinks(buf, buf)
  BY DEF Shrinks, Conserves
<1> QED
  BY <1>1, <1>4, <1>5, <1>6

-----------------------------------------------------------------------------
(* Clean-up, start, stop and flush.                                        *)
\* Dropping empty frames leaves a decoding state.
LEMMA LastAfterCleanUpType ==
  ASSUME NEW list, IsFrameList(list), NEW last \in DecodingStates
  PROVE  LastAfterCleanUp(list, last) \in DecodingStates
<1> DEFINE E == {t \in CleanedUp(list, last) :
                   list[t].state = "kStateEmpty"
                     /\ t # NewestTs(DOMAIN list)}
<1>1. LastAfterCleanUp(list, last) = OverEmpty(list, last, E)
  BY DEF LastAfterCleanUp
<1>2. E \subseteq DOMAIN list
  BY DEF CleanedUp
<1> HIDE DEF E
<1>3. CASE E = {} \/ last.initial
  BY <1>1, <1>3 DEF OverEmpty
<1>4. CASE ~(E = {} \/ last.initial)
  <2>1. NewestTs(E) \in DOMAIN list
    BY <1>2, <1>4, OldestNewest
  <2>2. AfterEmpty(last, list[NewestTs(E)]) \in DecodingStates
    BY <2>1, AfterEmptyType DEF IsFrameList
  <2> QED
    BY <1>1, <1>4, <2>2 DEF OverEmpty
<1> QED
  BY <1>3, <1>4

\* CleanUpOldOrEmptyFrames moves frames from the lists to the free list only.
LEMMA CleanUpOK ==
  ASSUME NEW buf, IsJitterBuffer(buf)
  PROVE  Shrinks(buf, CleanUpOldOrEmptyFrames(buf))
<1> DEFINE mid  == LastAfterCleanUp(buf.decodable, buf.last)
           last == LastAfterCleanUp(buf.incomplete, mid)
           dcd  == Without(buf.decodable, CleanedUp(buf.decodable, buf.last))
           inc  == Without(buf.incomplete, CleanedUp(buf.incomplete, mid))
           free == buf.free + Cardinality(DOMAIN buf.decodable)
                           - Cardinality(DOMAIN dcd)
                           + Cardinality(DOMAIN buf.incomplete)
                           - Cardinality(DOMAIN inc)
           missing == IF last.initial
                        THEN buf.missing
                        ELSE DropPacketsFromNackList(buf.missing, last.seq)
           b == [buf EXCEPT !.decodable = dcd, !.incomplete = inc,
                           !.free = free, !.last = last, !.missing = missing]
<1>1. CleanUpOldOrEmptyFrames(buf) = b
  BY DEF CleanUpOldOrEmptyFrames
<1>2. IsPart(dcd, buf.decodable) /\ IsPart(inc, buf.incomplete)
  BY WithoutType DEF IsJitterBuffer, IsPart
<1>3. last \in DecodingStates
  BY LastAfterCleanUpType DEF IsJitterBuffer
<1>4. missing \subseteq SeqNums
  BY DEF IsJitterBuffer, DropPacketsFromNackList
<1> HIDE DEF mid, last, dcd, inc, missing
<1>5. /\ DOMAIN b = Fields
      /\ b.free = free /\ b.decodable = dcd /\ b.incomplete = inc
      /\ b.allocated = buf.allocated /\ b.last = last /\ b.missing = missing
      /\ b.latest = buf.latest /\ b.fresh = buf.fresh /\ b.old = buf.old
      /\ b.running = buf.running
      /\ b.nack_mode = buf.nack_mode /\ b.error_mode = buf.error_mode
  <2> HIDE DEF free
  <2> QED
    BY DEF IsJitterBuffer, Fields
<1> HIDE DEF b
<1>6. Conserves(buf, b)
  BY <1>2, <1>3, <1>4, <1>5, DropFrames DEF IsPart
<1> QED
  BY <1>1, <1>2, <1>5, <1>6 DEF Shrinks, IsPart

\* Emptying both lists returns all their buffers.
LEMMA AllFreeOK ==
  ASSUME NEW buf, IsJitterBuffer(buf)
  PROVE  Shrinks(buf, AllFree(buf))
<1>1. /\ Cardinality(DOMAIN buf.decodable) \in Nat
      /\ Cardinality(DOMAIN buf.incomplete) \in Nat
  BY BuffersType
<1> QED
  BY <1>1, EmptyListType, InitialStateType
  DEF Shrinks, Conserves, IsJitterBuffer, AllFree, Buffers, Fields

\* Flush conserves the pool.
LEMMA FlushOK ==
  ASSUME NEW buf, IsJitterBuffer(buf)
  PROVE  Shrinks(buf, Flush(buf))
<1> DEFINE a == AllFree(buf)
<1>1. Shrinks(buf, a) /\ IsJitterBuffer(a)
  BY AllFreeOK DEF Shrinks, Conserves
<1>2. Flush(buf) = [a EXCEPT !.old = 0, !.fresh = TRUE, !.missing = {}]
  BY DEF Flush
<1> HIDE DEF a
<1>3. Shrinks(a, Flush(buf))
  BY <1>1, <1>2
  DEF Shrinks, Conserves, IsJitterBuffer, Buffers, Fields
<1> QED
  BY <1>1, <1>3, ShrinksTrans

\* The locked part of Stop conserves the pool.
LEMMA StopLockedOK ==
  ASSUME NEW buf, IsJitterBuffer(buf)
  PROVE  Shrinks(buf, StopLocked(buf))
<1> DEFINE a == AllFree(buf)
<1>1. Shrinks(buf, a) /\ IsJitterBuffer(a)
  BY AllFreeOK DEF Shrinks, Conserves
<1>2. StopLocked(buf) = [a EXCEPT !.running = FALSE]
  BY DEF StopLocked
<1> HIDE DEF a
<1>3. Shrinks(a, StopLocked(buf))
  BY <1>1, <1>2
  DEF Shrinks, Conserves, IsJitterBuffer, Buffers, Fields
<1> QED
  BY <1>1, <1>3, ShrinksTrans

\* Start conserves the pool.
LEMMA StartOK ==
  ASSUME NEW buf, IsJitterBuffer(buf)
  PROVE  Shrinks(buf, Start(buf))
<1>1. Start(buf) = [buf EXCEPT !.running = TRUE, !.old = 0, !.fresh = TRUE,
                             !.last = InitialState]
  BY DEF Start
<1> QED
  BY <1>1, InitialStateType
  DEF Shrinks, Conserves, IsJitterBuffer, Buffers, Fields

-----------------------------------------------------------------------------
(* Moving frames between the lists, and taking them out.                   *)
\* FindAndInsertContinuousFrames moves frames from one list to the other.
LEMMA FindAndInsertOK ==
  ASSUME NEW buf, IsJitterBuffer(buf), NEW ds
  PROVE  Conserves(buf, FindAndInsertContinuousFramesWithState(buf, ds))
<1> DEFINE moved == ContinuousScan(buf, ds)
           inc   == Without(buf.incomplete, moved)
           dcd   == [t \in DOMAIN buf.decodable \cup moved |->
                       IF t \in DOMAIN buf.decodable
                         THEN buf.decodable[t] ELSE buf.incomplete[t]]
           b     == FindAndInsertContinuousFramesWithState(buf, ds)
           I     == DOMAIN buf.incomplete
           D     == DOMAIN buf.decodable
<1>1. b = [buf EXCEPT !.incomplete = inc, !.decodable = dcd]
  BY DEF FindAndInsertContinuousFramesWithState
<1>2. moved \subseteq DOMAIN buf.incomplete
  BY DEF ContinuousScan
<1> HIDE DEF moved
<1>3. IsFrameList(inc) /\ DOMAIN inc = I \ moved
  BY WithoutType DEF IsJitterBuffer
<1>4. IsFrameList(dcd) /\ DOMAIN dcd = D \cup moved
  BY <1>2 DEF IsJitterBuffer, IsFrameList
<1> HIDE DEF inc, dcd, b
<1>5. D \cap I = {}
  BY DEF IsJitterBuffer
<1>6. /\ IsFiniteSet(I) /\ IsFiniteSet(D) /\ IsFiniteSet(moved)
      /\ Cardinality(I) \in Nat /\ Cardinality(D) \in Nat
      /\ Cardinality(moved) \in Nat
  BY <1>2, FiniteTimestamps DEF IsJitterBuffer, IsFrameList
<1> HIDE DEF I, D
<1>7. Cardinality(I \ moved) = Cardinality(I) - Cardinality(moved)
  <2>1. I \cap moved = moved
    BY <1>2 DEF I
  <2> QED
    BY <1>6, <2>1, FS_Difference
<1>8. Cardinality(D \cup moved) = Cardinality(D) + Cardinality(moved)
  <2>1. D \cap moved = {}
    BY <1>2, <1>5 DEF I
  <2>2. Cardinality({}) = 0
    BY FS_EmptySet
  <2>3. Cardinality(D \cup moved)
          = Cardinality(D) + Cardinality(moved) - Cardinality(D \cap moved)
    BY <1>6, FS_Union
  <2> QED
    BY <1>6, <2>1, <2>2, <2>3
<1>9. IsJitterBuffer(b)
  <2>1. (D \cup moved) \cap (I \ moved) = {}
    BY <1>5
  <2> QED
    BY <1>1, <1>3, <1>4, <2>1 DEF IsJitterBuffer, Fields
<1>10. b.free = buf.free /\ b.allocated = buf.allocated
        /\ b.incomplete = inc /\ b.decodable = dcd
  BY <1>1 DEF IsJitterBuffer, Fields
<1>11. Buffers(b) = Buffers(buf)
  <2>1. buf.free \in Nat
    BY DEF IsJitterBuffer
  <2> QED
    BY <1>3, <1>4, <1>6, <1>7, <1>8, <1>10, <2>1 DEF Buffers, I, D
<1> QED
  BY <1>9, <1>10, <1>11 DEF Conserves, b

\* Taking the frame of a timestamp out of a list leaves one buffer less.
LEMMA TakeOut ==
  ASSUME NEW list, IsFrameList(list), NEW ts \in DOMAIN list
  PROVE  /\ IsFrameList(Without(list, {ts}))
         /\ DOMAIN Without(list, {ts}) = DOMAIN list \ {ts}
         /\ Cardinality(DOMAIN Without(list, {ts}))
              = Cardinality(DOMAIN list) - 1
<1> DEFINE S == DOMAIN list
<1>1. IsFiniteSet(S)
  BY FiniteTimestamps DEF IsFrameList
<1>2. IsFrameList(Without(list, {ts})) /\ DOMAIN Without(list, {ts}) = S \ {ts}
  BY WithoutType
<1>3. ts \in S
  OBVIOUS
<1> HIDE DEF S
<1>4. Cardinality(S \ {ts}) = Cardinality(S) - 1
  BY <1>1, <1>3, FS_RemoveElement
<1> QED
  BY <1>2, <1>4 DEF S

\* ExtractAndSetDecode hands one buffer to the decoder.
LEMMA ExtractOK ==
  ASSUME NEW buf, IsJitterBuffer(buf), NEW ts, Has(buf, ts)
  PROVE  LET b == ExtractAndSetDecode(buf, ts)
         IN  /\ IsJitterBuffer(b)
             /\ Buffers(b) = Buffers(buf) - 1
             /\ b.allocated = buf.allocated
             /\ FrameAt(buf, ts) \in Frame
             /\ FrameAt(buf, ts).ts = ts
<1> DEFINE f    == FrameAt(buf, ts)
           inD  == ts \in DOMAIN buf.decodable
           dcd  == Without(buf.decodable, {ts})
           inc  == IF inD THEN buf.incomplete ELSE Without(buf.incomplete, {ts})
           last == SetState(buf.last, f)
           missing == DropPacketsFromNackList(buf.missing, HighSeq(f))
           b    == ExtractAndSetDecode(buf, ts)
<1>1. b = [buf EXCEPT !.decodable = dcd, !.incomplete = inc, !.last = last,
                     !.missing = missing]
  BY DEF ExtractAndSetDecode
<1>2. f \in Frame /\ HasPacket(f) /\ f.ts = ts
  BY DEF FrameAt, Has, IsJitterBuffer, IsFrameList
<1>3. last \in DecodingStates
  <2>1. buf.last \in DecodingStates
    BY DEF IsJitterBuffer
  <2> HIDE DEF f
  <2> QED
    BY <1>2, <2>1, SetStateType
<1>4. missing \subseteq SeqNums
  BY DEF DropPacketsFromNackList, IsJitterBuffer
<1>5. /\ IsFrameList(dcd) /\ DOMAIN dcd \subseteq DOMAIN buf.decodable
      /\ IsFrameList(inc) /\ DOMAIN inc \subseteq DOMAIN buf.incomplete
  BY WithoutType DEF IsJitterBuffer
<1>6. Cardinality(DOMAIN dcd) + Cardinality(DOMAIN inc)
        = Cardinality(DOMAIN buf.decodable) + Cardinality(DOMAIN buf.incomplete)
            - 1
  <2>1. /\ Cardinality(DOMAIN buf.decodable) \in Nat
        /\ Cardinality(DOMAIN buf.incomplete) \in Nat
    BY BuffersType
  <2>2. CASE inD
    <3>1. Cardinality(DOMAIN dcd) = Cardinality(DOMAIN buf.decodable) - 1
      BY <2>2, TakeOut DEF IsJitterBuffer
    <3>2. inc = buf.incomplete
      BY <2>2
    <3> HIDE DEF dcd, inc
    <3> QED
      BY <2>1, <3>1, <3>2
  <2>3. CASE ~inD
    <3>1. ts \in DOMAIN buf.incomplete
      BY <2>3 DEF Has
    <3>2. DOMAIN dcd = DOMAIN buf.decodable
      BY <2>3, WithoutType DEF IsJitterBuffer
    <3> QED
      BY <2>1, <2>3, <3>1, <3>2, TakeOut DEF IsJitterBuffer
  <2> QED
    BY <2>2, <2>3
<1> HIDE DEF dcd, inc, last, missing, b
<1>7. IsJitterBuffer(b)
  BY <1>1, <1>3, <1>4, <1>5 DEF IsJitterBuffer, Fields
<1>8. /\ b.free = buf.free /\ b.allocated = buf.allocated
      /\ b.decodable = dcd /\ b.incomplete = inc
  BY <1>1 DEF IsJitterBuffer, Fields
<1>9. Buffers(b) = Buffers(buf) - 1
  <2>1. buf.free \in Nat /\ Cardinality(DOMAIN buf.decodable) \in Nat
        /\ Cardinality(DOMAIN buf.incomplete) \in Nat
    BY BuffersType DEF IsJitterBuffer
  <2>2. Cardinality(DOMAIN dcd) \in Nat /\ Cardinality(DOMAIN inc) \in Nat
    BY <1>5, FiniteTimestamps DEF IsFrameList
  <2> QED
    BY <1>6, <1>8, <2>1, <2>2 DEF Buffers
<1> HIDE DEF f
<1> QED
  BY <1>2, <1>7, <1>8, <1>9 DEF b, f

\* ReleaseFrame takes it back.
LEMMA ReleaseOK ==
  ASSUME NEW buf, IsJitterBuffer(buf)
  PROVE  LET b == ReleaseFrame(buf)
         IN  /\ IsJitterBuffer(b)
             /\ Buffers(b) = Buffers(buf) + 1
             /\ b.allocated = buf.allocated
<1>1. /\ Cardinality(DOMAIN buf.decodable) \in Nat
      /\ Cardinality(DOMAIN buf.incomplete) \in Nat
  BY BuffersType
<1> QED
  BY <1>1 DEF ReleaseFrame, IsJitterBuffer, Buffers, Fields

-----------------------------------------------------------------------------
(* InsertPacket.                                                           *)
\* The buffers that are not at the jitter buffer's disposal.
Outside(buf) == buf.allocated - Buffers(buf)

\* What InsertPacket relies on: the pool is within its limit, and when it has
\* nothing to offer there is a frame to recycle.
PoolReady(buf) ==
  /\ IsJitterBuffer(buf)
  /\ buf.allocated <= kMaxNumberOfFrames
  /\ ~HasEmptyFrame(buf) => Buffers(buf) > 0

\* assert(*frame) in GetFrame: when the pool has nothing to offer, recycling
\* frees a buffer.
LEMMA RecyclingYields ==
  ASSUME NEW buf, PoolReady(buf), ~HasEmptyFrame(buf)
  PROVE  RecycleFramesUntilKeyFrame(buf).jb.free > 0
<1> DEFINE b == RecycleFramesUntilKeyFrame(buf).jb
<1>1. buf.free = 0
  BY DEF PoolReady, IsJitterBuffer, HasEmptyFrame
<1>2. ~IsEmptyList(buf.incomplete) \/ ~IsEmptyList(buf.decodable)
  <2>1. ASSUME IsEmptyList(buf.incomplete), IsEmptyList(buf.decodable)
        PROVE  FALSE
    <3>1. Buffers(buf) = 0
      BY <1>1, <2>1, FS_EmptySet DEF Buffers, IsEmptyList
    <3> QED
      BY <3>1 DEF PoolReady
  <2> QED
    BY <2>1
<1>3. b.free > buf.free
  BY <1>2, RecycleOK DEF PoolReady
<1> QED
  BY <1>1, <1>3

\* A buffer as GetFrame hands it out.
Usable(f, ts) ==
  f \in Frame /\ (f = ResetFrame \/ (f.ts = ts /\ HasPacket(f)))

\* A buffer fresh from Reset is a frame.
LEMMA ResetFrameType == ResetFrame \in Frame
BY HalfAssumption DEF ResetFrame, Frame, Timestamps, States, FrameTypes,
                      MaybeSeq

\* GetFrame takes one buffer out, with everything under the timestamp, or fails
\* without losing one.
LEMMA GetFrameOK ==
  ASSUME NEW buf, PoolReady(buf), NEW ts
  PROVE  LET g == GetFrame(buf, ts)
         IN  /\ IsJitterBuffer(g.jb)
             /\ g.jb.allocated >= buf.allocated
             /\ g.jb.allocated <= kMaxNumberOfFrames
             /\ g.ok => /\ Outside(g.jb) = Outside(buf) + 1
                        /\ ts \notin DOMAIN g.jb.decodable
                        /\ ts \notin DOMAIN g.jb.incomplete
                        /\ Usable(g.frame, ts)
             /\ ~g.ok => Outside(g.jb) = Outside(buf)
             /\ g.from \in {"incomplete", "decodable", "none"}
<1> DEFINE r == RecycleFramesUntilKeyFrame(buf)
           g == GetFrame(buf, ts)
           I == buf.incomplete
           D == buf.decodable
<1>0. /\ IsJitterBuffer(buf) /\ DOMAIN buf = Fields
      /\ buf.allocated \in Nat /\ buf.free \in Nat
      /\ buf.allocated <= kMaxNumberOfFrames /\ kMaxNumberOfFrames \in Nat
      /\ IsFrameList(I) /\ IsFrameList(D) /\ DOMAIN D \cap DOMAIN I = {}
      /\ Cardinality(DOMAIN D) \in Nat /\ Cardinality(DOMAIN I) \in Nat
  BY JitterBufferAssumption, BuffersType DEF PoolReady, IsJitterBuffer
<1>1. CASE ts \in DOMAIN I
  <2> DEFINE inc == Without(I, {ts})
             b   == [buf EXCEPT !.incomplete = inc]
  <2>1. g.jb = b /\ g.frame = I[ts] /\ g.ok /\ g.from = "incomplete"
    BY <1>1 DEF GetFrame
  <2>2. /\ IsFrameList(inc) /\ DOMAIN inc = DOMAIN I \ {ts}
        /\ Cardinality(DOMAIN inc) = Cardinality(DOMAIN I) - 1
    BY <1>0, <1>1, TakeOut
  <2>3. Usable(I[ts], ts)
    BY <1>0, <1>1 DEF IsFrameList, Usable
  <2> HIDE DEF inc
  <2>4. IsJitterBuffer(b) /\ ts \notin DOMAIN b.incomplete
         /\ ts \notin DOMAIN b.decodable
    BY <1>0, <1>1, <2>2 DEF IsJitterBuffer, Fields
  <2>5. b.allocated = buf.allocated /\ Outside(b) = Outside(buf) + 1
    BY <1>0, <2>2 DEF Outside, Buffers, Fields
  <2> HIDE DEF b, g
  <2> QED
    BY <1>0, <2>1, <2>3, <2>4, <2>5 DEF g
<1>2. CASE ts \notin DOMAIN I /\ ts \in DOMAIN D
  <2> DEFINE dcd == Without(D, {ts})
             b   == [buf EXCEPT !.decodable = dcd]
  <2>1. g.jb = b /\ g.frame = D[ts] /\ g.ok /\ g.from = "decodable"
    BY <1>2 DEF GetFrame
  <2>2. /\ IsFrameList(dcd) /\ DOMAIN dcd = DOMAIN D \ {ts}
        /\ Cardinality(DOMAIN dcd) = Cardinality(DOMAIN D) - 1
    BY <1>0, <1>2, TakeOut
  <2>3. Usable(D[ts], ts)
    BY <1>0, <1>2 DEF IsFrameList, Usable
  <2> HIDE DEF dcd
  <2>4. IsJitterBuffer(b) /\ ts \notin DOMAIN b.incomplete
         /\ ts \notin DOMAIN b.decodable
    BY <1>0, <1>2, <2>2 DEF IsJitterBuffer, Fields
  <2>5. b.allocated = buf.allocated /\ Outside(b) = Outside(buf) + 1
    BY <1>0, <2>2 DEF Outside, Buffers, Fields
  <2> HIDE DEF b, g
  <2> QED
    BY <1>0, <2>1, <2>3, <2>4, <2>5 DEF g
<1>3. CASE ts \notin DOMAIN I /\ ts \notin DOMAIN D /\ HasEmptyFrame(buf)
  <2> DEFINE b == GetEmptyFrame(buf)
  <2>1. g.jb = b /\ g.frame = ResetFrame /\ g.ok /\ g.from = "none"
    BY <1>3 DEF GetFrame
  <2>2. /\ IsJitterBuffer(b) /\ b.incomplete = I /\ b.decodable = D
        /\ b.allocated >= buf.allocated
        /\ b.allocated <= kMaxNumberOfFrames
        /\ Outside(b) = Outside(buf) + 1
    <3>1. CASE buf.free > 0
      <4>1. b = [buf EXCEPT !.free = buf.free - 1]
        BY <3>1 DEF GetEmptyFrame
      <4> HIDE DEF b
      <4> QED
        BY <1>0, <3>1, <4>1 DEF IsJitterBuffer, Fields, Outside, Buffers
    <3>2. CASE ~(buf.free > 0)
      <4>1. b = [buf EXCEPT !.allocated = buf.allocated + 1]
        BY <3>2 DEF GetEmptyFrame
      <4>2. buf.allocated < kMaxNumberOfFrames
        BY <1>3, <3>2 DEF HasEmptyFrame
      <4> HIDE DEF b
      <4> QED
        BY <1>0, <4>1, <4>2 DEF IsJitterBuffer, Fields, Outside, Buffers
    <3> QED
      BY <3>1, <3>2
  <2>3. Usable(ResetFrame, ts)
    BY ResetFrameType DEF Usable
  <2> HIDE DEF b, g
  <2> QED
    BY <1>3, <2>1, <2>2, <2>3 DEF g
<1>4. CASE ts \notin DOMAIN I /\ ts \notin DOMAIN D /\ ~HasEmptyFrame(buf)
  <2>1. /\ g.jb = IF r.found THEN [r.jb EXCEPT !.free = @ - 1] ELSE r.jb
        /\ g.frame = ResetFrame /\ g.ok = r.found /\ g.from = "none"
    BY <1>4 DEF GetFrame
  <2>2. /\ Conserves(buf, r.jb)
        /\ DOMAIN r.jb.decodable \subseteq DOMAIN D
        /\ DOMAIN r.jb.incomplete \subseteq DOMAIN I
    BY <1>0, RecycleOK
  <2>3. r.jb.free > 0
    BY <1>4, RecyclingYields
  <2>4. Usable(ResetFrame, ts)
    BY ResetFrameType DEF Usable
  <2> DEFINE a == r.jb
             b == [a EXCEPT !.free = @ - 1]
  <2>5. IsJitterBuffer(a) /\ Outside(a) = Outside(buf)
         /\ a.allocated = buf.allocated
    BY <2>2 DEF Conserves, Outside
  <2> HIDE DEF r, g, a
  <2>6. /\ Cardinality(DOMAIN a.decodable) \in Nat
        /\ Cardinality(DOMAIN a.incomplete) \in Nat
        /\ a.free \in Nat /\ a.free > 0 /\ a.allocated \in Nat
        /\ DOMAIN a = Fields
    BY <2>3, <2>5, BuffersType DEF IsJitterBuffer, a
  <2>7. /\ IsJitterBuffer(b) /\ b.decodable = a.decodable
        /\ b.incomplete = a.incomplete /\ b.allocated = a.allocated
        /\ Outside(b) = Outside(a) + 1
    BY <2>5, <2>6 DEF IsJitterBuffer, Fields, Outside, Buffers
  <2>8. Outside(buf) \in Int
    BY <1>0 DEF Outside, Buffers
  <2>9. CASE r.found
    <3>1. g.jb = b /\ g.ok
      BY <2>1, <2>9 DEF a
    <3> HIDE DEF b
    <3> QED
      BY <1>0, <1>4, <2>1, <2>2, <2>4, <2>5, <2>7, <3>1 DEF a, g
  <2>10. CASE ~r.found
    BY <1>0, <2>1, <2>5, <2>10 DEF a, g
  <2> QED
    BY <2>9, <2>10
<1> QED
  BY <1>1, <1>2, <1>3, <1>4

\* The bookkeeping of a received packet only shrinks the lists.
LEMMA NoteReceivedOK ==
  ASSUME NEW buf, IsJitterBuffer(buf), NEW p \in PacketType, NEW ret
  PROVE  Shrinks(buf, NoteReceived(buf, p, ret).jb)
<1> DEFINE u == UpdateNackList(buf, p.seq).jb
           n == NoteReceived(buf, p, ret).jb
           first == [buf EXCEPT !.latest = p.seq, !.fresh = FALSE]
           later == [u EXCEPT !.latest = LatestSequenceNumber(@, p.seq)]
<1>1. n = IF ~Received(ret) THEN buf ELSE IF buf.fresh THEN first ELSE later
  BY DEF NoteReceived
<1>2. p.seq \in SeqNums
  BY DEF PacketType
<1>3. Shrinks(buf, first)
  BY <1>2 DEF Shrinks, Conserves, IsJitterBuffer, Buffers, Fields
<1>4. Shrinks(buf, u)
  BY <1>2, UpdateNackListOK
<1> HIDE DEF u
<1>5. Shrinks(u, later)
  <2> DEFINE latest == LatestSequenceNumber(u.latest, p.seq)
  <2>1. IsJitterBuffer(u)
    BY <1>4 DEF Shrinks, Conserves
  <2>2. latest \in SeqNums
    BY <1>2, <2>1, LatestIsEither DEF IsJitterBuffer
  <2>3. later = [u EXCEPT !.latest = latest]
    OBVIOUS
  <2> HIDE DEF latest, later
  <2> QED
    BY <2>1, <2>2, <2>3 DEF Shrinks, Conserves, IsJitterBuffer, Buffers, Fields
<1> HIDE DEF first, later
<1>6. Shrinks(buf, later)
  BY <1>4, <1>5, ShrinksTrans
<1>7. Shrinks(buf, buf)
  BY DEF Shrinks, Conserves
<1> QED
  BY <1>1, <1>3, <1>6, <1>7

\* The switch at the end of InsertPacket puts the buffer somewhere: in a list
\* that has nothing under its timestamp, or in the pool.
Placed(a, b) ==
  /\ IsJitterBuffer(b)
  /\ Buffers(b) = Buffers(a) + 1
  /\ b.allocated = a.allocated

\* The switch at the end of InsertPacket puts the frame in one place: a list or
\* the free list.
LEMMA PlaceFrameOK ==
  ASSUME NEW buf, IsJitterBuffer(buf), NEW f \in Frame, HasPacket(f),
         f.ts \notin DOMAIN buf.decodable, f.ts \notin DOMAIN buf.incomplete,
         NEW ret \in Returns \cup {"kFlushIndicator"},
         NEW from \in {"incomplete", "decodable", "none"}
  PROVE  Placed(buf, PlaceFrame(buf, f, ret, from))
<1> DEFINE I      == buf.incomplete
           D      == buf.decodable
           toInc  == [buf EXCEPT !.incomplete = InsertFrame(I, f)]
           toDec  == [buf EXCEPT !.decodable = InsertFrame(D, f)]
           toFree == [buf EXCEPT !.free = @ + 1]
           last   == AfterEmpty(buf.last, f)
           drop   == [buf EXCEPT !.last = last, !.free = @ + 1]
<1>0. /\ DOMAIN buf = Fields /\ buf.free \in Nat
      /\ IsFrameList(I) /\ IsFrameList(D) /\ DOMAIN D \cap DOMAIN I = {}
      /\ Cardinality(DOMAIN D) \in Nat /\ Cardinality(DOMAIN I) \in Nat
  BY BuffersType DEF IsJitterBuffer
<1>1. Placed(buf, toInc)
  <2> DEFINE inc == InsertFrame(I, f)
  <2>1. /\ IsFrameList(inc) /\ DOMAIN inc = DOMAIN I \cup {f.ts}
        /\ Cardinality(DOMAIN inc) = Cardinality(DOMAIN I) + 1
    BY <1>0, InsertFrameType
  <2> HIDE DEF inc
  <2>2. (DOMAIN I \cup {f.ts}) \cap DOMAIN D = {}
    BY <1>0
  <2>3. IsJitterBuffer([buf EXCEPT !.incomplete = inc])
    BY <1>0, <2>1, <2>2 DEF IsJitterBuffer, Fields
  <2>4. Buffers([buf EXCEPT !.incomplete = inc]) = Buffers(buf) + 1
    BY <1>0, <2>1 DEF Buffers, Fields
  <2> QED
    BY <1>0, <2>3, <2>4 DEF Placed, Fields, inc
<1>2. Placed(buf, toDec)
  <2> DEFINE dcd == InsertFrame(D, f)
  <2>1. /\ IsFrameList(dcd) /\ DOMAIN dcd = DOMAIN D \cup {f.ts}
        /\ Cardinality(DOMAIN dcd) = Cardinality(DOMAIN D) + 1
    BY <1>0, InsertFrameType
  <2> HIDE DEF dcd
  <2>2. (DOMAIN D \cup {f.ts}) \cap DOMAIN I = {}
    BY <1>0
  <2>3. IsJitterBuffer([buf EXCEPT !.decodable = dcd])
    BY <1>0, <2>1, <2>2 DEF IsJitterBuffer, Fields
  <2>4. Buffers([buf EXCEPT !.decodable = dcd]) = Buffers(buf) + 1
    BY <1>0, <2>1 DEF Buffers, Fields
  <2> QED
    BY <1>0, <2>3, <2>4 DEF Placed, Fields, dcd
<1>3. Placed(buf, toFree)
  BY <1>0 DEF Placed, IsJitterBuffer, Buffers, Fields
<1>4. Placed(buf, drop)
  <2>1. last \in DecodingStates
    BY AfterEmptyType DEF IsJitterBuffer
  <2> HIDE DEF last
  <2> QED
    BY <1>0, <2>1 DEF Placed, IsJitterBuffer, Buffers, Fields
<1>5. Placed(buf, FindAndInsertContinuousFrames(toDec, f))
  <2>1. IsJitterBuffer(toDec)
    BY <1>2 DEF Placed
  <2> DEFINE ds == SetState(toDec.last, f)
  <2>2. FindAndInsertContinuousFrames(toDec, f)
          = FindAndInsertContinuousFramesWithState(toDec, ds)
    BY DEF FindAndInsertContinuousFrames
  <2> HIDE DEF toDec, ds
  <2>3. Conserves(toDec, FindAndInsertContinuousFramesWithState(toDec, ds))
    BY <2>1, FindAndInsertOK
  <2> QED
    BY <1>2, <2>2, <2>3 DEF Placed, Conserves
<1>6. PlaceFrame(buf, f, ret, from) \in
        {toInc, toDec, toFree, drop, FindAndInsertContinuousFrames(toDec, f)}
  <2>1. PutBack(buf, f, from) \in {toInc, toDec, toFree}
    BY DEF PutBack
  <2> QED
    BY <2>1 DEF PlaceFrame, Returns
<1> HIDE DEF toInc, toDec, toFree, drop
<1> QED
  BY <1>1, <1>2, <1>3, <1>4, <1>5, <1>6

\* InsertPacket, on every path: the buffer it works on ends up where the next
\* call finds it, and the pool does not outgrow its limit.
Accounted(a, b) ==
  /\ IsJitterBuffer(b)
  /\ Outside(b) = Outside(a)
  /\ b.allocated >= a.allocated
  /\ b.allocated <= kMaxNumberOfFrames

\* Shrinking the lists does not touch the buffer outside of them.
LEMMA ShrinksAccounted ==
  ASSUME NEW a, PoolReady(a), NEW b, Shrinks(a, b) \/ Conserves(a, b)
  PROVE  Accounted(a, b)
BY DEF Shrinks, Conserves, Accounted, Outside, PoolReady, IsJitterBuffer

\* A packet of an old frame conserves the pool, with or without a flush.
LEMMA InsertOldPacketOK ==
  ASSUME NEW buf, IsJitterBuffer(buf), NEW p \in PacketType
  PROVE  Conserves(buf, InsertOldPacket(buf, p).jb)
<1> DEFINE count == buf.old + p.size
           last  == UpdateOldPacket(buf.last, p)
           missing == DropPacketsFromNackList(buf.missing, last.seq)
           a     == [buf EXCEPT !.old = count, !.last = last,
                               !.missing = missing]
           moved == FindAndInsertContinuousFramesWithState(a, last)
<1>1. InsertOldPacket(buf, p).jb \in {Flush(moved), moved}
  BY DEF InsertOldPacket
<1>2. count \in Nat
  BY DEF IsJitterBuffer, PacketType
<1>3. last \in DecodingStates
  BY UpdateOldPacketType DEF IsJitterBuffer
<1>4. missing \subseteq SeqNums
  BY DEF DropPacketsFromNackList, IsJitterBuffer
<1> HIDE DEF count, last, missing
<1>5. Conserves(buf, a)
  BY <1>2, <1>3, <1>4 DEF Conserves, IsJitterBuffer, Buffers, Fields
<1> HIDE DEF a
<1>6. Conserves(a, moved)
  BY <1>5, FindAndInsertOK DEF Conserves
<1> HIDE DEF moved
<1>7. Conserves(moved, Flush(moved))
  BY <1>6, FlushOK DEF Conserves, Shrinks
<1> QED
  BY <1>1, <1>5, <1>6, <1>7 DEF Conserves

\* So does a packet of a frame that is not old, on every path.
LEMMA InsertIntoFrameOK ==
  ASSUME NEW buf, PoolReady(buf), NEW p \in PacketType
  PROVE  Accounted(buf, InsertIntoFrame(buf, p).jb)
<1> DEFINE a    == [buf EXCEPT !.old = 0]
           g    == GetFrame(a, p.ts)
           b    == FrameInsertPacket(g.frame, p, buf.error_mode)
           n    == NoteReceived(g.jb, p, b.ret)
           nack == Received(b.ret) /\ ~buf.fresh /\ p.seq \in g.jb.missing
           f    == [b.frame EXCEPT !.nacked = @ \/ nack]
           ret  == IF n.ok THEN b.ret ELSE "kFlushIndicator"
<1>1. InsertIntoFrame(buf, p).jb
        = IF ~g.ok THEN g.jb ELSE PlaceFrame(n.jb, f, ret, g.from)
  BY DEF InsertIntoFrame, InsertIfFound, NoteAndPutAway, PutAway
<1>2. /\ PoolReady(a) /\ Outside(a) = Outside(buf)
      /\ a.allocated = buf.allocated
  BY DEF PoolReady, IsJitterBuffer, Buffers, Outside, HasEmptyFrame, Fields
<1> HIDE DEF a
<1>3. /\ IsJitterBuffer(g.jb)
      /\ g.jb.allocated >= a.allocated
      /\ g.jb.allocated <= kMaxNumberOfFrames
      /\ g.ok => /\ Outside(g.jb) = Outside(a) + 1
                 /\ p.ts \notin DOMAIN g.jb.decodable
                 /\ p.ts \notin DOMAIN g.jb.incomplete
                 /\ Usable(g.frame, p.ts)
      /\ ~g.ok => Outside(g.jb) = Outside(a)
      /\ g.from \in {"incomplete", "decodable", "none"}
  BY <1>2, GetFrameOK
<1> HIDE DEF g
<1>4. CASE ~g.ok
  BY <1>1, <1>2, <1>3, <1>4 DEF Accounted
<1>5. CASE g.ok
  <2>1. /\ b.frame \in Frame /\ b.frame.ts = p.ts /\ HasPacket(b.frame)
        /\ b.ret \in Returns
    <3>1. buf.error_mode \in Modes
      BY JitterBufferAssumption DEF Modes, PoolReady, IsJitterBuffer
    <3> QED
      BY <1>3, <1>5, <3>1, FrameInsertPacketType DEF Usable
  <2> HIDE DEF b
  <2>2. f \in Frame /\ f.ts = p.ts /\ HasPacket(f)
    <3> DEFINE nk == b.frame.nacked \/ nack
    <3>1. nk \in BOOLEAN
      OBVIOUS
    <3>2. f = [b.frame EXCEPT !.nacked = nk]
      OBVIOUS
    <3> HIDE DEF nk, f
    <3> QED
      BY <2>1, <3>1, <3>2 DEF Frame, HasPacket
  <2>3. Shrinks(g.jb, n.jb)
    BY <1>3, NoteReceivedOK
  <2>4. ret \in Returns \cup {"kFlushIndicator"}
    BY <2>1
  <2> HIDE DEF f, n, ret
  <2>5. Placed(n.jb, PlaceFrame(n.jb, f, ret, g.from))
    <3>1. /\ IsJitterBuffer(n.jb)
          /\ f.ts \notin DOMAIN n.jb.decodable
          /\ f.ts \notin DOMAIN n.jb.incomplete
      BY <1>3, <1>5, <2>2, <2>3 DEF Shrinks, Conserves
    <3> QED
      BY <1>3, <2>2, <2>4, <3>1, PlaceFrameOK
  <2>6. /\ Buffers(g.jb) \in Nat /\ g.jb.allocated \in Nat
        /\ Buffers(a) \in Nat /\ a.allocated \in Nat
    BY <1>2, <1>3, BuffersType DEF IsJitterBuffer, PoolReady
  <2>7. /\ Buffers(n.jb) = Buffers(g.jb) /\ n.jb.allocated = g.jb.allocated
    BY <2>3 DEF Shrinks, Conserves
  <2> QED
    BY <1>1, <1>2, <1>3, <1>5, <2>5, <2>6, <2>7
    DEF Accounted, Placed, Outside
<1> QED
  BY <1>4, <1>5

\* VCMJitterBuffer::InsertPacket conserves the pool.
LEMMA InsertPacketOK ==
  ASSUME NEW buf, PoolReady(buf), NEW p \in PacketType
  PROVE  Accounted(buf, InsertPacket(buf, p).jb)
<1>1. Accounted(buf, InsertOldPacket(buf, p).jb)
  BY InsertOldPacketOK, ShrinksAccounted DEF PoolReady
<1> QED
  BY <1>1, InsertIntoFrameOK DEF InsertPacket

-----------------------------------------------------------------------------
(* GetNackList.                                                            *)
\* Skipping to the last key frame leaves the frames where they are.
LEMMA SkipToLastKeyOK ==
  ASSUME NEW buf, IsJitterBuffer(buf), NEW request
  PROVE  Conserves(buf, SkipToLastKey(buf, request).jb)
<1> DEFINE inc  == buf.incomplete
           keys == {t \in DOMAIN inc : inc[t].type = "key"}
           low  == EstimatedLowSequenceNumber(inc[NewestTs(keys)])
           missing == DropPacketsFromNackList(buf.missing, low)
           skip == [buf EXCEPT !.last = InitialState, !.missing = missing]
<1>1. SkipToLastKey(buf, request).jb \in {buf, skip}
  BY DEF SkipToLastKey
<1>2. missing \subseteq SeqNums
  BY DEF DropPacketsFromNackList, IsJitterBuffer
<1> HIDE DEF missing
<1>3. Conserves(buf, skip)
  BY <1>2, InitialStateType DEF Conserves, IsJitterBuffer, Buffers, Fields
<1> QED
  BY <1>1, <1>3 DEF Conserves

\* GetNackList conserves the pool.
LEMMA GetNackListOK ==
  ASSUME NEW buf, IsJitterBuffer(buf)
  PROVE  Conserves(buf, GetNackList(buf).jb)
<1> DEFINE seek   == buf.last.initial /\ ~NextFrameIsKey(buf)
           r      == RecycleFramesUntilKeyFrame(buf)
           a      == IF seek THEN r.jb ELSE buf
           shrunk == HandleTooLargeNackList(a)
<1>1. Conserves(buf, r.jb)
  BY RecycleOK
<1> HIDE DEF r
<1>2. Conserves(buf, a)
  BY <1>1 DEF Conserves
<1>3. GetNackList(buf).jb \in {buf, r.jb, SkipToLastKey(a, FALSE).jb,
                              SkipToLastKey(shrunk.jb, ~shrunk.found).jb}
  BY DEF GetNackList, r
<1> HIDE DEF a
<1>4. Conserves(a, shrunk.jb)
  BY <1>2, HandleTooLargeNackListOK DEF Conserves
<1> HIDE DEF shrunk
<1>5. Conserves(shrunk.jb, SkipToLastKey(shrunk.jb, ~shrunk.found).jb)
  BY <1>4, SkipToLastKeyOK DEF Conserves
<1>6. Conserves(a, SkipToLastKey(a, FALSE).jb)
  BY <1>2, SkipToLastKeyOK DEF Conserves
<1> QED
  BY <1>1, <1>2, <1>3, <1>4, <1>5, <1>6 DEF Conserves

-----------------------------------------------------------------------------
(* What the methods leave of the NACK list.  Most of them throw frames and *)
(* sequence numbers away and remember at most one of the frames they saw.  *)
PartOf(part, list) ==
  DOMAIN part \subseteq DOMAIN list /\ \A t \in DOMAIN part : part[t] = list[t]

\* The last decoded state of b is that of a, or names one of the frames.
Remembers(a, frames, b) ==
  \/ b.last.initial
  \/ ~a.last.initial /\ b.last.seq = a.last.seq
  \/ \E f \in frames : b.last.seq = HighSeq(f)

\* b comes from a and the frames by throwing some of what there is away.
Sheds(a, frames, b) ==
  /\ b.running = a.running
  /\ b.fresh = a.fresh
  /\ b.latest = a.latest
  /\ b.nack_mode = a.nack_mode
  /\ b.missing \subseteq a.missing
  /\ Lists(b) \subseteq frames
  /\ Remembers(a, frames, b)

\* The lists of b are parts of those of a, and b remembers the same or nothing.
Drops(a, b) ==
  /\ PartOf(b.decodable, a.decodable)
  /\ PartOf(b.incomplete, a.incomplete)
  /\ b.last.initial \/ b.last = a.last

\* Parts of the two lists hold no other frames than the lists.
LEMMA PartsInLists ==
  ASSUME NEW a, NEW b, PartOf(b.decodable, a.decodable),
         PartOf(b.incomplete, a.incomplete)
  PROVE  Lists(b) \subseteq Lists(a)
BY DEF PartOf, Lists

\* Keeping or erasing timestamps leaves a part of a list.
LEMMA KeepIsPartOf ==
  ASSUME NEW list
  PROVE  /\ \A S : PartOf(Keep(list, S), list)
         /\ \A S : PartOf(Without(list, S), list)
         /\ PartOf(EmptyList, list)
         /\ PartOf(list, list)
BY DEF PartOf, Keep, Without, EmptyList

\* A method that changes nothing throws nothing away.
LEMMA ShedsNothing ==
  ASSUME NEW buf
  PROVE  Sheds(buf, Lists(buf), buf) /\ Drops(buf, buf)
BY DEF Sheds, Remembers, Drops, PartOf

\* Throwing away twice.
LEMMA ShedsTrans ==
  ASSUME NEW a, NEW b, NEW c, NEW frames, NEW fewer, fewer \subseteq frames,
         Sheds(a, frames, b), Sheds(b, fewer, c)
  PROVE  Sheds(a, frames, c)
BY DEF Sheds, Remembers

\* Dropping twice.
LEMMA DropsTrans ==
  ASSUME NEW a, NEW b, NEW c, Drops(a, b), Drops(b, c)
  PROVE  Drops(a, c)
BY DEF Drops, PartOf

\* A method that leaves the lists and the last decoded state alone.
LEMMA DropsSame ==
  ASSUME NEW a, NEW b, b.decodable = a.decodable, b.incomplete = a.incomplete,
         b.last = a.last
  PROVE  Drops(a, b)
BY DEF Drops, PartOf

\* RecycleFramesUntilKeyFrame.
LEMMA RecycleSheds ==
  ASSUME NEW buf, IsJitterBuffer(buf)
  PROVE  LET b == RecycleFramesUntilKeyFrame(buf).jb
         IN  Sheds(buf, Lists(buf), b) /\ Drops(buf, b)
<1> DEFINE fromIncomplete == ~IsEmptyList(buf.incomplete)
           list  == IF fromIncomplete THEN buf.incomplete ELSE buf.decodable
           rest  == RecycledRest(list)
           found == ~IsEmptyList(rest)
           dcd   == IF fromIncomplete THEN buf.decodable ELSE rest
           inc   == IF fromIncomplete THEN rest ELSE buf.incomplete
           fresh == found \/ IsEmptyList(dcd)
           last  == IF fresh THEN InitialState ELSE buf.last
           free  == buf.free + Cardinality(DOMAIN list)
                            - Cardinality(DOMAIN rest)
           missing == IF found
                        THEN DropPacketsFromNackList(buf.missing,
                               EstimatedLowSequenceNumber(Front(rest)))
                      ELSE IF fresh THEN {} ELSE buf.missing
           b == [buf EXCEPT !.incomplete = inc, !.decodable = dcd,
                           !.free = free, !.last = last, !.missing = missing]
<1>1. RecycleFramesUntilKeyFrame(buf).jb = b
  BY DEF RecycleFramesUntilKeyFrame
<1>2. last.initial \/ last = buf.last
  BY DEF InitialState
<1>3. missing \subseteq buf.missing
  BY DEF DropPacketsFromNackList
<1>4. PartOf(rest, list)
  BY KeepIsPartOf DEF RecycledRest
<1>5. PartOf(inc, buf.incomplete) /\ PartOf(dcd, buf.decodable)
  <2> HIDE DEF rest
  <2> QED
    BY <1>4, KeepIsPartOf
<1> HIDE DEF inc, dcd, free, last, missing
<1>6. /\ b.running = buf.running /\ b.fresh = buf.fresh /\ b.latest = buf.latest
      /\ b.nack_mode = buf.nack_mode /\ b.missing = missing /\ b.last = last
      /\ b.decodable = dcd /\ b.incomplete = inc
  BY DEF IsJitterBuffer, Fields
<1> HIDE DEF b
<1>7. Lists(b) \subseteq Lists(buf)
  BY <1>5, <1>6, PartsInLists
<1>8. Drops(buf, b)
  BY <1>2, <1>5, <1>6 DEF Drops
<1> QED
  BY <1>1, <1>2, <1>3, <1>6, <1>7, <1>8 DEF Sheds, Remembers

\* What a loop of recycling leaves behind.
LEMMA RecycledSheds ==
  ASSUME NEW buf, IsJitterBuffer(buf),
         NEW inc, PartOf(inc, buf.incomplete),
         NEW dcd, PartOf(dcd, buf.decodable),
         NEW missing, missing \subseteq buf.missing
  PROVE  /\ Sheds(buf, Lists(buf), Recycled(buf, inc, dcd, missing))
         /\ Drops(buf, Recycled(buf, inc, dcd, missing))
         /\ Recycled(buf, inc, dcd, missing).missing = missing
<1> DEFINE free == buf.free
              + Cardinality(DOMAIN buf.incomplete) - Cardinality(DOMAIN inc)
              + Cardinality(DOMAIN buf.decodable) - Cardinality(DOMAIN dcd)
           b == Recycled(buf, inc, dcd, missing)
<1>1. b = [buf EXCEPT !.incomplete = inc, !.decodable = dcd, !.free = free,
                     !.last = InitialState, !.missing = missing]
  BY DEF Recycled
<1> HIDE DEF b, free
<1>2. /\ b.running = buf.running /\ b.fresh = buf.fresh /\ b.latest = buf.latest
      /\ b.nack_mode = buf.nack_mode /\ b.missing = missing
      /\ b.last = InitialState /\ b.decodable = dcd /\ b.incomplete = inc
  BY <1>1 DEF IsJitterBuffer, Fields
<1>3. Lists(b) \subseteq Lists(buf)
  BY <1>2, PartsInLists
<1>4. Drops(buf, b)
  BY <1>2 DEF Drops, InitialState
<1> QED
  BY <1>2, <1>3, <1>4 DEF Sheds, Remembers, InitialState, b

\* HandleTooLargeNackList ends with a list that is not too large, and with an
\* empty one when it has found no key frame.
LEMMA HandleTooLargeSheds ==
  ASSUME NEW buf, IsJitterBuffer(buf)
  PROVE  LET r == HandleTooLargeNackList(buf)
         IN  /\ Sheds(buf, Lists(buf), r.jb) /\ Drops(buf, r.jb)
             /\ r.jb.missing = {} \/ ~TooLargeNackList(r.jb.missing)
             /\ ~r.found => r.jb.missing = {}
<1> DEFINE inc     == buf.incomplete
           dcd     == buf.decodable
           goodInc == {k \in LaterKeys(inc) :
                         ~TooLargeNackList(MissingAt(inc, buf.missing, k))}
           passed  == MissingAfter(inc, buf.missing)
           goodDec == {k \in LaterKeys(dcd) :
                         ~TooLargeNackList(MissingAt(dcd, passed, k))}
           restInc == IF goodInc # {}
                        THEN Keep(inc, FromKey(inc, OldestTs(goodInc)))
                        ELSE EmptyList
           restDec == IF goodInc # {} THEN dcd
                      ELSE IF goodDec # {}
                        THEN Keep(dcd, FromKey(dcd, OldestTs(goodDec)))
                      ELSE EmptyList
           missing == IF goodInc # {}
                        THEN MissingAt(inc, buf.missing, OldestTs(goodInc))
                      ELSE IF goodDec # {}
                        THEN MissingAt(dcd, passed, OldestTs(goodDec))
                      ELSE {}
           r == HandleTooLargeNackList(buf)
<1>1. /\ r.jb = Recycled(buf, restInc, restDec, missing)
      /\ r.found = (goodInc # {} \/ goodDec # {})
  BY DEF HandleTooLargeNackList, RecycleWhile, Recycled
<1>2. missing \subseteq buf.missing
  BY DEF MissingAt, MissingAfter
<1>3. PartOf(restInc, buf.incomplete) /\ PartOf(restDec, buf.decodable)
  <2> HIDE DEF goodInc, goodDec
  <2> QED
    BY KeepIsPartOf
<1>4. missing = {} \/ ~TooLargeNackList(missing)
  <2>1. CASE goodInc # {}
    <3>1. OldestTs(goodInc) \in goodInc
      BY <2>1, OldestNewest
    <3> QED
      BY <2>1, <3>1
  <2>2. CASE goodInc = {} /\ goodDec # {}
    <3>1. OldestTs(goodDec) \in goodDec
      BY <2>2, OldestNewest
    <3> QED
      BY <2>2, <3>1
  <2>3. CASE goodInc = {} /\ goodDec = {}
    BY <2>3
  <2> QED
    BY <2>1, <2>2, <2>3
<1>5. ~r.found => missing = {}
  BY <1>1
<1> HIDE DEF restInc, restDec, missing
<1> QED
  BY <1>1, <1>2, <1>3, <1>4, <1>5, RecycledSheds

\* HandleTooOldPackets ends with no packet that is too old.
LEMMA HandleTooOldSheds ==
  ASSUME NEW buf, IsJitterBuffer(buf), NEW seq
  PROVE  LET b == HandleTooOldPackets(buf, seq).jb
         IN  /\ Sheds(buf, Lists(buf), b) /\ Drops(buf, b)
             /\ ~MissingTooOldPacket(b.missing, seq)
<1> DEFINE inc     == buf.incomplete
           dcd     == buf.decodable
           goodInc == {k \in LaterKeys(inc) :
                     ~MissingTooOldPacket(MissingAt(inc, buf.missing, k), seq)}
           passed  == MissingAfter(inc, buf.missing)
           goodDec == {k \in LaterKeys(dcd) :
                     ~MissingTooOldPacket(MissingAt(dcd, passed, k), seq)}
           restInc == IF goodInc # {}
                        THEN Keep(inc, FromKey(inc, OldestTs(goodInc)))
                        ELSE EmptyList
           restDec == IF goodInc # {} THEN dcd
                      ELSE IF goodDec # {}
                        THEN Keep(dcd, FromKey(dcd, OldestTs(goodDec)))
                      ELSE EmptyList
           missing == IF goodInc # {}
                        THEN MissingAt(inc, buf.missing, OldestTs(goodInc))
                      ELSE IF goodDec # {}
                        THEN MissingAt(dcd, passed, OldestTs(goodDec))
                      ELSE {}
<1>1. HandleTooOldPackets(buf, seq).jb = Recycled(buf, restInc, restDec, missing)
  BY DEF HandleTooOldPackets, RecycleWhile, Recycled
<1>2. missing \subseteq buf.missing
  BY DEF MissingAt, MissingAfter
<1>3. PartOf(restInc, buf.incomplete) /\ PartOf(restDec, buf.decodable)
  <2> HIDE DEF goodInc, goodDec
  <2> QED
    BY KeepIsPartOf
<1>4. ~MissingTooOldPacket(missing, seq)
  <2>1. CASE goodInc # {}
    <3>1. OldestTs(goodInc) \in goodInc
      BY <2>1, OldestNewest
    <3> QED
      BY <2>1, <3>1
  <2>2. CASE goodInc = {} /\ goodDec # {}
    <3>1. OldestTs(goodDec) \in goodDec
      BY <2>2, OldestNewest
    <3> QED
      BY <2>2, <3>1
  <2>3. CASE goodInc = {} /\ goodDec = {}
    BY <2>3 DEF MissingTooOldPacket
  <2> QED
    BY <2>1, <2>2, <2>3
<1> HIDE DEF restInc, restDec, missing
<1> QED
  BY <1>1, <1>2, <1>3, <1>4, RecycledSheds

\* A set of sequence numbers is finite.
LEMMA FiniteSeqNums ==
  ASSUME NEW S, S \subseteq SeqNums
  PROVE  IsFiniteSet(S) /\ Cardinality(S) \in Nat
<1>1. IsFiniteSet(SeqNums)
  BY FS_Interval, HalfAssumption DEF SeqNums
<1> QED
  BY <1>1, FS_Subset, FS_CardinalityType

Short(missing) == Cardinality(missing) <= MaxNackListSize

\* A part of a short list is short.
LEMMA ShortPart ==
  ASSUME NEW S, S \subseteq SeqNums, Short(S), NEW T, T \subseteq S
  PROVE  Short(T)
<1>1. IsFiniteSet(S) /\ Cardinality(S) \in Nat
  BY FiniteSeqNums
<1>2. Cardinality(T) \in Nat /\ Cardinality(T) <= Cardinality(S)
  BY <1>1, FS_Subset, FS_CardinalityType
<1> QED
  BY <1>1, <1>2, JitterBufferAssumption DEF Short

\* The empty list is short, and a list that is not too large is.
LEMMA ShortOrTooLarge ==
  ASSUME NEW S, S \subseteq SeqNums, S = {} \/ ~TooLargeNackList(S)
  PROVE  Short(S)
<1>1. Cardinality(S) \in Nat
  BY FiniteSeqNums
<1>2. CASE S = {}
  BY <1>2, FS_EmptySet, JitterBufferAssumption DEF Short
<1>3. CASE ~TooLargeNackList(S)
  BY <1>1, <1>3, JitterBufferAssumption DEF Short, TooLargeNackList
<1> QED
  BY <1>2, <1>3

\* The two loops bring the list within both limits.
LEMMA ShrinkNackListSheds ==
  ASSUME NEW buf, IsJitterBuffer(buf), NEW seq
  PROVE  LET b == ShrinkNackList(buf, seq).jb
         IN  /\ Sheds(buf, Lists(buf), b) /\ Drops(buf, b)
             /\ Short(b.missing)
             /\ ~MissingTooOldPacket(b.missing, seq)
<1> DEFINE a == IF TooLargeNackList(buf.missing)
                  THEN HandleTooLargeNackList(buf)
                  ELSE [jb |-> buf, found |-> TRUE]
<1>1. ShrinkNackList(buf, seq)
        = IF a.found /\ MissingTooOldPacket(a.jb.missing, seq)
            THEN HandleTooOldPackets(a.jb, seq)
            ELSE a
  BY DEF ShrinkNackList
<1>2. /\ Sheds(buf, Lists(buf), a.jb) /\ Drops(buf, a.jb)
      /\ a.jb.missing = {} \/ ~TooLargeNackList(a.jb.missing)
      /\ ~a.found => a.jb.missing = {}
  <2>1. CASE TooLargeNackList(buf.missing)
    BY <2>1, HandleTooLargeSheds
  <2>2. CASE ~TooLargeNackList(buf.missing)
    BY <2>2, ShedsNothing
  <2> QED
    BY <2>1, <2>2
<1>3. IsJitterBuffer(a.jb)
  <2>1. CASE TooLargeNackList(buf.missing)
    BY <2>1, HandleTooLargeNackListOK DEF Conserves
  <2>2. CASE ~TooLargeNackList(buf.missing)
    BY <2>2
  <2> QED
    BY <2>1, <2>2
<1> HIDE DEF a
<1>4. Short(a.jb.missing) /\ a.jb.missing \subseteq SeqNums
  BY <1>2, <1>3, ShortOrTooLarge DEF IsJitterBuffer
<1>5. CASE a.found /\ MissingTooOldPacket(a.jb.missing, seq)
  <2> DEFINE b == HandleTooOldPackets(a.jb, seq).jb
  <2>1. /\ Sheds(a.jb, Lists(a.jb), b) /\ Drops(a.jb, b)
        /\ ~MissingTooOldPacket(b.missing, seq)
    BY <1>3, HandleTooOldSheds
  <2> HIDE DEF b
  <2>2. Sheds(buf, Lists(buf), b) /\ Drops(buf, b)
    <3>1. Lists(a.jb) \subseteq Lists(buf)
      BY <1>2 DEF Sheds
    <3>2. Sheds(buf, Lists(buf), b)
      BY <1>2, <2>1, <3>1, ShedsTrans
    <3> QED
      BY <1>2, <2>1, <3>2, DropsTrans
  <2>3. Short(b.missing)
    BY <1>4, <2>1, ShortPart DEF Sheds
  <2>4. ShrinkNackList(buf, seq).jb = b
    BY <1>1, <1>5 DEF b
  <2> QED
    BY <2>1, <2>2, <2>3, <2>4
<1>6. CASE ~(a.found /\ MissingTooOldPacket(a.jb.missing, seq))
  <2>1. ~MissingTooOldPacket(a.jb.missing, seq)
    BY <1>2, <1>6 DEF MissingTooOldPacket
  <2> QED
    BY <1>1, <1>2, <1>4, <1>6, <2>1
<1> QED
  BY <1>5, <1>6

\* What UpdateNackList compares a sequence number with.
NewestKnown(buf) ==
  IF buf.last.initial THEN buf.latest
                     ELSE LatestSequenceNumber(buf.latest, buf.last.seq)

\* How the NACK list and the lists come out of UpdateNackList.
Updated(a, seq, b) ==
  /\ b.running = a.running
  /\ b.fresh = a.fresh
  /\ b.nack_mode = a.nack_mode
  /\ Short(a.missing) => Short(b.missing)
  /\ Lists(b) \subseteq Lists(a)
  /\ Remembers(a, Lists(a), b)
  /\ Drops(a, b)
  /\ \/ a.nack_mode = "kNoNack" /\ b.missing = a.missing /\ b.latest = a.latest
     \/ /\ IsNewerSequenceNumber(seq, NewestKnown(a))
        /\ a.nack_mode # "kNoNack"
        /\ b.latest = NewestKnown(a)
        /\ b.missing \subseteq a.missing \cup SeqNumsBetween(NewestKnown(a), seq)
        /\ ~MissingTooOldPacket(b.missing, seq)
     \/ /\ ~IsNewerSequenceNumber(seq, NewestKnown(a))
        /\ b.latest = NewestKnown(a)
        /\ b.missing = a.missing \ {seq}

\* UpdateNackList.
LEMMA UpdateNackListEffect ==
  ASSUME NEW buf, IsJitterBuffer(buf), NEW seq \in SeqNums
  PROVE  Updated(buf, seq, UpdateNackList(buf, seq).jb)
<1> DEFINE latest  == NewestKnown(buf)
           newer   == IsNewerSequenceNumber(seq, latest)
           more    == buf.missing \cup SeqNumsBetween(latest, seq)
           less    == buf.missing \ {seq}
           grown   == [buf EXCEPT !.latest = latest, !.missing = more]
           erased  == [buf EXCEPT !.latest = latest, !.missing = less]
<1>1. UpdateNackList(buf, seq).jb
        = IF buf.nack_mode = "kNoNack" THEN buf
          ELSE IF newer THEN ShrinkNackList(grown, seq).jb
          ELSE erased
  BY DEF UpdateNackList, NewestKnown
<1>2. latest \in SeqNums
  BY LatestIsEither DEF IsJitterBuffer, DecodingStates, NewestKnown
<1>3. more \subseteq SeqNums /\ less \subseteq buf.missing /\ buf.missing \subseteq SeqNums
  BY DEF IsJitterBuffer, SeqNumsBetween
<1> HIDE DEF latest
<1>4. CASE buf.nack_mode = "kNoNack"
  BY <1>1, <1>4, ShedsNothing DEF Updated, Remembers
<1>5. CASE buf.nack_mode # "kNoNack" /\ newer
  <2> DEFINE b == ShrinkNackList(grown, seq).jb
  <2>1. UpdateNackList(buf, seq).jb = b
    BY <1>1, <1>5
  <2> HIDE DEF more
  <2>2. /\ grown.running = buf.running /\ grown.fresh = buf.fresh
        /\ grown.latest = latest /\ grown.nack_mode = buf.nack_mode
        /\ grown.missing = more /\ grown.last = buf.last
        /\ grown.decodable = buf.decodable /\ grown.incomplete = buf.incomplete
        /\ IsJitterBuffer(grown)
    BY <1>2, <1>3 DEF IsJitterBuffer, Fields
  <2> HIDE DEF grown
  <2>3. /\ Sheds(grown, Lists(grown), b) /\ Short(b.missing)
        /\ Drops(grown, b)
        /\ ~MissingTooOldPacket(b.missing, seq)
    BY <2>2, ShrinkNackListSheds
  <2>4. Lists(grown) = Lists(buf)
    BY <2>2 DEF Lists
  <2> HIDE DEF b
  <2>5. Remembers(buf, Lists(buf), b)
    BY <2>2, <2>3, <2>4 DEF Sheds, Remembers
  <2>6. b.missing \subseteq buf.missing \cup SeqNumsBetween(latest, seq)
    BY <2>2, <2>3 DEF Sheds, more
  <2>7. Drops(buf, b)
    BY <2>2, <2>3 DEF Drops
  <2> QED
    BY <1>5, <2>1, <2>2, <2>3, <2>4, <2>5, <2>6, <2>7 DEF Updated, Sheds, latest
<1>6. CASE buf.nack_mode # "kNoNack" /\ ~newer
  <2>1. UpdateNackList(buf, seq).jb = erased
    BY <1>1, <1>6
  <2>2. /\ erased.running = buf.running /\ erased.fresh = buf.fresh
        /\ erased.latest = latest /\ erased.nack_mode = buf.nack_mode
        /\ erased.missing = less /\ erased.last = buf.last
        /\ erased.decodable = buf.decodable /\ erased.incomplete = buf.incomplete
    BY DEF IsJitterBuffer, Fields
  <2> HIDE DEF erased
  <2>3. Lists(erased) = Lists(buf)
    BY <2>2 DEF Lists
  <2>4. Short(buf.missing) => Short(less)
    BY <1>3, ShortPart
  <2>5. Drops(buf, erased)
    BY <2>2, DropsSame
  <2> QED
    BY <1>6, <2>1, <2>2, <2>3, <2>4, <2>5 DEF Updated, Remembers, latest
<1> QED
  BY <1>4, <1>5, <1>6

\* What dropping empty frames leaves of the last decoded state: nothing new, or
\* the sequence number of one of them.
LEMMA LastAfterCleanUpIs ==
  ASSUME NEW list, NEW last
  PROVE  LET after == LastAfterCleanUp(list, last)
         IN  \/ after = last
             \/ ~last.initial /\ \E t \in DOMAIN list : after = AfterEmpty(last, list[t])
<1> DEFINE E == {t \in CleanedUp(list, last) :
                   list[t].state = "kStateEmpty"
                     /\ t # NewestTs(DOMAIN list)}
<1>1. LastAfterCleanUp(list, last) = OverEmpty(list, last, E)
  BY DEF LastAfterCleanUp
<1>2. E \subseteq DOMAIN list
  BY DEF CleanedUp
<1>3. E # {} => NewestTs(E) \in E
  BY OldestNewest
<1> HIDE DEF E
<1> QED
  BY <1>1, <1>2, <1>3 DEF OverEmpty

\* The decoding state after an empty frame names it.
LEMMA AfterEmptyIs ==
  ASSUME NEW ds \in DecodingStates, NEW f
  PROVE  \/ AfterEmpty(ds, f) = ds
         \/ AfterEmpty(ds, f).seq = HighSeq(f) /\ AfterEmpty(ds, f).initial = ds.initial
BY DEF AfterEmpty, DecodingStates

\* CleanUpOldOrEmptyFrames.
LEMMA CleanUpSheds ==
  ASSUME NEW buf, IsJitterBuffer(buf)
  PROVE  Sheds(buf, Lists(buf), CleanUpOldOrEmptyFrames(buf))
<1> DEFINE mid  == LastAfterCleanUp(buf.decodable, buf.last)
           last == LastAfterCleanUp(buf.incomplete, mid)
           dcd  == Without(buf.decodable, CleanedUp(buf.decodable, buf.last))
           inc  == Without(buf.incomplete, CleanedUp(buf.incomplete, mid))
           free == buf.free + Cardinality(DOMAIN buf.decodable)
                           - Cardinality(DOMAIN dcd)
                           + Cardinality(DOMAIN buf.incomplete)
                           - Cardinality(DOMAIN inc)
           missing == IF last.initial
                        THEN buf.missing
                        ELSE DropPacketsFromNackList(buf.missing, last.seq)
           b == [buf EXCEPT !.decodable = dcd, !.incomplete = inc,
                           !.free = free, !.last = last, !.missing = missing]
<1>1. CleanUpOldOrEmptyFrames(buf) = b
  BY DEF CleanUpOldOrEmptyFrames
<1>2. PartOf(dcd, buf.decodable) /\ PartOf(inc, buf.incomplete)
  BY KeepIsPartOf
<1>3. missing \subseteq buf.missing
  BY DEF DropPacketsFromNackList
<1>4. buf.last \in DecodingStates /\ mid \in DecodingStates
  BY LastAfterCleanUpType DEF IsJitterBuffer
<1>5. \/ mid.initial = buf.last.initial /\ mid.seq = buf.last.seq
      \/ \E f \in Lists(buf) : mid.seq = HighSeq(f) /\ mid.initial = buf.last.initial
  BY <1>4, LastAfterCleanUpIs, AfterEmptyIs DEF Lists
<1>6. \/ last.initial = mid.initial /\ last.seq = mid.seq
      \/ \E f \in Lists(buf) : last.seq = HighSeq(f) /\ last.initial = mid.initial
  BY <1>4, LastAfterCleanUpIs, AfterEmptyIs DEF Lists
<1> HIDE DEF mid, last, dcd, inc, missing, free
<1>7. /\ b.running = buf.running /\ b.fresh = buf.fresh /\ b.latest = buf.latest
      /\ b.nack_mode = buf.nack_mode /\ b.missing = missing /\ b.last = last
      /\ b.decodable = dcd /\ b.incomplete = inc
  BY DEF IsJitterBuffer, Fields
<1> HIDE DEF b
<1>8. Lists(b) \subseteq Lists(buf)
  BY <1>2, <1>7, PartsInLists
<1>9. Remembers(buf, Lists(buf), b)
  BY <1>4, <1>5, <1>6, <1>7 DEF Remembers, DecodingStates
<1> QED
  BY <1>1, <1>3, <1>7, <1>8, <1>9 DEF Sheds

\* FindAndInsertContinuousFrames moves frames from one list to the other.
LEMMA FindAndInsertSheds ==
  ASSUME NEW buf, IsJitterBuffer(buf), NEW ds
  PROVE  LET b == FindAndInsertContinuousFramesWithState(buf, ds)
         IN  Sheds(buf, Lists(buf), b) /\ b.missing = buf.missing /\ b.last = buf.last
<1> DEFINE moved == ContinuousScan(buf, ds)
           inc   == Without(buf.incomplete, moved)
           dcd   == [t \in DOMAIN buf.decodable \cup moved |->
                       IF t \in DOMAIN buf.decodable
                         THEN buf.decodable[t] ELSE buf.incomplete[t]]
           b     == FindAndInsertContinuousFramesWithState(buf, ds)
<1>1. b = [buf EXCEPT !.incomplete = inc, !.decodable = dcd]
  BY DEF FindAndInsertContinuousFramesWithState
<1>2. moved \subseteq DOMAIN buf.incomplete
  BY DEF ContinuousScan
<1>3. PartOf(inc, buf.incomplete)
  BY KeepIsPartOf
<1>4. \A t \in DOMAIN dcd : dcd[t] \in Lists(buf)
  <2> HIDE DEF moved
  <2> QED
    BY <1>2 DEF Lists
<1> HIDE DEF inc, dcd, b
<1>5. /\ b.running = buf.running /\ b.fresh = buf.fresh /\ b.latest = buf.latest
      /\ b.nack_mode = buf.nack_mode /\ b.missing = buf.missing
      /\ b.last = buf.last /\ b.decodable = dcd /\ b.incomplete = inc
  BY <1>1 DEF IsJitterBuffer, Fields
<1>6. Lists(b) \subseteq Lists(buf)
  BY <1>3, <1>4, <1>5 DEF Lists, PartOf
<1> QED
  BY <1>5, <1>6 DEF Sheds, Remembers, b

\* ExtractAndSetDecode remembers the frame it takes out.
LEMMA ExtractSheds ==
  ASSUME NEW buf, IsJitterBuffer(buf), NEW ts, Has(buf, ts)
  PROVE  Sheds(buf, Lists(buf), ExtractAndSetDecode(buf, ts))
<1> DEFINE f    == FrameAt(buf, ts)
           dcd  == Without(buf.decodable, {ts})
           inc  == IF ts \in DOMAIN buf.decodable
                     THEN buf.incomplete ELSE Without(buf.incomplete, {ts})
           last == SetState(buf.last, f)
           missing == DropPacketsFromNackList(buf.missing, HighSeq(f))
           b    == ExtractAndSetDecode(buf, ts)
<1>1. b = [buf EXCEPT !.decodable = dcd, !.incomplete = inc, !.last = last,
                     !.missing = missing]
  BY DEF ExtractAndSetDecode
<1>2. f \in Lists(buf)
  BY DEF FrameAt, Has, Lists
<1>3. last.seq = HighSeq(f)
  BY DEF SetState
<1>4. missing \subseteq buf.missing
  BY DEF DropPacketsFromNackList
<1>5. PartOf(dcd, buf.decodable) /\ PartOf(inc, buf.incomplete)
  BY KeepIsPartOf
<1> HIDE DEF f, dcd, inc, last, missing, b
<1>6. /\ b.running = buf.running /\ b.fresh = buf.fresh /\ b.latest = buf.latest
      /\ b.nack_mode = buf.nack_mode /\ b.missing = missing /\ b.last = last
      /\ b.decodable = dcd /\ b.incomplete = inc
  BY <1>1 DEF IsJitterBuffer, Fields
<1>7. Lists(b) \subseteq Lists(buf)
  BY <1>5, <1>6, PartsInLists
<1> QED
  BY <1>2, <1>3, <1>4, <1>6, <1>7 DEF Sheds, Remembers, b

\* A method that changes none of what the NACK list depends on.
LEMMA SameSheds ==
  ASSUME NEW a, NEW b,
         b.running = a.running, b.fresh = a.fresh, b.latest = a.latest,
         b.nack_mode = a.nack_mode, b.missing = a.missing, b.last = a.last,
         b.decodable = a.decodable, b.incomplete = a.incomplete
  PROVE  Sheds(a, Lists(a), b) /\ Drops(a, b) /\ Lists(b) = Lists(a)
BY DEF Sheds, Remembers, Drops, PartOf, Lists

\* SkipToLastKey.
LEMMA SkipToLastKeySheds ==
  ASSUME NEW buf, IsJitterBuffer(buf), NEW request
  PROVE  LET b == SkipToLastKey(buf, request).jb
         IN  Sheds(buf, Lists(buf), b) /\ Drops(buf, b)
<1> DEFINE inc  == buf.incomplete
           keys == {t \in DOMAIN inc : inc[t].type = "key"}
           low  == EstimatedLowSequenceNumber(inc[NewestTs(keys)])
           missing == DropPacketsFromNackList(buf.missing, low)
           skip == [buf EXCEPT !.last = InitialState, !.missing = missing]
<1>1. SkipToLastKey(buf, request).jb \in {buf, skip}
  BY DEF SkipToLastKey
<1>2. missing \subseteq buf.missing
  BY DEF DropPacketsFromNackList
<1> HIDE DEF missing
<1>3. /\ skip.running = buf.running /\ skip.fresh = buf.fresh
      /\ skip.latest = buf.latest /\ skip.nack_mode = buf.nack_mode
      /\ skip.missing = missing /\ skip.last = InitialState
      /\ skip.decodable = buf.decodable /\ skip.incomplete = buf.incomplete
  BY DEF IsJitterBuffer, Fields
<1> HIDE DEF skip
<1>4. Sheds(buf, Lists(buf), skip) /\ Drops(buf, skip)
  BY <1>2, <1>3 DEF Sheds, Remembers, Drops, PartOf, Lists, InitialState
<1> QED
  BY <1>1, <1>4, ShedsNothing

\* GetNackList.
LEMMA GetNackListSheds ==
  ASSUME NEW buf, IsJitterBuffer(buf)
  PROVE  LET b == GetNackList(buf).jb
         IN  Sheds(buf, Lists(buf), b) /\ Drops(buf, b)
<1> DEFINE seek   == buf.last.initial /\ ~NextFrameIsKey(buf)
           r      == RecycleFramesUntilKeyFrame(buf)
           a      == IF seek THEN r.jb ELSE buf
           shrunk == HandleTooLargeNackList(a)
<1>1. GetNackList(buf).jb \in {buf, r.jb, SkipToLastKey(a, FALSE).jb,
                              SkipToLastKey(shrunk.jb, ~shrunk.found).jb}
  BY DEF GetNackList
<1>2. Sheds(buf, Lists(buf), r.jb) /\ Drops(buf, r.jb) /\ IsJitterBuffer(r.jb)
  BY RecycleSheds, RecycleOK DEF Conserves
<1>3. Sheds(buf, Lists(buf), a) /\ Drops(buf, a) /\ IsJitterBuffer(a)
  BY <1>2, ShedsNothing
<1> HIDE DEF r, a
<1>4. /\ Sheds(a, Lists(a), shrunk.jb) /\ Drops(a, shrunk.jb)
      /\ IsJitterBuffer(shrunk.jb)
  BY <1>3, HandleTooLargeSheds, HandleTooLargeNackListOK DEF Conserves
<1> HIDE DEF shrunk
<1>5. Lists(a) \subseteq Lists(buf) /\ Lists(shrunk.jb) \subseteq Lists(buf)
  BY <1>3, <1>4 DEF Sheds
<1>6. Sheds(buf, Lists(buf), shrunk.jb) /\ Drops(buf, shrunk.jb)
  BY <1>3, <1>4, <1>5, ShedsTrans, DropsTrans
<1>7. LET b == SkipToLastKey(a, FALSE).jb
      IN  Sheds(buf, Lists(buf), b) /\ Drops(buf, b)
  <2> DEFINE b == SkipToLastKey(a, FALSE).jb
  <2>1. Sheds(a, Lists(a), b) /\ Drops(a, b)
    BY <1>3, SkipToLastKeySheds
  <2> HIDE DEF b
  <2>2. Sheds(buf, Lists(buf), b) /\ Drops(buf, b)
    BY <1>3, <1>5, <2>1, ShedsTrans, DropsTrans
  <2> QED
    BY <2>2 DEF b
<1>8. LET b == SkipToLastKey(shrunk.jb, ~shrunk.found).jb
      IN  Sheds(buf, Lists(buf), b) /\ Drops(buf, b)
  <2> DEFINE b == SkipToLastKey(shrunk.jb, ~shrunk.found).jb
  <2>1. Sheds(shrunk.jb, Lists(shrunk.jb), b) /\ Drops(shrunk.jb, b)
    BY <1>4, SkipToLastKeySheds
  <2> HIDE DEF b
  <2>2. Sheds(buf, Lists(buf), b) /\ Drops(buf, b)
    BY <1>5, <1>6, <2>1, ShedsTrans, DropsTrans
  <2> QED
    BY <2>2 DEF b
<1> QED
  BY <1>1, <1>2, <1>7, <1>8, ShedsNothing

\* GetFrame hands out a frame of a list or a fresh one.
LEMMA GetFrameSheds ==
  ASSUME NEW buf, IsJitterBuffer(buf), NEW ts
  PROVE  LET g == GetFrame(buf, ts)
         IN  /\ Sheds(buf, Lists(buf), g.jb) /\ Drops(buf, g.jb)
             /\ g.from = "decodable" =>
                  \E t \in DOMAIN buf.decodable : g.frame = buf.decodable[t]
             /\ g.frame \in Lists(buf) \cup {ResetFrame}
<1> DEFINE r == RecycleFramesUntilKeyFrame(buf)
           g == GetFrame(buf, ts)
           I == buf.incomplete
           D == buf.decodable
<1>1. CASE ts \in DOMAIN I
  <2> DEFINE inc == Without(I, {ts})
             b   == [buf EXCEPT !.incomplete = inc]
  <2>1. g.jb = b /\ g.frame = I[ts] /\ g.from = "incomplete"
    BY <1>1 DEF GetFrame
  <2>2. PartOf(inc, I)
    BY KeepIsPartOf
  <2> HIDE DEF inc
  <2>3. /\ b.running = buf.running /\ b.fresh = buf.fresh
        /\ b.latest = buf.latest /\ b.nack_mode = buf.nack_mode
        /\ b.missing = buf.missing /\ b.last = buf.last
        /\ b.decodable = D /\ b.incomplete = inc
    BY DEF IsJitterBuffer, Fields
  <2> HIDE DEF b, g
  <2>4. Lists(b) \subseteq Lists(buf)
    BY <2>2, <2>3, KeepIsPartOf, PartsInLists
  <2>5. I[ts] \in Lists(buf)
    BY <1>1 DEF Lists
  <2>6. Drops(buf, b)
    BY <2>2, <2>3, KeepIsPartOf DEF Drops
  <2>7. Sheds(buf, Lists(buf), b)
    BY <2>3, <2>4 DEF Sheds, Remembers
  <2> QED
    BY <2>1, <2>5, <2>6, <2>7 DEF g
<1>2. CASE ts \notin DOMAIN I /\ ts \in DOMAIN D
  <2> DEFINE dcd == Without(D, {ts})
             b   == [buf EXCEPT !.decodable = dcd]
  <2>1. g.jb = b /\ g.frame = D[ts]
    BY <1>2 DEF GetFrame
  <2>2. PartOf(dcd, D)
    BY KeepIsPartOf
  <2> HIDE DEF dcd
  <2>3. /\ b.running = buf.running /\ b.fresh = buf.fresh
        /\ b.latest = buf.latest /\ b.nack_mode = buf.nack_mode
        /\ b.missing = buf.missing /\ b.last = buf.last
        /\ b.decodable = dcd /\ b.incomplete = I
    BY DEF IsJitterBuffer, Fields
  <2> HIDE DEF b, g
  <2>4. Lists(b) \subseteq Lists(buf)
    BY <2>2, <2>3, KeepIsPartOf, PartsInLists
  <2>5. D[ts] \in Lists(buf)
    BY <1>2 DEF Lists
  <2>6. Drops(buf, b)
    BY <2>2, <2>3, KeepIsPartOf DEF Drops
  <2>7. Sheds(buf, Lists(buf), b)
    BY <2>3, <2>4 DEF Sheds, Remembers
  <2> QED
    BY <2>1, <2>5, <2>6, <2>7, <1>2 DEF g
<1>3. CASE ts \notin DOMAIN I /\ ts \notin DOMAIN D /\ HasEmptyFrame(buf)
  <2> DEFINE b == GetEmptyFrame(buf)
  <2>1. g.jb = b /\ g.frame = ResetFrame /\ g.from = "none"
    BY <1>3 DEF GetFrame
  <2>2. /\ b.running = buf.running /\ b.fresh = buf.fresh
        /\ b.latest = buf.latest /\ b.nack_mode = buf.nack_mode
        /\ b.missing = buf.missing /\ b.last = buf.last
        /\ b.decodable = D /\ b.incomplete = I
    BY DEF GetEmptyFrame, IsJitterBuffer, Fields
  <2> HIDE DEF b
  <2> QED
    BY <2>1, <2>2, SameSheds
<1>4. CASE ts \notin DOMAIN I /\ ts \notin DOMAIN D /\ ~HasEmptyFrame(buf)
  <2>1. /\ g.jb = IF r.found THEN [r.jb EXCEPT !.free = @ - 1] ELSE r.jb
        /\ g.frame = ResetFrame /\ g.from = "none"
    BY <1>4 DEF GetFrame
  <2> DEFINE a == r.jb
             b == [a EXCEPT !.free = @ - 1]
  <2>2. Sheds(buf, Lists(buf), a) /\ Drops(buf, a) /\ IsJitterBuffer(a)
    BY RecycleSheds, RecycleOK DEF Conserves
  <2>3. g.jb \in {a, b}
    BY <2>1
  <2> HIDE DEF r, g, a
  <2>4. /\ b.running = a.running /\ b.fresh = a.fresh
        /\ b.latest = a.latest /\ b.nack_mode = a.nack_mode
        /\ b.missing = a.missing /\ b.last = a.last
        /\ b.decodable = a.decodable /\ b.incomplete = a.incomplete
    BY <2>2 DEF IsJitterBuffer, Fields
  <2> HIDE DEF b
  <2>5. Sheds(a, Lists(a), b) /\ Drops(a, b)
    BY <2>4, SameSheds
  <2>6. Sheds(buf, Lists(buf), b) /\ Drops(buf, b)
    <3>1. Lists(a) \subseteq Lists(buf)
      BY <2>2 DEF Sheds
    <3> QED
      BY <2>2, <2>5, <3>1, ShedsTrans, DropsTrans
  <2> QED
    BY <2>1, <2>2, <2>3, <2>6 DEF g
<1> QED
  BY <1>1, <1>2, <1>3, <1>4

\* Adding a frame to one of the lists.
LEMMA InsertFrameIn ==
  ASSUME NEW list, NEW f
  PROVE  \A t \in DOMAIN InsertFrame(list, f) :
           \/ InsertFrame(list, f)[t] = f
           \/ t \in DOMAIN list /\ InsertFrame(list, f)[t] = list[t]
BY DEF InsertFrame

\* The switch at the end of InsertPacket adds at most the frame it is given.
LEMMA PlaceFrameSheds ==
  ASSUME NEW buf, IsJitterBuffer(buf), NEW f \in Frame, HasPacket(f),
         f.ts \notin DOMAIN buf.decodable, f.ts \notin DOMAIN buf.incomplete,
         NEW ret \in Returns \cup {"kFlushIndicator"},
         NEW from \in {"incomplete", "decodable", "none"}
  PROVE  Sheds(buf, Lists(buf) \cup {f}, PlaceFrame(buf, f, ret, from))
<1> DEFINE I      == buf.incomplete
           D      == buf.decodable
           frames == Lists(buf) \cup {f}
           inc    == InsertFrame(I, f)
           dcd    == InsertFrame(D, f)
           toInc  == [buf EXCEPT !.incomplete = inc]
           toDec  == [buf EXCEPT !.decodable = dcd]
           toFree == [buf EXCEPT !.free = @ + 1]
           last   == AfterEmpty(buf.last, f)
           drop   == [buf EXCEPT !.last = last, !.free = @ + 1]
<1>1. PlaceFrame(buf, f, ret, from) \in
        {toInc, toDec, toFree, drop, FindAndInsertContinuousFrames(toDec, f)}
  <2>1. PutBack(buf, f, from) \in {toInc, toDec, toFree}
    BY DEF PutBack
  <2> QED
    BY <2>1 DEF PlaceFrame, Returns
<1>2. Sheds(buf, frames, toInc)
  <2>1. \A t \in DOMAIN inc : inc[t] \in frames
    BY InsertFrameIn DEF Lists
  <2> HIDE DEF inc
  <2>2. /\ toInc.running = buf.running /\ toInc.fresh = buf.fresh
        /\ toInc.latest = buf.latest /\ toInc.nack_mode = buf.nack_mode
        /\ toInc.missing = buf.missing /\ toInc.last = buf.last
        /\ toInc.decodable = D /\ toInc.incomplete = inc
    BY DEF IsJitterBuffer, Fields
  <2> HIDE DEF toInc
  <2>3. Lists(toInc) \subseteq frames
    BY <2>1, <2>2 DEF Lists
  <2> QED
    BY <2>2, <2>3 DEF Sheds, Remembers
<1>3. Sheds(buf, frames, toDec) /\ IsJitterBuffer(toDec)
  <2>1. \A t \in DOMAIN dcd : dcd[t] \in frames
    BY InsertFrameIn DEF Lists
  <2>2. IsFrameList(dcd) /\ DOMAIN dcd = DOMAIN D \cup {f.ts}
    BY InsertFrameType DEF IsJitterBuffer
  <2> HIDE DEF dcd
  <2>3. /\ toDec.running = buf.running /\ toDec.fresh = buf.fresh
        /\ toDec.latest = buf.latest /\ toDec.nack_mode = buf.nack_mode
        /\ toDec.missing = buf.missing /\ toDec.last = buf.last
        /\ toDec.decodable = dcd /\ toDec.incomplete = I
    BY DEF IsJitterBuffer, Fields
  <2>4. IsJitterBuffer(toDec)
    BY <2>2 DEF IsJitterBuffer, Fields
  <2> HIDE DEF toDec
  <2>5. Lists(toDec) \subseteq frames
    BY <2>1, <2>3 DEF Lists
  <2> QED
    BY <2>3, <2>4, <2>5 DEF Sheds, Remembers
<1>4. Sheds(buf, frames, toFree)
  <2>1. /\ toFree.running = buf.running /\ toFree.fresh = buf.fresh
        /\ toFree.latest = buf.latest /\ toFree.nack_mode = buf.nack_mode
        /\ toFree.missing = buf.missing /\ toFree.last = buf.last
        /\ toFree.decodable = D /\ toFree.incomplete = I
    BY DEF IsJitterBuffer, Fields
  <2> HIDE DEF toFree
  <2> QED
    BY <2>1 DEF Sheds, Remembers, Lists
<1>5. Sheds(buf, frames, drop)
  <2>1. last.initial \/ (~buf.last.initial /\ last.seq = buf.last.seq)
          \/ last.seq = HighSeq(f)
    BY AfterEmptyIs DEF IsJitterBuffer
  <2> HIDE DEF last
  <2>2. /\ drop.running = buf.running /\ drop.fresh = buf.fresh
        /\ drop.latest = buf.latest /\ drop.nack_mode = buf.nack_mode
        /\ drop.missing = buf.missing /\ drop.last = last
        /\ drop.decodable = D /\ drop.incomplete = I
    BY DEF IsJitterBuffer, Fields
  <2> HIDE DEF drop
  <2> QED
    BY <2>1, <2>2 DEF Sheds, Remembers, Lists
<1>6. Sheds(buf, frames, FindAndInsertContinuousFrames(toDec, f))
  <2> DEFINE ds == SetState(toDec.last, f)
             b  == FindAndInsertContinuousFramesWithState(toDec, ds)
  <2>1. FindAndInsertContinuousFrames(toDec, f) = b
    BY DEF FindAndInsertContinuousFrames
  <2> HIDE DEF toDec, ds
  <2>2. Sheds(toDec, Lists(toDec), b)
    BY <1>3, FindAndInsertSheds
  <2>3. Lists(toDec) \subseteq frames
    BY <1>3 DEF Sheds
  <2> QED
    BY <1>3, <2>1, <2>2, <2>3, ShedsTrans
<1> HIDE DEF toInc, toDec, toFree, drop
<1> QED
  BY <1>1, <1>2, <1>3, <1>4, <1>5, <1>6

\* The bookkeeping of a received packet: the first one after a reset is taken
\* as it comes, any other goes through UpdateNackList.
Noted(a, p, ret, b) ==
  \/ ~Received(ret) /\ b = a
  \/ /\ Received(ret) /\ a.fresh
     /\ ~b.fresh
     /\ b.latest = p.seq
     /\ b.running = a.running /\ b.nack_mode = a.nack_mode
     /\ b.missing = a.missing /\ b.last = a.last
     /\ Lists(b) = Lists(a) /\ Drops(a, b)
  \/ /\ Received(ret) /\ ~a.fresh
     /\ \E u : /\ Updated(a, p.seq, u)
               /\ b.fresh = u.fresh
               /\ b.latest = LatestSequenceNumber(u.latest, p.seq)
               /\ b.running = u.running /\ b.nack_mode = u.nack_mode
               /\ b.missing = u.missing /\ b.last = u.last
               /\ Lists(b) = Lists(u) /\ Drops(a, b)

\* NoteReceived.
LEMMA NoteReceivedEffect ==
  ASSUME NEW buf, IsJitterBuffer(buf), NEW p \in PacketType, NEW ret
  PROVE  Noted(buf, p, ret, NoteReceived(buf, p, ret).jb)
<1> DEFINE u == UpdateNackList(buf, p.seq).jb
           n == NoteReceived(buf, p, ret).jb
           first == [buf EXCEPT !.latest = p.seq, !.fresh = FALSE]
           newest == LatestSequenceNumber(u.latest, p.seq)
           later == [u EXCEPT !.latest = newest]
<1>1. n = IF ~Received(ret) THEN buf ELSE IF buf.fresh THEN first ELSE later
  BY DEF NoteReceived
<1>2. p.seq \in SeqNums
  BY DEF PacketType
<1>3. CASE ~Received(ret)
  BY <1>1, <1>3 DEF Noted
<1>4. CASE Received(ret) /\ buf.fresh
  <2>1. n = first
    BY <1>1, <1>4
  <2>2. /\ ~first.fresh /\ first.latest = p.seq
        /\ first.running = buf.running /\ first.nack_mode = buf.nack_mode
        /\ first.missing = buf.missing /\ first.last = buf.last
        /\ first.decodable = buf.decodable /\ first.incomplete = buf.incomplete
    BY DEF IsJitterBuffer, Fields
  <2> HIDE DEF first, n
  <2>3. Lists(first) = Lists(buf) /\ Drops(buf, first)
    BY <2>2, DropsSame DEF Lists
  <2> QED
    BY <1>4, <2>1, <2>2, <2>3 DEF Noted, n
<1>5. CASE Received(ret) /\ ~buf.fresh
  <2>1. n = later
    BY <1>1, <1>5
  <2>2. IsJitterBuffer(u) /\ Updated(buf, p.seq, u)
    BY <1>2, UpdateNackListOK, UpdateNackListEffect DEF Shrinks, Conserves
  <2> HIDE DEF u, newest
  <2>3. /\ later.fresh = u.fresh /\ later.latest = newest
        /\ later.running = u.running /\ later.nack_mode = u.nack_mode
        /\ later.missing = u.missing /\ later.last = u.last
        /\ later.decodable = u.decodable /\ later.incomplete = u.incomplete
    BY <2>2 DEF IsJitterBuffer, Fields
  <2> HIDE DEF later, n
  <2>4. Lists(later) = Lists(u) /\ Drops(buf, later)
    <3>1. Lists(later) = Lists(u)
      BY <2>3 DEF Lists
    <3>2. Drops(u, later)
      BY <2>3, DropsSame
    <3>3. Drops(buf, u)
      BY <2>2 DEF Updated
    <3> QED
      BY <3>1, <3>2, <3>3, DropsTrans
  <2>5. Noted(buf, p, ret, later)
    BY <1>5, <2>2, <2>3, <2>4 DEF Noted, newest
  <2> QED
    BY <2>1, <2>5 DEF n
<1> QED
  BY <1>3, <1>4, <1>5

\* Flush leaves nothing but the modes.
LEMMA FlushEffect ==
  ASSUME NEW buf, IsJitterBuffer(buf)
  PROVE  LET b == Flush(buf)
         IN  /\ b.running = buf.running /\ b.nack_mode = buf.nack_mode
             /\ b.fresh /\ b.missing = {} /\ b.last = InitialState
             /\ Lists(b) = {}
<1> DEFINE a == AllFree(buf)
           b == Flush(buf)
<1>1. IsJitterBuffer(a)
  BY AllFreeOK DEF Shrinks, Conserves
<1>2. /\ a.running = buf.running /\ a.nack_mode = buf.nack_mode
      /\ a.decodable = EmptyList /\ a.incomplete = EmptyList
      /\ a.last = InitialState
  BY DEF AllFree, IsJitterBuffer, Fields
<1>3. b = [a EXCEPT !.old = 0, !.fresh = TRUE, !.missing = {}]
  BY DEF Flush
<1> HIDE DEF a, b
<1>4. /\ b.running = a.running /\ b.nack_mode = a.nack_mode
      /\ b.fresh /\ b.missing = {} /\ b.last = a.last
      /\ b.decodable = a.decodable /\ b.incomplete = a.incomplete
  BY <1>1, <1>3 DEF IsJitterBuffer, Fields
<1>5. Lists(b) = {}
  BY <1>2, <1>4 DEF Lists, EmptyList
<1> QED
  BY <1>2, <1>4, <1>5 DEF b

\* A packet of an old frame: its sequence number may become the last decoded
\* one, and everything up to that leaves the NACK list.
Aged(a, p, b) ==
  /\ b.running = a.running /\ b.fresh = a.fresh /\ b.latest = a.latest
  /\ b.nack_mode = a.nack_mode
  /\ Lists(b) \subseteq Lists(a)
  /\ b.last.initial = a.last.initial
  /\ b.last.seq \in {a.last.seq, LatestSequenceNumber(p.seq, a.last.seq)}
  /\ b.missing = DropPacketsFromNackList(a.missing, b.last.seq)

\* InsertPacket for an old packet.
LEMMA InsertOldPacketEffect ==
  ASSUME NEW buf, IsJitterBuffer(buf), NEW p \in PacketType
  PROVE  \E b : /\ IsJitterBuffer(b) /\ Aged(buf, p, b)
                /\ InsertOldPacket(buf, p).jb \in {b, Flush(b)}
<1> DEFINE count == buf.old + p.size
           last  == UpdateOldPacket(buf.last, p)
           missing == DropPacketsFromNackList(buf.missing, last.seq)
           a     == [buf EXCEPT !.old = count, !.last = last,
                               !.missing = missing]
           b == FindAndInsertContinuousFramesWithState(a, last)
<1>1. InsertOldPacket(buf, p).jb \in {Flush(b), b}
  BY DEF InsertOldPacket
<1>2. count \in Nat
  BY DEF IsJitterBuffer, PacketType
<1>3. last \in DecodingStates
  BY UpdateOldPacketType DEF IsJitterBuffer
<1>4. missing \subseteq SeqNums
  BY DEF DropPacketsFromNackList, IsJitterBuffer
<1>5. /\ last.initial = buf.last.initial
      /\ last.seq \in {buf.last.seq, LatestSequenceNumber(p.seq, buf.last.seq)}
  BY DEF UpdateOldPacket, IsJitterBuffer, DecodingStates
<1> HIDE DEF count, last
<1>6. /\ a.running = buf.running /\ a.fresh = buf.fresh /\ a.latest = buf.latest
      /\ a.nack_mode = buf.nack_mode /\ a.missing = missing /\ a.last = last
      /\ a.decodable = buf.decodable /\ a.incomplete = buf.incomplete
      /\ IsJitterBuffer(a)
  <2> HIDE DEF missing
  <2> QED
    BY <1>2, <1>3, <1>4 DEF IsJitterBuffer, Fields
<1>7. Lists(a) = Lists(buf)
  BY <1>6 DEF Lists
<1> HIDE DEF a
<1>8. /\ IsJitterBuffer(b) /\ Sheds(a, Lists(a), b)
      /\ b.missing = a.missing /\ b.last = a.last
  BY <1>6, FindAndInsertOK, FindAndInsertSheds DEF Conserves
<1> HIDE DEF b
<1>9. Aged(buf, p, b)
  BY <1>5, <1>6, <1>7, <1>8 DEF Aged, Sheds
<1> QED
  BY <1>1, <1>8, <1>9

-----------------------------------------------------------------------------
(* Without any assumption on the stream: the list does not grow beyond its *)
(* limit, and only Start and Stop change running_.                         *)
Tame(a, b) ==
  /\ b.running = a.running
  /\ Short(a.missing) => Short(b.missing)

\* Throwing away is tame.
LEMMA ShedsTame ==
  ASSUME NEW a, IsJitterBuffer(a), NEW frames, NEW b, Sheds(a, frames, b)
  PROVE  Tame(a, b)
BY ShortPart DEF Sheds, Tame, IsJitterBuffer

\* So is flushing.
LEMMA FlushTame ==
  ASSUME NEW buf, IsJitterBuffer(buf)
  PROVE  Tame(buf, Flush(buf)) /\ Short(Flush(buf).missing)
<1>1. Short({})
  BY ShortOrTooLarge
<1> QED
  BY <1>1, FlushEffect DEF Tame

\* Where the last stage of InsertPacket puts the frame.
Puts(buf, p, g, r, n, f) ==
  /\ f.ts = p.ts /\ ~Has(n, p.ts)
  /\ f.state = r.frame.state /\ f.type = r.frame.type
  /\ f.emptyLow = r.frame.emptyLow
  /\ g.frame = ResetFrame \/ g.frame.ts = p.ts
  /\ g.from \in {"incomplete", "decodable", "none"}
  /\ g.from = "decodable" =>
       \E t \in DOMAIN buf.decodable : g.frame = buf.decodable[t]
  /\ \E ret \in Returns \cup {"kFlushIndicator"} :
       InsertIntoFrame(buf, p).jb = PlaceFrame(n, f, ret, g.from)

\* InsertPacket in its stages: get a frame (g), insert the packet into it (r),
\* do the bookkeeping (n), put the frame (f) somewhere.
Stages(buf, p, a, g, r, n, f) ==
  /\ Sheds(buf, Lists(buf), a) /\ Lists(a) = Lists(buf)
  /\ Sheds(a, Lists(a), g.jb) /\ IsJitterBuffer(g.jb)
  /\ Drops(buf, g.jb)
  /\ \/ InsertIntoFrame(buf, p).jb = g.jb
     \/ /\ g.frame \in Frame
        /\ g.frame \in Lists(buf) \cup {ResetFrame}
        /\ r = FrameInsertPacket(g.frame, p, buf.error_mode)
        /\ buf.error_mode \in Modes
        /\ r.ret \in Returns
        /\ f \in Frame /\ HasPacket(f)
        /\ f.packets = r.frame.packets
        /\ f.emptyHigh = r.frame.emptyHigh
        /\ Noted(g.jb, p, r.ret, n) /\ IsJitterBuffer(n)
        /\ Sheds(n, Lists(n) \cup {f}, InsertIntoFrame(buf, p).jb)
        /\ Puts(buf, p, g, r, n, f)

\* Every call of InsertPacket for a packet that is not old has these stages.
LEMMA InsertIntoFrameEffect ==
  ASSUME NEW buf, PoolReady(buf), NEW p \in PacketType
  PROVE  \E a, g, r, n, f : Stages(buf, p, a, g, r, n, f)
<1> DEFINE a    == [buf EXCEPT !.old = 0]
           g    == GetFrame(a, p.ts)
           r    == FrameInsertPacket(g.frame, p, buf.error_mode)
           n    == NoteReceived(g.jb, p, r.ret)
           nack == Received(r.ret) /\ ~buf.fresh /\ p.seq \in g.jb.missing
           f    == [r.frame EXCEPT !.nacked = @ \/ nack]
           ret  == IF n.ok THEN r.ret ELSE "kFlushIndicator"
<1>1. InsertIntoFrame(buf, p).jb
        = IF ~g.ok THEN g.jb ELSE PlaceFrame(n.jb, f, ret, g.from)
  BY DEF InsertIntoFrame, InsertIfFound, NoteAndPutAway, PutAway
<1>2. PoolReady(a)
  BY DEF PoolReady, IsJitterBuffer, Buffers, HasEmptyFrame, Fields
<1>3. /\ Sheds(buf, Lists(buf), a) /\ Drops(buf, a) /\ Lists(a) = Lists(buf)
      /\ a.decodable = buf.decodable
  <2>1. /\ a.running = buf.running /\ a.fresh = buf.fresh
        /\ a.latest = buf.latest /\ a.nack_mode = buf.nack_mode
        /\ a.missing = buf.missing /\ a.last = buf.last
        /\ a.decodable = buf.decodable /\ a.incomplete = buf.incomplete
    BY DEF PoolReady, IsJitterBuffer, Fields
  <2> HIDE DEF a
  <2> QED
    BY <2>1, SameSheds
<1> HIDE DEF a
<1>4. /\ IsJitterBuffer(g.jb)
      /\ g.ok => /\ p.ts \notin DOMAIN g.jb.decodable
                 /\ p.ts \notin DOMAIN g.jb.incomplete
                 /\ Usable(g.frame, p.ts)
      /\ g.from \in {"incomplete", "decodable", "none"}
  BY <1>2, GetFrameOK
<1>5. /\ Sheds(a, Lists(a), g.jb) /\ g.frame \in Lists(buf) \cup {ResetFrame}
      /\ Drops(a, g.jb)
      /\ g.from = "decodable" =>
           \E t \in DOMAIN buf.decodable : g.frame = buf.decodable[t]
  BY <1>2, <1>3, GetFrameSheds DEF PoolReady
<1> HIDE DEF g
<1>drops. Drops(buf, g.jb)
  BY <1>3, <1>5, DropsTrans
<1>6. CASE ~g.ok
  <2>1. InsertIntoFrame(buf, p).jb = g.jb
    BY <1>1, <1>6
  <2> QED
    BY <1>3, <1>4, <1>5, <1>drops, <2>1 DEF Stages
<1>7. CASE g.ok
  <2>0. buf.error_mode \in Modes
    BY JitterBufferAssumption DEF Modes, PoolReady, IsJitterBuffer
  <2>1. /\ r.frame \in Frame /\ r.frame.ts = p.ts /\ HasPacket(r.frame)
        /\ r.ret \in Returns /\ g.frame \in Frame
    BY <1>4, <1>7, <2>0, FrameInsertPacketType DEF Usable
  <2>2. /\ f \in Frame /\ f.ts = p.ts /\ HasPacket(f)
        /\ f.packets = r.frame.packets /\ f.emptyHigh = r.frame.emptyHigh
        /\ f.state = r.frame.state /\ f.type = r.frame.type
        /\ f.emptyLow = r.frame.emptyLow
    <3> DEFINE nk == r.frame.nacked \/ nack
    <3>1. nk \in BOOLEAN
      OBVIOUS
    <3>2. f = [r.frame EXCEPT !.nacked = nk]
      OBVIOUS
    <3> HIDE DEF nk, f, r
    <3> QED
      BY <2>1, <3>1, <3>2 DEF Frame, HasPacket
  <2>3. Shrinks(g.jb, n.jb) /\ Noted(g.jb, p, r.ret, n.jb)
    BY <1>4, NoteReceivedOK, NoteReceivedEffect
  <2>4. ret \in Returns \cup {"kFlushIndicator"}
    BY <2>1
  <2> HIDE DEF f, n, ret
  <2>5. IsJitterBuffer(n.jb) /\ f.ts \notin DOMAIN n.jb.decodable
          /\ f.ts \notin DOMAIN n.jb.incomplete
    BY <1>4, <1>7, <2>2, <2>3 DEF Shrinks, Conserves
  <2>6. Sheds(n.jb, Lists(n.jb) \cup {f}, PlaceFrame(n.jb, f, ret, g.from))
    BY <1>4, <2>2, <2>4, <2>5, PlaceFrameSheds
  <2>7. InsertIntoFrame(buf, p).jb = PlaceFrame(n.jb, f, ret, g.from)
    BY <1>1, <1>7
  <2> DEFINE m == n.jb
  <2>8. /\ Noted(g.jb, p, r.ret, m) /\ IsJitterBuffer(m)
        /\ Sheds(m, Lists(m) \cup {f}, InsertIntoFrame(buf, p).jb)
    BY <2>3, <2>5, <2>6, <2>7
  <2>9. r = FrameInsertPacket(g.frame, p, buf.error_mode)
    OBVIOUS
  <2>put. Puts(buf, p, g, r, m, f)
    <3>1. ~Has(m, p.ts)
      BY <2>2, <2>5 DEF Has
    <3>2. g.frame = ResetFrame \/ g.frame.ts = p.ts
      BY <1>4, <1>7 DEF Usable
    <3>3. \E x \in Returns \cup {"kFlushIndicator"} :
            InsertIntoFrame(buf, p).jb = PlaceFrame(m, f, x, g.from)
      BY <2>4, <2>7
    <3> HIDE DEF m, r
    <3> QED
      BY <2>2, <1>4, <1>5, <3>1, <3>2, <3>3 DEF Puts
  <2> HIDE DEF m, r
  <2>10. Stages(buf, p, a, g, r, m, f)
    BY <1>3, <1>4, <1>5, <1>drops, <2>0, <2>1, <2>2, <2>8, <2>9, <2>put DEF Stages
  <2> QED
    BY <2>10
<1> QED
  BY <1>6, <1>7

\* InsertPacket is tame.
LEMMA InsertPacketTame ==
  ASSUME NEW buf, PoolReady(buf), NEW p \in PacketType
  PROVE  Tame(buf, InsertPacket(buf, p).jb)
<1>1. IsJitterBuffer(buf)
  BY DEF PoolReady
<1>2. Tame(buf, InsertOldPacket(buf, p).jb)
  <2>1. PICK b : /\ IsJitterBuffer(b) /\ Aged(buf, p, b)
                 /\ InsertOldPacket(buf, p).jb \in {b, Flush(b)}
    BY <1>1, InsertOldPacketEffect
  <2>2. Tame(buf, b)
    <3>1. b.missing \subseteq buf.missing /\ buf.missing \subseteq SeqNums
      BY <1>1, <2>1 DEF Aged, DropPacketsFromNackList, IsJitterBuffer
    <3> QED
      BY <2>1, <3>1, ShortPart DEF Aged, Tame
  <2>3. Tame(b, Flush(b)) /\ Short(Flush(b).missing)
    BY <2>1, FlushTame
  <2> QED
    BY <2>1, <2>2, <2>3 DEF Tame
<1>3. Tame(buf, InsertIntoFrame(buf, p).jb)
  <2>1. PICK a, g, r, n, f : Stages(buf, p, a, g, r, n, f)
    BY InsertIntoFrameEffect
  <2>2. Tame(buf, g.jb)
    <3>1. g.jb.missing \subseteq buf.missing /\ g.jb.running = buf.running
      BY <2>1 DEF Stages, Sheds
    <3> QED
      BY <1>1, <3>1, ShortPart DEF Tame, IsJitterBuffer
  <2>3. CASE InsertIntoFrame(buf, p).jb = g.jb
    BY <2>2, <2>3
  <2>4. CASE /\ Noted(g.jb, p, r.ret, n) /\ IsJitterBuffer(n)
             /\ Sheds(n, Lists(n) \cup {f}, InsertIntoFrame(buf, p).jb)
    <3>1. Tame(g.jb, n)
      BY <2>4 DEF Noted, Updated, Tame
    <3>2. Tame(n, InsertIntoFrame(buf, p).jb)
      BY <2>4, ShedsTame
    <3> QED
      BY <2>2, <3>1, <3>2 DEF Tame
  <2> QED
    BY <2>1, <2>3, <2>4 DEF Stages
<1> QED
  BY <1>2, <1>3 DEF InsertPacket

-----------------------------------------------------------------------------
(* Packets of a bounded age, of a stream within half a circle.             *)
\* What lies between two numbers of the half circle lies in it.
LEMMA BetweenInHalf ==
  ASSUME NEW base \in SeqNums, NEW low \in SeqNums, NEW high \in SeqNums,
         InHalf(low, base), InHalf(high, base), NEW s \in SeqNumsBetween(low, high),
         IsNewerSequenceNumber(high, low)
  PROVE  /\ s \in SeqNums /\ InHalf(s, base)
         /\ Pos(low, base) < Pos(s, base)
         /\ Pos(s, base) < Pos(high, base)
BY HalfAssumption
DEF SeqNums, InHalf, Pos, Distance, IsNewerSequenceNumber, IsNewer,
    SeqNumsBetween

\* The packets of a NACK list that is not too old are of a bounded age.
LEMMA NotTooOld ==
  ASSUME NEW base \in SeqNums, NEW missing \in SUBSET SeqNums,
         \A m \in missing : InHalf(m, base),
         NEW seq \in SeqNums, InHalf(seq, base),
         \A m \in missing : Pos(m, base) < Pos(seq, base),
         ~MissingTooOldPacket(missing, seq)
  PROVE  \A m \in missing :
           Pos(seq, base) <= Pos(m, base) + MaxPacketAgeToNack
<1> SUFFICES ASSUME NEW m \in missing
             PROVE  Pos(seq, base) <= Pos(m, base) + MaxPacketAgeToNack
  OBVIOUS
<1> DEFINE old == OldestMissing(missing)
           T   == {k \in Nat : \E n \in missing : k = Pos(n, base)}
<1>1. \A n \in missing : Pos(n, base) \in Nat
  BY HalfOrder
<1>2. PICK least \in missing : \A n \in missing : Pos(least, base) <= Pos(n, base)
  <2>1. T \in SUBSET Nat /\ Pos(m, base) \in T
    BY <1>1
  <2>2. \A n \in missing : Pos(n, base) \in T
    BY <1>1
  <2>3. \A k \in T : \E n \in missing : k = Pos(n, base)
    OBVIOUS
  <2> HIDE DEF T
  <2>4. PICK k \in T : \A l \in T : k <= l
    BY <2>1, LeastNumber
  <2> QED
    BY <2>2, <2>3, <2>4
<1>3. \A n \in missing : ~IsNewerSequenceNumber(least, n)
  BY <1>1, <1>2, HalfOrder
<1>4. old \in missing /\ \A n \in missing : ~IsNewerSequenceNumber(old, n)
  BY <1>3 DEF OldestMissing
<1> HIDE DEF old
<1>5. Pos(old, base) <= Pos(m, base)
  BY <1>1, <1>4, HalfOrder
<1>6. ~(Distance(seq, old, SeqHalf) > MaxPacketAgeToNack)
  BY DEF MissingTooOldPacket, old
<1>7. /\ Distance(seq, old, SeqHalf) = Pos(seq, base) - Pos(old, base)
      /\ Pos(seq, base) \in Nat /\ Pos(old, base) \in Nat
  BY <1>4, HalfOrder
<1> QED
  BY <1>1, <1>5, <1>6, <1>7, JitterBufferAssumption

-----------------------------------------------------------------------------
(* The NACK list of a stream within half a circle.                         *)
\* A frame in a list knows of no packet newer than the latest one, and none of
\* its packets is asked for again.
FrameIn(f, buf, base) ==
  /\ \A s \in SeqsOf(f) : /\ ~buf.fresh
                          /\ InHalf(s, base)
                          /\ Pos(s, base) <= Pos(buf.latest, base)
  /\ PacketSeqs(f) \cap buf.missing = {}

\* The packets asked for are older than the latest one, by no more than the
\* limit.
AgesIn(buf, base) ==
  ~buf.fresh =>
    /\ InHalf(buf.latest, base)
    /\ \A m \in buf.missing :
         /\ InHalf(m, base)
         /\ Pos(m, base) < Pos(buf.latest, base)
         /\ Pos(buf.latest, base) <= Pos(m, base) + MaxPacketAgeToNack

\* When a packet newer than the latest one has been decoded, which a late
\* packet of the last decoded frame does, nothing is asked for.
LastIn(buf, base) ==
  ~buf.fresh /\ ~buf.last.initial =>
    /\ InHalf(buf.last.seq, base)
    /\ Pos(buf.last.seq, base) > Pos(buf.latest, base) => buf.missing = {}

NackOK(buf, base) ==
  /\ Short(buf.missing)
  /\ buf.nack_mode = "kNoNack" => buf.missing = {}
  /\ buf.fresh => buf.missing = {} /\ buf.last.initial
  /\ AgesIn(buf, base)
  /\ LastIn(buf, base)
  /\ \A f \in Lists(buf) : FrameIn(f, buf, base)

\* The frames of the lists have received a packet.
LEMMA ListsType ==
  ASSUME NEW buf, IsJitterBuffer(buf), NEW f \in Lists(buf)
  PROVE  f \in Frame /\ HasPacket(f)
BY DEF IsJitterBuffer, IsFrameList, Lists

\* Throwing away keeps the NACK list in order.
LEMMA ShedsNackOK ==
  ASSUME NEW base \in SeqNums, NEW a, IsJitterBuffer(a), NackOK(a, base),
         NEW frames,
         \A f \in frames : f \in Frame /\ HasPacket(f) /\ FrameIn(f, a, base),
         NEW b, Sheds(a, frames, b)
  PROVE  NackOK(b, base)
<1>1. /\ b.fresh = a.fresh /\ b.latest = a.latest
      /\ b.nack_mode = a.nack_mode /\ b.missing \subseteq a.missing
      /\ Lists(b) \subseteq frames
  BY DEF Sheds
<1>2. Short(b.missing)
  BY <1>1, ShortPart DEF NackOK, IsJitterBuffer
<1>3. b.nack_mode = "kNoNack" => b.missing = {}
  BY <1>1 DEF NackOK
<1>4. \A f \in frames : HighSeq(f) \in SeqsOf(f)
  BY HighSeqIsKnown
<1>5. b.fresh => b.missing = {} /\ b.last.initial
  BY <1>1, <1>4 DEF NackOK, Sheds, Remembers, FrameIn
<1>6. AgesIn(b, base)
  BY <1>1 DEF NackOK, AgesIn
<1>7. LastIn(b, base)
  <2> SUFFICES ASSUME ~b.fresh, ~b.last.initial
               PROVE  /\ InHalf(b.last.seq, base)
                      /\ Pos(b.last.seq, base) > Pos(b.latest, base)
                           => b.missing = {}
    BY DEF LastIn
  <2>1. CASE ~a.last.initial /\ b.last.seq = a.last.seq
    BY <1>1, <2>1 DEF NackOK, LastIn
  <2>2. CASE \E f \in frames : b.last.seq = HighSeq(f)
    <3>1. PICK f \in frames : b.last.seq = HighSeq(f)
      BY <2>2
    <3>2. /\ InHalf(b.last.seq, base)
          /\ Pos(b.last.seq, base) <= Pos(a.latest, base)
          /\ b.last.seq \in SeqNums
      BY <1>4, <3>1, SeqRangeType DEF FrameIn
    <3>3. InHalf(a.latest, base) /\ a.latest \in SeqNums
      BY <1>1 DEF NackOK, AgesIn, IsJitterBuffer
    <3>4. ~(Pos(b.last.seq, base) > Pos(a.latest, base))
      BY <3>2, <3>3, HalfOrder
    <3> QED
      BY <1>1, <3>2, <3>4
  <2> QED
    BY <2>1, <2>2 DEF Sheds, Remembers
<1>8. \A f \in Lists(b) : FrameIn(f, b, base)
  BY <1>1 DEF FrameIn
<1> QED
  BY <1>2, <1>3, <1>5, <1>6, <1>7, <1>8 DEF NackOK

\* With the frames of the lists, nothing else needs to be known of them.
LEMMA ShedsOwnNackOK ==
  ASSUME NEW base \in SeqNums, NEW a, IsJitterBuffer(a), NackOK(a, base),
         NEW b, Sheds(a, Lists(a), b)
  PROVE  NackOK(b, base)
BY ListsType, ShedsNackOK DEF NackOK

\* Flushing starts over.
LEMMA FlushNackOK ==
  ASSUME NEW base, NEW buf, IsJitterBuffer(buf)
  PROVE  NackOK(Flush(buf), base)
<1>1. Short({})
  BY ShortOrTooLarge
<1> HIDE DEF Flush
<1> QED
  BY <1>1, FlushEffect DEF NackOK, AgesIn, LastIn, InitialState

\* A late packet of the last decoded frame.
LEMMA AgedNackOK ==
  ASSUME NEW base \in SeqNums, NEW a, IsJitterBuffer(a), NackOK(a, base),
         ~a.last.initial, NEW p \in PacketType, InHalf(p.seq, base),
         NEW b, IsJitterBuffer(b), Aged(a, p, b)
  PROVE  NackOK(b, base)
<1>1. /\ b.fresh = a.fresh /\ b.latest = a.latest
      /\ b.nack_mode = a.nack_mode /\ Lists(b) \subseteq Lists(a)
      /\ b.missing = DropPacketsFromNackList(a.missing, b.last.seq)
      /\ b.missing \subseteq a.missing
      /\ a.missing \subseteq SeqNums /\ a.latest \in SeqNums
  BY DEF Aged, DropPacketsFromNackList, IsJitterBuffer
<1>2. ~a.fresh
  BY DEF NackOK
<1>3. Short(b.missing)
  BY <1>1, ShortPart DEF NackOK
<1>4. b.last.seq \in SeqNums /\ InHalf(b.last.seq, base)
  <2>1. InHalf(a.last.seq, base)
    BY <1>2 DEF NackOK, LastIn
  <2>2. b.last.seq \in {a.last.seq, p.seq}
    BY LatestIsEither DEF Aged
  <2> QED
    BY <2>1, <2>2 DEF IsJitterBuffer, DecodingStates
<1>5. ASSUME Pos(b.last.seq, base) > Pos(b.latest, base)
      PROVE  b.missing = {}
  <2>1. ASSUME NEW m \in b.missing
        PROVE  FALSE
    <3>1. IsNewerSequenceNumber(m, b.last.seq)
      BY <1>1 DEF DropPacketsFromNackList
    <3>2. m \in SeqNums /\ InHalf(m, base) /\ Pos(m, base) < Pos(a.latest, base)
      BY <1>1, <1>2 DEF NackOK, AgesIn
    <3>3. InHalf(a.latest, base)
      BY <1>2 DEF NackOK, AgesIn
    <3>4. /\ Pos(m, base) > Pos(b.last.seq, base) /\ Pos(m, base) \in Nat
          /\ Pos(b.last.seq, base) \in Nat
      BY <1>4, <3>1, <3>2, HalfOrder
    <3>5. Pos(a.latest, base) \in Nat
      BY <1>1, <3>3, HalfOrder
    <3> QED
      BY <1>1, <1>5, <3>2, <3>4, <3>5
  <2> QED
    BY <2>1
<1>6. AgesIn(b, base)
  BY <1>1 DEF NackOK, AgesIn
<1>7. LastIn(b, base)
  BY <1>4, <1>5 DEF LastIn
<1>8. \A f \in Lists(b) : FrameIn(f, b, base)
  BY <1>1 DEF NackOK, FrameIn
<1> QED
  BY <1>1, <1>2, <1>3, <1>6, <1>7, <1>8 DEF NackOK

\* What UpdateNackList compares with is at least as new as the latest packet,
\* and newer only when nothing is asked for.
LEMMA NewestKnownIn ==
  ASSUME NEW base \in SeqNums, NEW buf, IsJitterBuffer(buf), NackOK(buf, base),
         ~buf.fresh
  PROVE  LET k == NewestKnown(buf)
         IN  /\ k \in SeqNums /\ InHalf(k, base)
             /\ Pos(k, base) >= Pos(buf.latest, base)
             /\ k # buf.latest => buf.missing = {}
             /\ ~buf.last.initial => Pos(k, base) >= Pos(buf.last.seq, base)
<1>1. buf.latest \in SeqNums /\ InHalf(buf.latest, base)
  BY DEF NackOK, AgesIn, IsJitterBuffer
<1>2. Pos(buf.latest, base) \in Nat
  BY <1>1, HalfOrder
<1>3. CASE buf.last.initial
  BY <1>1, <1>2, <1>3 DEF NewestKnown
<1>4. CASE ~buf.last.initial
  <2> DEFINE l == buf.last.seq
  <2>1. /\ l \in SeqNums /\ InHalf(l, base)
        /\ Pos(l, base) > Pos(buf.latest, base) => buf.missing = {}
    BY <1>4 DEF NackOK, LastIn, IsJitterBuffer, DecodingStates
  <2>2. NewestKnown(buf) = IF IsNewerSequenceNumber(buf.latest, l) THEN buf.latest ELSE l
    BY <1>4 DEF NewestKnown, LatestSequenceNumber
  <2> HIDE DEF l
  <2>3. /\ IsNewerSequenceNumber(buf.latest, l)
             <=> Pos(buf.latest, base) > Pos(l, base)
        /\ Pos(l, base) \in Nat
        /\ Pos(buf.latest, base) = Pos(l, base) => buf.latest = l
    BY <1>1, <2>1, HalfOrder
  <2>4. CASE IsNewerSequenceNumber(buf.latest, l)
    BY <1>1, <1>2, <2>2, <2>3, <2>4 DEF l
  <2>5. CASE ~IsNewerSequenceNumber(buf.latest, l)
    BY <1>1, <1>2, <2>1, <2>2, <2>3, <2>5 DEF l
  <2> QED
    BY <2>4, <2>5
<1> QED
  BY <1>3, <1>4

\* The bookkeeping of a received packet, in terms of positions: the latest
\* packet moves forward, the packet itself is not asked for, and neither is
\* anything at or before the latest packet that was not asked for already.
Advances(a, s, b, base) ==
  /\ ~b.fresh
  /\ b.latest \in SeqNums /\ InHalf(b.latest, base)
  /\ Pos(s, base) <= Pos(b.latest, base)
  /\ s \notin b.missing
  /\ ~a.fresh => /\ Pos(a.latest, base) <= Pos(b.latest, base)
                 /\ \A m \in b.missing :
                      m \in a.missing \/ Pos(m, base) > Pos(a.latest, base)
  /\ \A m \in b.missing :
       /\ InHalf(m, base)
       /\ Pos(m, base) < Pos(b.latest, base)
       /\ Pos(b.latest, base) <= Pos(m, base) + MaxPacketAgeToNack

\* UpdateNackList together with the assignment to the latest packet behind it.
LEMMA UpdatedAdvances ==
  ASSUME NEW base \in SeqNums, NEW a, IsJitterBuffer(a), NackOK(a, base),
         ~a.fresh, NEW s \in SeqNums, InHalf(s, base),
         NEW u, Updated(a, s, u),
         NEW b, IsJitterBuffer(b), b.fresh = u.fresh, b.missing = u.missing,
         b.latest = LatestSequenceNumber(u.latest, s)
  PROVE  /\ Advances(a, s, b, base)
         /\ ~a.last.initial =>
              \/ b.missing = {}
              \/ Pos(a.last.seq, base) <= Pos(b.latest, base)
<1> DEFINE k == NewestKnown(a)
<1>1. /\ k \in SeqNums /\ InHalf(k, base)
      /\ Pos(k, base) >= Pos(a.latest, base)
      /\ k # a.latest => a.missing = {}
      /\ ~a.last.initial => Pos(k, base) >= Pos(a.last.seq, base)
  BY NewestKnownIn
<1>2. /\ a.latest \in SeqNums /\ InHalf(a.latest, base)
      /\ \A m \in a.missing :
           /\ m \in SeqNums /\ InHalf(m, base)
           /\ Pos(m, base) < Pos(a.latest, base)
           /\ Pos(a.latest, base) <= Pos(m, base) + MaxPacketAgeToNack
  BY DEF NackOK, AgesIn, IsJitterBuffer
<1>3. /\ Pos(k, base) \in Nat /\ Pos(s, base) \in Nat
      /\ Pos(a.latest, base) \in Nat
  BY <1>1, <1>2, HalfOrder
<1>4. ~b.fresh
  BY DEF Updated
<1>5. ASSUME NEW x \in SeqNums, InHalf(x, base)
      PROVE  LET l == LatestSequenceNumber(x, s)
             IN  /\ l \in SeqNums /\ InHalf(l, base)
                 /\ Pos(x, base) <= Pos(l, base)
                 /\ Pos(s, base) <= Pos(l, base)
                 /\ Pos(x, base) >= Pos(s, base) => l = x
                 /\ Pos(x, base) < Pos(s, base) => l = s
                 /\ Pos(x, base) \in Nat /\ Pos(l, base) \in Nat
  <2>1. /\ Pos(x, base) \in Nat
        /\ IsNewerSequenceNumber(x, s) <=> Pos(x, base) > Pos(s, base)
        /\ Pos(x, base) = Pos(s, base) => x = s
    BY <1>5, HalfOrder
  <2>2. CASE IsNewerSequenceNumber(x, s)
    BY <1>3, <1>5, <2>1, <2>2 DEF LatestSequenceNumber
  <2>3. CASE ~IsNewerSequenceNumber(x, s)
    BY <1>3, <1>5, <2>1, <2>3 DEF LatestSequenceNumber
  <2> QED
    BY <2>2, <2>3
<1> HIDE DEF k
<1>6. CASE a.nack_mode = "kNoNack" /\ u.missing = a.missing /\ u.latest = a.latest
  <2>1. b.missing = {}
    BY <1>6 DEF NackOK
  <2> QED
    BY <1>2, <1>4, <1>5, <1>6, <2>1 DEF Advances
<1>7. CASE /\ IsNewerSequenceNumber(s, k)
           /\ a.nack_mode # "kNoNack"
           /\ u.latest = k
           /\ u.missing \subseteq a.missing \cup SeqNumsBetween(k, s)
           /\ ~MissingTooOldPacket(u.missing, s)
  <2>1. Pos(s, base) > Pos(k, base)
    BY <1>1, <1>7, HalfOrder
  <2>2. b.latest = s
    BY <1>1, <1>3, <1>5, <1>7, <2>1
  <2>3. ASSUME NEW m \in u.missing
        PROVE  /\ m \in SeqNums /\ InHalf(m, base)
               /\ Pos(m, base) < Pos(s, base)
               /\ m \in a.missing \/ Pos(m, base) > Pos(a.latest, base)
    <3>1. CASE m \in a.missing
      <4>1. m \in SeqNums /\ InHalf(m, base)
            /\ Pos(m, base) < Pos(a.latest, base)
        BY <1>2, <3>1
      <4>2. Pos(m, base) \in Nat
        BY <4>1, HalfOrder
      <4> QED
        BY <1>1, <1>3, <2>1, <3>1, <4>1, <4>2
    <3>2. CASE m \in SeqNumsBetween(k, s)
      <4>1. /\ m \in SeqNums /\ InHalf(m, base)
            /\ Pos(k, base) < Pos(m, base) /\ Pos(m, base) < Pos(s, base)
        BY <1>1, <1>7, <3>2, BetweenInHalf
      <4>2. Pos(m, base) \in Nat
        BY <4>1, HalfOrder
      <4> QED
        BY <1>1, <1>3, <4>1, <4>2
    <3> QED
      BY <1>7, <3>1, <3>2
  <2>4. \A m \in u.missing : Pos(s, base) <= Pos(m, base) + MaxPacketAgeToNack
    <3>1. u.missing \in SUBSET SeqNums
      BY <2>3
    <3> QED
      BY <1>7, <2>3, <3>1, NotTooOld
  <2>5. s \notin u.missing
    BY <1>3, <2>3
  <2>6. ~a.last.initial => Pos(a.last.seq, base) <= Pos(s, base)
    <3>1. SUFFICES ASSUME ~a.last.initial
                   PROVE  Pos(a.last.seq, base) <= Pos(s, base)
      OBVIOUS
    <3>2. a.last.seq \in SeqNums /\ InHalf(a.last.seq, base)
      BY <3>1 DEF NackOK, LastIn, IsJitterBuffer, DecodingStates
    <3>3. Pos(a.last.seq, base) \in Nat
      BY <3>2, HalfOrder
    <3> QED
      BY <1>1, <1>3, <2>1, <3>1, <3>3
  <2>7. Pos(a.latest, base) <= Pos(s, base)
    BY <1>1, <1>3, <2>1
  <2> QED
    BY <1>3, <1>4, <2>2, <2>3, <2>4, <2>5, <2>6, <2>7 DEF Advances
<1>8. CASE /\ ~IsNewerSequenceNumber(s, k)
           /\ u.latest = k
           /\ u.missing = a.missing \ {s}
  <2>1. Pos(k, base) >= Pos(s, base)
    BY <1>1, <1>3, <1>8, HalfOrder
  <2>2. b.latest = k
    BY <1>1, <1>5, <1>8, <2>1
  <2>3. \A m \in u.missing : k = a.latest /\ m \in a.missing
    BY <1>1, <1>8
  <2> QED
    BY <1>1, <1>2, <1>3, <1>4, <1>8, <2>1, <2>2, <2>3 DEF Advances
<1> QED
  BY <1>6, <1>7, <1>8 DEF Updated, k

\* Frames that were in order stay in order.
LEMMA AdvancesFrameIn ==
  ASSUME NEW base \in SeqNums, NEW a, IsJitterBuffer(a), NackOK(a, base),
         NEW s \in SeqNums, InHalf(s, base),
         NEW b, IsJitterBuffer(b), Advances(a, s, b, base),
         NEW f \in Frame, FrameIn(f, a, base)
  PROVE  FrameIn(f, b, base)
<1>1. PacketSeqs(f) \subseteq SeqNums /\ PacketSeqs(f) \subseteq SeqsOf(f)
  BY PacketSeqsType DEF SeqsOf
<1>2. \A q \in SeqsOf(f) : q \in SeqNums
  BY PacketSeqsType DEF SeqsOf, Frame, MaybeSeq
<1>3. Pos(b.latest, base) \in Nat
  BY HalfOrder DEF Advances
<1>4. ASSUME NEW q \in SeqsOf(f)
      PROVE  /\ ~a.fresh /\ InHalf(q, base) /\ Pos(q, base) \in Nat
             /\ Pos(q, base) <= Pos(a.latest, base)
             /\ Pos(a.latest, base) \in Nat
             /\ Pos(q, base) <= Pos(b.latest, base)
  <2>1. ~a.fresh /\ InHalf(q, base) /\ Pos(q, base) <= Pos(a.latest, base)
    BY DEF FrameIn
  <2>2. Pos(q, base) \in Nat
    BY <1>2, <2>1, HalfOrder
  <2>3. a.latest \in SeqNums /\ InHalf(a.latest, base)
    BY <2>1 DEF NackOK, AgesIn, IsJitterBuffer
  <2>4. Pos(a.latest, base) \in Nat
    BY <2>3, HalfOrder
  <2> QED
    BY <1>3, <2>1, <2>2, <2>4 DEF Advances
<1>5. ASSUME NEW q \in PacketSeqs(f), q \in b.missing
      PROVE  FALSE
  <2>1. q \notin a.missing
    BY DEF FrameIn
  <2> QED
    BY <1>1, <1>4, <1>5, <2>1 DEF Advances
<1> QED
  BY <1>4, <1>5 DEF FrameIn, Advances

\* The bookkeeping of a received packet keeps the NACK list in order.
LEMMA NotedNackOK ==
  ASSUME NEW base \in SeqNums, NEW a, IsJitterBuffer(a), NackOK(a, base),
         NEW p \in PacketType, InHalf(p.seq, base), NEW ret,
         NEW b, IsJitterBuffer(b), Noted(a, p, ret, b)
  PROVE  /\ NackOK(b, base)
         /\ Received(ret) => Advances(a, p.seq, b, base)
         /\ ~Received(ret) => b = a
<1>0. p.seq \in SeqNums
  BY DEF PacketType
<1>1. CASE ~Received(ret) /\ b = a
  BY <1>1
<1>2. CASE /\ Received(ret) /\ a.fresh
           /\ ~b.fresh
           /\ b.latest = p.seq
           /\ b.running = a.running /\ b.nack_mode = a.nack_mode
           /\ b.missing = a.missing /\ b.last = a.last
           /\ Lists(b) = Lists(a)
  <2>1. a.missing = {} /\ a.last.initial
    BY <1>2 DEF NackOK
  <2>2. Lists(b) = {}
    <3>1. ASSUME NEW f \in Lists(a)
          PROVE  FALSE
      <4>1. HighSeq(f) \in SeqsOf(f)
        BY ListsType, HighSeqIsKnown
      <4> QED
        BY <1>2, <4>1 DEF NackOK, FrameIn
    <3> QED
      BY <1>2, <3>1
  <2>3. Pos(p.seq, base) \in Nat
    BY <1>0, HalfOrder
  <2>4. Advances(a, p.seq, b, base)
    BY <1>0, <1>2, <2>1, <2>3 DEF Advances
  <2>5. NackOK(b, base)
    BY <1>2, <2>1, <2>2 DEF NackOK, AgesIn, LastIn
  <2> QED
    BY <1>2, <2>4, <2>5
<1>3. CASE Received(ret) /\ ~a.fresh
  <2>1. PICK u : /\ Updated(a, p.seq, u)
                 /\ b.fresh = u.fresh
                 /\ b.latest = LatestSequenceNumber(u.latest, p.seq)
                 /\ b.running = u.running /\ b.nack_mode = u.nack_mode
                 /\ b.missing = u.missing /\ b.last = u.last
                 /\ Lists(b) = Lists(u)
    BY <1>3 DEF Noted
  <2>2. /\ Advances(a, p.seq, b, base)
        /\ ~a.last.initial =>
             \/ b.missing = {}
             \/ Pos(a.last.seq, base) <= Pos(b.latest, base)
    BY <1>0, <1>3, <2>1, UpdatedAdvances
  <2>3. Short(b.missing)
    BY <2>1 DEF Updated, NackOK
  <2>4. b.nack_mode = "kNoNack" => b.missing = {}
    BY <2>1 DEF Updated, NackOK
  <2>5. AgesIn(b, base)
    BY <2>2 DEF Advances, AgesIn
  <2>6. \A f \in Lists(b) : FrameIn(f, b, base)
    <3>1. Lists(b) \subseteq Lists(a)
      BY <2>1 DEF Updated
    <3> QED
      BY <1>0, <2>2, <3>1, ListsType, AdvancesFrameIn DEF NackOK
  <2>7. LastIn(b, base)
    <3> SUFFICES ASSUME ~b.fresh, ~b.last.initial
                 PROVE  /\ InHalf(b.last.seq, base)
                        /\ Pos(b.last.seq, base) > Pos(b.latest, base)
                             => b.missing = {}
      BY DEF LastIn
    <3>0. Pos(b.latest, base) \in Nat /\ b.last.seq \in SeqNums
      BY <2>2, HalfOrder DEF Advances, IsJitterBuffer, DecodingStates
    <3>1. CASE ~a.last.initial /\ b.last.seq = a.last.seq
      <4>1. InHalf(a.last.seq, base)
        BY <1>3, <3>1 DEF NackOK, LastIn
      <4>2. Pos(b.last.seq, base) \in Nat
        BY <3>0, <3>1, <4>1, HalfOrder
      <4> QED
        BY <2>2, <3>0, <3>1, <4>1, <4>2
    <3>2. CASE \E f \in Lists(a) : b.last.seq = HighSeq(f)
      <4>1. PICK f \in Lists(a) : b.last.seq = HighSeq(f)
        BY <3>2
      <4>2. /\ f \in Frame /\ HasPacket(f) /\ HighSeq(f) \in SeqsOf(f)
            /\ FrameIn(f, a, base)
        BY ListsType, HighSeqIsKnown DEF NackOK
      <4>3. FrameIn(f, b, base)
        BY <1>0, <2>2, <4>2, AdvancesFrameIn
      <4>4. InHalf(b.last.seq, base) /\ Pos(b.last.seq, base) <= Pos(b.latest, base)
        BY <4>1, <4>2, <4>3 DEF FrameIn
      <4>5. Pos(b.last.seq, base) \in Nat
        BY <3>0, <4>4, HalfOrder
      <4> QED
        BY <3>0, <4>4, <4>5
    <3> QED
      BY <2>1, <3>1, <3>2 DEF Updated, Remembers
  <2> QED
    BY <1>3, <2>2, <2>3, <2>4, <2>5, <2>6, <2>7 DEF NackOK, Advances
<1> QED
  BY <1>1, <1>2, <1>3 DEF Noted

\* InsertPacket for a packet that is not old.
LEMMA InsertIntoFrameNackOK ==
  ASSUME NEW base \in SeqNums, NEW buf, PoolReady(buf), NackOK(buf, base),
         NEW p \in PacketType, InHalf(p.seq, base)
  PROVE  NackOK(InsertIntoFrame(buf, p).jb, base)
<1>1. PICK a, g, r, n, f : Stages(buf, p, a, g, r, n, f)
  BY InsertIntoFrameEffect
<1> DEFINE b == InsertIntoFrame(buf, p).jb
<1>2. IsJitterBuffer(buf) /\ p.seq \in SeqNums
  BY DEF PoolReady, PacketType
<1>3. Sheds(buf, Lists(buf), g.jb) /\ IsJitterBuffer(g.jb)
  <2>1. Sheds(buf, Lists(buf), a) /\ Lists(a) = Lists(buf)
        /\ Sheds(a, Lists(a), g.jb) /\ IsJitterBuffer(g.jb)
    BY <1>1 DEF Stages
  <2> QED
    BY <2>1, ShedsTrans
<1>4. NackOK(g.jb, base)
  BY <1>2, <1>3, ShedsOwnNackOK
<1>5. CASE b = g.jb
  BY <1>4, <1>5
<1>6. CASE /\ g.frame \in Frame
           /\ g.frame \in Lists(buf) \cup {ResetFrame}
           /\ r = FrameInsertPacket(g.frame, p, buf.error_mode)
           /\ buf.error_mode \in Modes
           /\ r.ret \in Returns
           /\ f \in Frame /\ HasPacket(f)
           /\ f.packets = r.frame.packets
           /\ f.emptyHigh = r.frame.emptyHigh
           /\ Noted(g.jb, p, r.ret, n) /\ IsJitterBuffer(n)
           /\ Sheds(n, Lists(n) \cup {f}, b)
  <2>1. /\ NackOK(n, base)
        /\ Received(r.ret) => Advances(g.jb, p.seq, n, base)
        /\ ~Received(r.ret) => n = g.jb
    BY <1>3, <1>4, <1>6, NotedNackOK
  <2>2. FrameIn(g.frame, g.jb, base)
    <3>1. CASE g.frame \in Lists(buf)
      <4>1. FrameIn(g.frame, buf, base)
        BY <3>1 DEF NackOK
      <4>2. /\ g.jb.fresh = buf.fresh /\ g.jb.latest = buf.latest
            /\ g.jb.missing \subseteq buf.missing
        BY <1>3 DEF Sheds
      <4> QED
        BY <4>1, <4>2 DEF FrameIn
    <3>2. CASE g.frame = ResetFrame
      <4>1. SeqsOf(ResetFrame) = {} /\ PacketSeqs(ResetFrame) = {}
        BY DEF SeqsOf, PacketSeqs, ResetFrame
      <4> QED
        BY <3>2, <4>1 DEF FrameIn
    <3> QED
      BY <1>6, <3>1, <3>2
  <2>3. PacketSeqs(f) = PacketSeqs(r.frame) /\ SeqsOf(f) = SeqsOf(r.frame)
    BY <1>6 DEF SeqsOf, PacketSeqs
  <2>4. /\ PacketSeqs(f) \subseteq PacketSeqs(g.frame) \cup {p.seq}
        /\ SeqsOf(f) \subseteq SeqsOf(g.frame) \cup {p.seq}
        /\ r.ret \in {"kSizeError", "kOutOfBoundsPacket"} =>
             PacketSeqs(f) \subseteq PacketSeqs(g.frame)
               /\ SeqsOf(f) \subseteq SeqsOf(g.frame)
    BY <1>6, <2>3, FrameInsertPacketSeqs
  <2>5. FrameIn(f, n, base)
    <3>1. CASE Received(r.ret)
      <4>1. FrameIn(g.frame, n, base)
        BY <1>2, <1>3, <1>4, <1>6, <2>1, <2>2, <3>1, AdvancesFrameIn
      <4> QED
        BY <2>1, <2>4, <3>1, <4>1 DEF FrameIn, Advances
    <3>2. CASE ~Received(r.ret)
      <4>1. r.ret \in {"kSizeError", "kOutOfBoundsPacket"}
        BY <1>6, <3>2 DEF Received, Returns
      <4> QED
        BY <2>1, <2>2, <2>4, <3>2, <4>1 DEF FrameIn
    <3> QED
      BY <3>1, <3>2
  <2>6. \A h \in Lists(n) \cup {f} :
          h \in Frame /\ HasPacket(h) /\ FrameIn(h, n, base)
    BY <1>6, <2>1, <2>5, ListsType DEF NackOK
  <2> HIDE DEF b
  <2> QED
    BY <1>6, <2>1, <2>6, ShedsNackOK DEF b
<1> QED
  BY <1>1, <1>5, <1>6 DEF Stages

\* InsertPacket keeps the NACK list in order.
LEMMA InsertPacketNackOK ==
  ASSUME NEW base \in SeqNums, NEW buf, PoolReady(buf), NackOK(buf, base),
         NEW p \in PacketType, InHalf(p.seq, base)
  PROVE  NackOK(InsertPacket(buf, p).jb, base)
<1>1. ASSUME IsOld(buf.last, p.ts)
      PROVE  NackOK(InsertOldPacket(buf, p).jb, base)
  <2>1. IsJitterBuffer(buf) /\ ~buf.last.initial
    BY <1>1 DEF PoolReady, IsOld
  <2>2. PICK b : /\ IsJitterBuffer(b) /\ Aged(buf, p, b)
                 /\ InsertOldPacket(buf, p).jb \in {b, Flush(b)}
    BY <2>1, InsertOldPacketEffect
  <2> QED
    BY <2>1, <2>2, AgedNackOK, FlushNackOK
<1> QED
  BY <1>1, InsertIntoFrameNackOK DEF InsertPacket

\* So does a change of the NACK mode.
LEMMA SelectNackModeNackOK ==
  ASSUME NEW base \in SeqNums, NEW buf, IsJitterBuffer(buf), NackOK(buf, base),
         NEW mode
  PROVE  NackOK(SelectNackMode(buf, mode), base)
<1> DEFINE missing == IF mode = "kNoNack" THEN {} ELSE buf.missing
           b == [buf EXCEPT !.nack_mode = mode, !.missing = missing]
<1>1. SelectNackMode(buf, mode) = b
  BY DEF SelectNackMode
<1>2. missing \subseteq buf.missing /\ (mode = "kNoNack" => missing = {})
  OBVIOUS
<1> HIDE DEF missing
<1>3. /\ b.fresh = buf.fresh /\ b.latest = buf.latest /\ b.nack_mode = mode
      /\ b.missing = missing /\ b.last = buf.last
      /\ b.decodable = buf.decodable /\ b.incomplete = buf.incomplete
  BY DEF IsJitterBuffer, Fields
<1> HIDE DEF b
<1>4. Lists(b) = Lists(buf)
  BY <1>3 DEF Lists
<1>5. Short(b.missing)
  BY <1>2, <1>3, ShortPart DEF NackOK, IsJitterBuffer
<1> QED
  BY <1>1, <1>2, <1>3, <1>4, <1>5 DEF NackOK, AgesIn, LastIn, FrameIn

-----------------------------------------------------------------------------
(* The receiver.                                                           *)
IInv == TypeOK /\ FramePoolConserved

\* With at most one buffer in the decode thread's hands and a limit of at least
\* two, a pool that has nothing to offer has a frame to recycle.
LEMMA InvPoolReady ==
  ASSUME IInv
  PROVE  PoolReady(jb)
<1>1. /\ IsJitterBuffer(jb)
      /\ Buffers(jb) + HeldByDecoder = jb.allocated
      /\ jb.allocated \in kStartNumberOfFrames .. kMaxNumberOfFrames
  BY DEF IInv, TypeOK, FramePoolConserved
<1>2. HeldByDecoder \in {0, 1}
  BY DEF HeldByDecoder
<1>3. Buffers(jb) \in Nat /\ jb.free \in Nat /\ jb.allocated \in Nat
  BY <1>1, BuffersType DEF IsJitterBuffer
<1> QED
  BY <1>1, <1>2, <1>3, JitterBufferAssumption DEF PoolReady, HasEmptyFrame

\* Init establishes the invariant.
LEMMA InitInv ==
  ASSUME Init
  PROVE  IInv
<1> PICK nack_mode \in NackModes, error_mode \in DecodeErrorModes :
           jb = Start(InitJitterBuffer(nack_mode, error_mode))
  BY DEF Init
<1> DEFINE init == InitJitterBuffer(nack_mode, error_mode)
<1>1. IsJitterBuffer(init)
  <2>1. 0 \in SeqNums
    BY HalfAssumption DEF SeqNums
  <2> QED
    BY <2>1, EmptyListType, InitialStateType, JitterBufferAssumption
    DEF IsJitterBuffer, InitJitterBuffer, Fields
<1>2. Buffers(init) = kStartNumberOfFrames
       /\ init.allocated = kStartNumberOfFrames
  BY EmptyListType, JitterBufferAssumption DEF InitJitterBuffer, Buffers
<1> HIDE DEF init
<1>3. Conserves(init, jb)
  BY <1>1, StartOK DEF init, Shrinks
<1>4. HeldByDecoder = 0
  BY DEF Init, DecodeIdle, HeldByDecoder
<1>5. FramePoolConserved
  BY <1>2, <1>3, <1>4, JitterBufferAssumption DEF FramePoolConserved, Conserves
<1>6. TypeOK
  <2>1. 0 \in Timestamps
    BY HalfAssumption DEF Timestamps
  <2>2. dec \in [pc : DecodePcs, ts : Timestamps, frame : Summaries]
    BY <2>1 DEF Init, DecodeIdle, NoFrame, DecodePcs, Summaries, FrameTypes
  <2> QED
    BY <1>3, <2>2 DEF Init, TypeOK, Conserves, NetIdle, NetPcs
<1> QED
  BY <1>5, <1>6 DEF IInv

-----------------------------------------------------------------------------
(* One lemma for each kind of step.                                        *)
DecodeThreads == [pc : DecodePcs, ts : Timestamps, frame : Summaries]

\* A decode thread that holds no frame.
LEMMA DecodeAtType ==
  ASSUME NEW pc \in DecodePcs, NEW ts \in Timestamps
  PROVE  DecodeAt(pc, ts) \in DecodeThreads /\ DecodeAt(pc, ts).pc = pc
<1>1. NoFrame \in Summaries
  BY HalfAssumption DEF NoFrame, Summaries, FrameTypes, Timestamps
<1> QED
  BY <1>1 DEF DecodeAt, DecodeThreads

\* A decode thread between two calls of Decode.
LEMMA IdleType ==
  /\ 0 \in Timestamps
  /\ DecodeIdle = DecodeAt("idle", 0)
  /\ DecodeIdle \in DecodeThreads /\ DecodeIdle.pc = "idle"
<1>1. 0 \in Timestamps
  BY HalfAssumption DEF Timestamps
<1>2. DecodeIdle = DecodeAt("idle", 0)
  BY DEF DecodeIdle, DecodeAt
<1> QED
  BY <1>1, <1>2, DecodeAtType DEF DecodePcs

\* A step that neither takes a buffer from the pool nor gives one back.
LEMMA ConservingStep ==
  ASSUME IInv, Conserves(jb, jb'), HeldByDecoder' = HeldByDecoder
  PROVE  IsJitterBuffer(jb') /\ FramePoolConserved'
BY DEF IInv, Conserves, FramePoolConserved

\* A step of the decode thread outside the decoder: the timestamp it carries to
\* the next hold of the lock is a timestamp.
LEMMA DecodeStep ==
  ASSUME IInv, Conserves(jb, jb'),
         dec.pc \notin {"decode", "release"},
         dec' \in DecodeThreads, dec'.pc \notin {"decode", "release"},
         frame_event' \in BOOLEAN, UnchangedByDecoder
  PROVE  IInv'
<1>1. HeldByDecoder' = HeldByDecoder
  BY DEF HeldByDecoder
<1>2. IsJitterBuffer(jb') /\ FramePoolConserved'
  BY <1>1, ConservingStep
<1> QED
  BY <1>2 DEF IInv, TypeOK, UnchangedByDecoder, DecodeThreads

\* Doing nothing conserves the pool.
LEMMA ConservesRefl ==
  ASSUME IInv
  PROVE  Conserves(jb, jb)
BY DEF IInv, TypeOK, Conserves

\* The timestamp at the front of a list is a timestamp.
LEMMA FrontTsType ==
  ASSUME NEW b, IsJitterBuffer(b), ~IsEmptyList(b.decodable)
  PROVE  FrontTs(b) \in Timestamps
BY OldestNewest DEF FrontTs, IsEmptyList, IsJitterBuffer, IsFrameList

\* What NextCompleteTimestamp decides is a state of the decode thread without
\* a frame.
LEMMA InspectType ==
  ASSUME NEW b, IsJitterBuffer(b), NEW others \in SUBSET {"wait", "maybe"},
         Inspect(b, others)
  PROVE  dec' \in DecodeThreads /\ dec'.pc \notin {"decode", "release"}
<1>1. CASE FrontComplete(b)
  <2>1. dec' = DecodeAt("timing", FrontTs(b))
    BY <1>1 DEF Inspect
  <2>2. FrontTs(b) \in Timestamps
    BY <1>1, FrontTsType DEF FrontComplete
  <2> QED
    BY <2>1, <2>2, DecodeAtType DEF DecodePcs
<1>2. CASE ~FrontComplete(b)
  <2>1. PICK pc \in others : dec' = DecodeAt(pc, 0)
    BY <1>2 DEF Inspect
  <2> QED
    BY <2>1, DecodeAtType, IdleType DEF DecodePcs
<1> QED
  BY <1>1, <1>2

\* A step of another thread.
LEMMA OtherStep ==
  ASSUME IInv, Conserves(jb, jb'), UNCHANGED dec,
         frame_event' \in BOOLEAN,
         net' \in [pc : NetPcs, running : BOOLEAN],
         proc' \in {"idle", "request", "sent"},
         stop' \in {"idle", "signal"},
         schedule' \in BOOLEAN, decoder' \in BOOLEAN
  PROVE  IInv'
<1>1. HeldByDecoder' = HeldByDecoder
  BY DEF HeldByDecoder
<1>2. IsJitterBuffer(jb') /\ FramePoolConserved'
  BY <1>1, ConservingStep
<1> QED
  BY <1>2 DEF IInv, TypeOK

-----------------------------------------------------------------------------
(* The invariant is preserved by every step of every thread.               *)
\* Steps of IncomingPacket, RequestKeyFrame and ResetDecoder preserve it.
LEMMA NetworkThreadInv ==
  ASSUME IInv, NetworkThread
  PROVE  IInv'
<1> USE DEF NetPcs
<1>0. /\ TypeOK /\ Conserves(jb, jb) /\ PoolReady(jb)
  BY ConservesRefl, InvPoolReady DEF IInv
<1>1. ASSUME NEW p \in Stream, IncomingPacket(p)
      PROVE  IInv'
  <2> DEFINE r == InsertPacket(jb, p)
  <2>1. /\ jb' = r.jb /\ frame_event' = (frame_event \/ r.signal)
        /\ net' = IF r.ret = "kFlushIndicator"
                    THEN [net EXCEPT !.pc = "request"] ELSE net
        /\ UNCHANGED <<dec, proc, stop, schedule, decoder>>
    BY <1>1 DEF IncomingPacket
  <2>2. p \in PacketType
    BY StreamAssumption
  <2>3. Accounted(jb, r.jb)
    BY <1>0, <2>2, InsertPacketOK
  <2> HIDE DEF r
  <2>4. HeldByDecoder' = HeldByDecoder
    BY <2>1 DEF HeldByDecoder
  <2>5. FramePoolConserved'
    <3>1. /\ Buffers(jb) \in Nat /\ jb.allocated \in Nat
          /\ Buffers(r.jb) \in Nat /\ r.jb.allocated \in Nat
          /\ HeldByDecoder \in Nat
      BY <1>0, <2>3, BuffersType
      DEF PoolReady, Accounted, IsJitterBuffer, HeldByDecoder
    <3>2. /\ Buffers(jb) + HeldByDecoder = jb.allocated
          /\ jb.allocated \in kStartNumberOfFrames .. kMaxNumberOfFrames
      BY DEF IInv, FramePoolConserved
    <3>3. /\ r.jb.allocated - Buffers(r.jb) = jb.allocated - Buffers(jb)
          /\ r.jb.allocated >= jb.allocated
          /\ r.jb.allocated <= kMaxNumberOfFrames
      BY <2>3 DEF Accounted, Outside
    <3>4. /\ Buffers(r.jb) + HeldByDecoder = r.jb.allocated
          /\ r.jb.allocated \in kStartNumberOfFrames .. kMaxNumberOfFrames
      BY <3>1, <3>2, <3>3, JitterBufferAssumption
    <3> QED
      BY <2>1, <2>4, <3>4 DEF FramePoolConserved
  <2>6. TypeOK'
    <3>1. net' \in [pc : NetPcs, running : BOOLEAN]
      BY <1>0, <2>1 DEF TypeOK
    <3>2. frame_event' \in BOOLEAN
      BY <2>1
    <3>3. IsJitterBuffer(jb')
      BY <2>1, <2>3 DEF Accounted
    <3> QED
      BY <1>0, <2>1, <3>1, <3>2, <3>3 DEF TypeOK
  <2> QED
    BY <2>5, <2>6 DEF IInv
<1>2. CASE NetRequestKeyFrame
  <2>1. net' \in [pc : NetPcs, running : BOOLEAN] /\ schedule' \in BOOLEAN
    BY <1>0, <1>2 DEF NetRequestKeyFrame, TypeOK
  <2>2. Conserves(jb, jb')
    BY <1>0, <1>2 DEF NetRequestKeyFrame
  <2> QED
    BY <1>0, <1>2, <2>1, <2>2, OtherStep DEF NetRequestKeyFrame, TypeOK
<1>3. CASE LockDecoder
  <2>1. net' \in [pc : NetPcs, running : BOOLEAN]
    BY <1>0, <1>3 DEF LockDecoder, TypeOK, NetIdle, IsJitterBuffer
  <2>2. Conserves(jb, jb')
    BY <1>0, <1>3 DEF LockDecoder
  <2> QED
    BY <1>0, <1>3, <2>1, <2>2, OtherStep DEF LockDecoder, TypeOK
<1>4. CASE ResetJitterBuffer
  <2>1. Conserves(jb, jb')
    BY <1>0, <1>4, FlushOK, StartOK
    DEF ResetJitterBuffer, TypeOK, Shrinks
  <2>2. net' \in [pc : NetPcs, running : BOOLEAN]
    BY <1>4 DEF ResetJitterBuffer
  <2> QED
    BY <1>0, <1>4, <2>1, <2>2, OtherStep DEF ResetJitterBuffer, TypeOK
<1>5. CASE ClearKeyRequest
  <2>1. Conserves(jb, jb')
    BY <1>0, <1>5 DEF ClearKeyRequest
  <2>2. net' \in [pc : NetPcs, running : BOOLEAN]
    BY <1>5 DEF ClearKeyRequest, NetIdle
  <2> QED
    BY <1>0, <1>5, <2>1, <2>2, OtherStep DEF ClearKeyRequest, TypeOK
<1> QED
  BY <1>1, <1>2, <1>3, <1>4, <1>5 DEF NetworkThread

\* Steps of Process and TriggerDecoderShutdown preserve it.
LEMMA ProcessAndShutdownInv ==
  ASSUME IInv, ProcessThread \/ Shutdown
  PROVE  IInv'
<1>0. TypeOK /\ IsJitterBuffer(jb) /\ Conserves(jb, jb)
  BY ConservesRefl DEF IInv, TypeOK
<1>1. CASE ProcessStatistics
  <2>1. Conserves(jb, jb')
    BY <1>0, <1>1, CleanUpOK DEF ProcessStatistics, Shrinks
  <2> QED
    BY <1>0, <1>1, <2>1, OtherStep DEF ProcessStatistics, TypeOK
<1>2. CASE ProcessKeyRequest
  <2>1. Conserves(jb, jb')
    BY <1>0, <1>2 DEF ProcessKeyRequest
  <2> QED
    BY <1>0, <1>2, <2>1, OtherStep DEF ProcessKeyRequest, TypeOK
<1>3. CASE ProcessNackList
  <2>1. Conserves(jb, jb')
    BY <1>0, <1>3, GetNackListOK DEF ProcessNackList
  <2>2. proc' \in {"idle", "request", "sent"}
    BY <1>3 DEF ProcessNackList
  <2> QED
    BY <1>0, <1>3, <2>1, <2>2, OtherStep DEF ProcessNackList, TypeOK
<1>4. ASSUME NEW ok \in BOOLEAN, RequestKeyFrame(ok)
      PROVE  IInv'
  <2>1. Conserves(jb, jb')
    BY <1>0, <1>4 DEF RequestKeyFrame
  <2>2. schedule' \in BOOLEAN /\ proc' \in {"idle", "request", "sent"}
    BY <1>4 DEF RequestKeyFrame
  <2> QED
    BY <1>0, <1>4, <2>1, <2>2, OtherStep DEF RequestKeyFrame, TypeOK
<1>4a. CASE RequestReturns
  <2>1. Conserves(jb, jb')
    BY <1>0, <1>4a DEF RequestReturns
  <2> QED
    BY <1>0, <1>4a, <2>1, OtherStep DEF RequestReturns, TypeOK
<1>5. CASE StopJitterBuffer
  <2>1. Conserves(jb, jb')
    BY <1>0, <1>5, StopLockedOK DEF StopJitterBuffer, Shrinks
  <2> QED
    BY <1>0, <1>5, <2>1, OtherStep DEF StopJitterBuffer, TypeOK
<1>6. CASE SignalStop
  <2>1. Conserves(jb, jb')
    BY <1>0, <1>6 DEF SignalStop
  <2> QED
    BY <1>0, <1>6, <2>1, OtherStep DEF SignalStop, TypeOK
<1> QED
  BY <1>1, <1>2, <1>3, <1>4, <1>4a, <1>5, <1>6 DEF ProcessThread, Shutdown

\* Steps of Decode preserve it.
LEMMA DecodeThreadInv ==
  ASSUME IInv, DecodeThread
  PROVE  IInv'
<1>0. /\ TypeOK /\ IsJitterBuffer(jb) /\ Conserves(jb, jb)
      /\ dec \in DecodeThreads
  BY ConservesRefl DEF IInv, TypeOK, DecodeThreads
<1>a. Conserves(jb, CleanUpOldOrEmptyFrames(jb))
  BY <1>0, CleanUpOK DEF Shrinks
<1>b. ASSUME NEW pc \in DecodePcs \ {"decode", "release"}
      PROVE  /\ DecodeAt(pc, 0) \in DecodeThreads
             /\ DecodeAt(pc, 0).pc \notin {"decode", "release"}
  BY DecodeAtType, IdleType
<1>1. CASE NextCompleteTimestamp \/ Woken
  <2>1. /\ dec.pc \notin {"decode", "release"}
        /\ UNCHANGED frame_event /\ UnchangedByDecoder
    BY <1>1 DEF NextCompleteTimestamp, Woken
  <2>2. /\ Conserves(jb, jb')
        /\ dec' \in DecodeThreads /\ dec'.pc \notin {"decode", "release"}
    <3>1. CASE jb.running
      <4>1. jb' = CleanUpOldOrEmptyFrames(jb)
             /\ \E others \in SUBSET {"wait", "maybe"} : Inspect(jb', others)
        BY <1>1, <3>1 DEF NextCompleteTimestamp, Woken
      <4>2. IsJitterBuffer(jb')
        BY <1>a, <4>1 DEF Conserves
      <4> QED
        BY <1>a, <4>1, <4>2, InspectType
    <3>2. CASE ~jb.running
      <4>1. jb' = jb /\ dec' = DecodeAt("maybe", 0)
        BY <1>1, <3>2 DEF NextCompleteTimestamp, Woken
      <4> QED
        BY <1>0, <1>b, <4>1 DEF DecodePcs
    <3> QED
      BY <3>1, <3>2
  <2> QED
    BY <1>0, <2>1, <2>2, DecodeStep DEF TypeOK
<1>2. CASE WaitSignaled \/ WaitTimeout
  <2>1. /\ dec.pc \notin {"decode", "release"} /\ jb' = jb
        /\ dec' \in {DecodeAt("woken", 0), DecodeAt("timeout", 0)}
        /\ frame_event' \in BOOLEAN /\ UnchangedByDecoder
    BY <1>0, <1>2 DEF WaitSignaled, WaitTimeout, TypeOK
  <2>2. dec' \in DecodeThreads /\ dec'.pc \notin {"decode", "release"}
    BY <1>b, <2>1 DEF DecodePcs
  <2> QED
    BY <1>0, <2>1, <2>2, DecodeStep
<1>3. CASE TimedOut
  <2>1. /\ dec.pc \notin {"decode", "release"} /\ jb' = jb
        /\ frame_event' \in BOOLEAN /\ UnchangedByDecoder
        /\ \E others \in SUBSET {"wait", "maybe"} : Inspect(jb, others)
    BY <1>0, <1>3 DEF TimedOut, TypeOK
  <2>2. dec' \in DecodeThreads /\ dec'.pc \notin {"decode", "release"}
    BY <1>0, <2>1, InspectType
  <2> QED
    BY <1>0, <2>1, <2>2, DecodeStep
<1>4. CASE NextMaybeIncompleteTimestamp
  <2>1. /\ dec.pc \notin {"decode", "release"}
        /\ frame_event' \in BOOLEAN /\ UnchangedByDecoder
    BY <1>0, <1>4 DEF NextMaybeIncompleteTimestamp, TypeOK
  <2>2. /\ Conserves(jb, jb')
        /\ dec' = DecodeIdle
             \/ (dec' = DecodeAt("timing", FrontTs(jb')) /\ MaybeIncomplete(jb'))
    BY <1>0, <1>a, <1>4 DEF NextMaybeIncompleteTimestamp
  <2>3. MaybeIncomplete(jb') => FrontTs(jb') \in Timestamps
    BY <2>2, FrontTsType DEF MaybeIncomplete, Conserves
  <2>4. dec' \in DecodeThreads /\ dec'.pc \notin {"decode", "release"}
    BY <2>2, <2>3, DecodeAtType, IdleType DEF DecodePcs
  <2> QED
    BY <2>1, <2>2, <2>4, DecodeStep
<1>5. CASE TimingError \/ TooEarly
  <2>1. /\ dec.pc \notin {"decode", "release"} /\ dec' = DecodeIdle
        /\ frame_event' \in BOOLEAN /\ UnchangedByDecoder
        /\ jb' \in {jb, Flush(jb)}
    BY <1>0, <1>5 DEF TimingError, TooEarly, TypeOK
  <2>2. Conserves(jb, jb')
    BY <1>0, <2>1, FlushOK DEF Shrinks
  <2> QED
    BY <2>1, <2>2, DecodeStep, IdleType
<1>6. CASE FrameForDecoding
  <2>1. /\ dec.pc = "timing" /\ frame_event' \in BOOLEAN /\ UnchangedByDecoder
    BY <1>0, <1>6 DEF FrameForDecoding, TypeOK
  <2>2. CASE jb.running /\ Has(jb, dec.ts)
    <3> DEFINE f == FrameAt(jb, dec.ts)
               s == Summary(f, ExtractedContinuous(jb, dec.ts))
    <3>1. /\ jb' = ExtractAndSetDecode(jb, dec.ts)
          /\ dec' = [pc |-> "decode", ts |-> dec.ts, frame |-> s]
      BY <1>6, <2>2 DEF FrameForDecoding
    <3>2. /\ IsJitterBuffer(jb') /\ Buffers(jb') = Buffers(jb) - 1
          /\ jb'.allocated = jb.allocated /\ f \in Frame
      BY <1>0, <2>2, <3>1, ExtractOK
    <3> HIDE DEF f
    <3>3. s \in Summaries
      BY <3>2 DEF Summary, Summaries, Frame
    <3>4. dec' \in DecodeThreads /\ dec'.pc = "decode"
      BY <1>0, <3>1, <3>3 DEF DecodeThreads, DecodePcs
    <3>5. HeldByDecoder = 0 /\ HeldByDecoder' = 1
      BY <2>1, <3>4 DEF HeldByDecoder
    <3>6. Buffers(jb) \in Nat
      BY <1>0, BuffersType
    <3>7. FramePoolConserved'
      BY <3>2, <3>5, <3>6 DEF IInv, FramePoolConserved
    <3>8. TypeOK'
      BY <1>0, <2>1, <3>2, <3>4
      DEF TypeOK, DecodeThreads, UnchangedByDecoder
    <3> QED
      BY <3>7, <3>8 DEF IInv
  <2>3. CASE ~(jb.running /\ Has(jb, dec.ts))
    <3>1. jb' = jb /\ dec' = DecodeIdle
      BY <1>6, <2>3 DEF FrameForDecoding
    <3> QED
      BY <1>0, <2>1, <3>1, DecodeStep, IdleType
  <2> QED
    BY <2>2, <2>3
<1>7. ASSUME NEW outcome \in {"ok", "error", "sli"}, DecodeFrame(outcome)
      PROVE  IInv'
  <2>1. /\ dec.pc = "decode" /\ dec' = DecodeAt("release", 0)
        /\ UNCHANGED <<jb, frame_event, net, proc, stop>>
        /\ decoder' \in BOOLEAN /\ schedule' \in BOOLEAN
    BY <1>7 DEF DecodeFrame
  <2>2. dec' \in DecodeThreads /\ dec'.pc = "release"
    BY <2>1, DecodeAtType, IdleType DEF DecodePcs
  <2>3. HeldByDecoder' = HeldByDecoder
    BY <2>1, <2>2 DEF HeldByDecoder
  <2>4. FramePoolConserved' /\ IsJitterBuffer(jb')
    BY <1>0, <2>1, <2>3, ConservingStep
  <2> QED
    BY <1>0, <2>1, <2>2, <2>4 DEF IInv, TypeOK, DecodeThreads
<1>8. CASE ReleaseDecodedFrame
  <2>1. /\ dec.pc = "release" /\ jb' = ReleaseFrame(jb) /\ dec' = DecodeIdle
        /\ UNCHANGED frame_event /\ UnchangedByDecoder
    BY <1>8 DEF ReleaseDecodedFrame
  <2>2. /\ IsJitterBuffer(jb') /\ Buffers(jb') = Buffers(jb) + 1
        /\ jb'.allocated = jb.allocated
    BY <1>0, <2>1, ReleaseOK
  <2>3. HeldByDecoder = 1 /\ HeldByDecoder' = 0
    BY <2>1, IdleType DEF HeldByDecoder
  <2>4. Buffers(jb) \in Nat
    BY <1>0, BuffersType
  <2>5. FramePoolConserved'
    BY <2>2, <2>3, <2>4 DEF IInv, FramePoolConserved
  <2>6. TypeOK'
    BY <1>0, <2>1, <2>2, IdleType DEF TypeOK, DecodeThreads, UnchangedByDecoder
  <2> QED
    BY <2>5, <2>6 DEF IInv
<1> QED
  BY <1>1, <1>2, <1>3, <1>4, <1>5, <1>6, <1>7, <1>8 DEF DecodeThread

\* Changing a mode leaves the frames where they are.
LEMMA SetProtectionInv ==
  ASSUME IInv, SetProtection
  PROVE  IInv'
<1>0. IsJitterBuffer(jb) /\ TypeOK
  BY DEF IInv, TypeOK
<1>1. UNCHANGED <<frame_event, dec, net, proc, stop, schedule, decoder>>
  BY DEF SetProtection, SetNackMode, SetDecodeErrorMode
<1>2. Conserves(jb, jb')
  <2>1. CASE \E mode \in NackModes : SetNackMode(mode)
    BY <1>0, <2>1 DEF SetNackMode, SelectNackMode, Conserves, IsJitterBuffer,
                      Buffers, Fields
  <2>2. CASE \E mode \in DecodeErrorModes : SetDecodeErrorMode(mode)
    BY <1>0, <2>2 DEF SetDecodeErrorMode, SelectDecodeErrorMode, Conserves,
                      IsJitterBuffer, Buffers, Fields
  <2> QED
    BY <2>1, <2>2 DEF SetProtection
<1>3. HeldByDecoder' = HeldByDecoder
  BY <1>1 DEF HeldByDecoder
<1> QED
  BY <1>0, <1>1, <1>2, <1>3, ConservingStep DEF IInv, TypeOK

-----------------------------------------------------------------------------
(* The theorems.                                                           *)
\* Hence every step preserves it.
LEMMA NextInv ==
  ASSUME IInv, [Next]_vars
  PROVE  IInv'
<1>1. CASE UNCHANGED vars
  BY <1>1 DEF vars, IInv, TypeOK, FramePoolConserved, HeldByDecoder
<1> QED
  BY <1>1, NetworkThreadInv, ProcessAndShutdownInv, DecodeThreadInv,
     SetProtectionInv DEF Next

\* The inductive invariant holds in every reachable state.
LEMMA SpecInv == Spec => []IInv
BY InitInv, NextInv, PTL DEF Spec

\* Every variable keeps its type.  In particular no frame is ever in both lists
\* or under a timestamp that is not its own, and the assertions of SetState and
\* EstimatedLowSequenceNumber, that a frame has a sequence number, hold.
THEOREM TypeCorrect == Spec => []TypeOK
<1>1. IInv => TypeOK
  BY DEF IInv
<1> QED
  BY <1>1, SpecInv, PTL

\* No interleaving of the threads loses a frame buffer or has one in two places,
\* and the pool never outgrows kMaxNumberOfFrames.
THEOREM PoolConserved == Spec => []FramePoolConserved
<1>1. IInv => FramePoolConserved
  BY DEF IInv
<1> QED
  BY <1>1, SpecInv, PTL

\* assert(*frame) in VCMJitterBuffer::GetFrame holds, whatever is buffered and
\* whatever the decode thread holds.
THEOREM AssertFrame == Spec => []RecyclingYieldsFrame
<1>1. IInv => RecyclingYieldsFrame
  BY InvPoolReady, RecyclingYields DEF RecyclingYieldsFrame
<1> QED
  BY <1>1, SpecInv, PTL

-----------------------------------------------------------------------------
(* The NACK list and running_.  What one step of any thread does to them.  *)
JitterBufferStep ==
  \/ Sheds(jb, Lists(jb), jb')
  \/ \E p \in Stream : jb' = InsertPacket(jb, p).jb
  \/ jb' = Flush(jb)
  \/ jb' = Start(jb) /\ net.pc = "reset" /\ ~net.running
  \/ jb' = StopLocked(jb) /\ MayStop /\ stop' = "signal"
  \/ \E mode \in NackModes : jb' = SelectNackMode(jb, mode)

\* Every step is of one of these kinds.
LEMMA StepKinds ==
  ASSUME IInv, [Next]_vars
  PROVE  JitterBufferStep
<1>0. IsJitterBuffer(jb)
  BY DEF IInv, TypeOK
<1> DEFINE same  == jb' = jb
           sheds == Sheds(jb, Lists(jb), jb')
<1>1. same => sheds
  BY ShedsNothing
<1>2. CASE UNCHANGED vars
  BY <1>1, <1>2 DEF vars, JitterBufferStep
<1>3. CASE NetworkThread
  <2>1. CASE \E p \in Stream : IncomingPacket(p)
    BY <2>1 DEF IncomingPacket, JitterBufferStep
  <2>2. CASE ResetJitterBuffer
    BY <2>2 DEF ResetJitterBuffer, JitterBufferStep
  <2>3. CASE NetRequestKeyFrame \/ LockDecoder \/ ClearKeyRequest
    <3>1. same
      BY <2>3 DEF NetRequestKeyFrame, LockDecoder, ClearKeyRequest
    <3> QED
      BY <1>1, <3>1 DEF JitterBufferStep
  <2> QED
    BY <1>3, <2>1, <2>2, <2>3 DEF NetworkThread
<1>4. CASE ProcessThread
  <2>1. CASE ProcessStatistics
    BY <1>0, <2>1, CleanUpSheds DEF ProcessStatistics, JitterBufferStep
  <2>2. CASE ProcessNackList
    BY <1>0, <2>2, GetNackListSheds DEF ProcessNackList, JitterBufferStep
  <2>3. CASE ProcessKeyRequest \/ (\E ok \in BOOLEAN : RequestKeyFrame(ok)) \/ RequestReturns
    <3>1. same
      BY <2>3 DEF ProcessKeyRequest, RequestKeyFrame, RequestReturns
    <3> QED
      BY <1>1, <3>1 DEF JitterBufferStep
  <2> QED
    BY <1>4, <2>1, <2>2, <2>3 DEF ProcessThread
<1>5. CASE Shutdown
  <2>1. CASE StopJitterBuffer
    BY <2>1 DEF StopJitterBuffer, JitterBufferStep
  <2>2. CASE SignalStop
    <3>1. same
      BY <2>2 DEF SignalStop
    <3> QED
      BY <1>1, <3>1 DEF JitterBufferStep
  <2> QED
    BY <1>5, <2>1, <2>2 DEF Shutdown
<1>6. CASE SetProtection
  <2>1. CASE \E mode \in NackModes : SetNackMode(mode)
    BY <2>1 DEF SetNackMode, JitterBufferStep
  <2>2. CASE \E mode \in DecodeErrorModes : SetDecodeErrorMode(mode)
    <3>1. PICK mode \in DecodeErrorModes : jb' = [jb EXCEPT !.error_mode = mode]
      BY <2>2 DEF SetDecodeErrorMode, SelectDecodeErrorMode
    <3> DEFINE b == [jb EXCEPT !.error_mode = mode]
    <3>2. /\ b.running = jb.running /\ b.fresh = jb.fresh
          /\ b.latest = jb.latest /\ b.nack_mode = jb.nack_mode
          /\ b.missing = jb.missing /\ b.last = jb.last
          /\ b.decodable = jb.decodable /\ b.incomplete = jb.incomplete
      BY <1>0 DEF IsJitterBuffer, Fields
    <3> HIDE DEF b
    <3>3. Sheds(jb, Lists(jb), b)
      BY <3>2, SameSheds
    <3> QED
      BY <3>1, <3>3 DEF JitterBufferStep, b
  <2> QED
    BY <1>6, <2>1, <2>2 DEF SetProtection
<1>7. CASE DecodeThread
  <2>1. CASE \/ NextCompleteTimestamp \/ Woken \/ NextMaybeIncompleteTimestamp
             \/ WaitSignaled \/ WaitTimeout \/ TimedOut
             \/ TimingError \/ TooEarly
             \/ \E outcome \in {"ok", "error", "sli"} : DecodeFrame(outcome)
    <3>1. jb' \in {jb, CleanUpOldOrEmptyFrames(jb), Flush(jb)}
      BY <2>1 DEF NextCompleteTimestamp, Woken, NextMaybeIncompleteTimestamp,
         WaitSignaled, WaitTimeout, TimedOut, TimingError, TooEarly, DecodeFrame
    <3> QED
      BY <1>0, <1>1, <3>1, CleanUpSheds DEF JitterBufferStep
  <2>2. CASE FrameForDecoding
    <3>1. jb' = jb \/ (Has(jb, dec.ts) /\ jb' = ExtractAndSetDecode(jb, dec.ts))
      BY <2>2 DEF FrameForDecoding
    <3> QED
      BY <1>0, <1>1, <3>1, ExtractSheds DEF JitterBufferStep
  <2>3. CASE ReleaseDecodedFrame
    <3> DEFINE b == ReleaseFrame(jb)
    <3>1. /\ b.running = jb.running /\ b.fresh = jb.fresh
          /\ b.latest = jb.latest /\ b.nack_mode = jb.nack_mode
          /\ b.missing = jb.missing /\ b.last = jb.last
          /\ b.decodable = jb.decodable /\ b.incomplete = jb.incomplete
      BY <1>0 DEF ReleaseFrame, IsJitterBuffer, Fields
    <3> HIDE DEF b
    <3>2. Sheds(jb, Lists(jb), b)
      BY <3>1, SameSheds
    <3> QED
      BY <2>3, <3>2 DEF ReleaseDecodedFrame, JitterBufferStep, b
  <2> QED
    BY <1>7, <2>1, <2>2, <2>3 DEF DecodeThread
<1> QED
  BY <1>2, <1>3, <1>4, <1>5, <1>6, <1>7 DEF Next

\* Which of them change running_.
LEMMA RunningStep ==
  ASSUME IInv, JitterBufferStep
  PROVE  /\ Short(jb.missing) => Short(jb.missing)'
         /\ jb'.running = jb.running \/ jb'.running
              \/ (stop' = "signal" /\ MayStop)
<1>0. IsJitterBuffer(jb) /\ PoolReady(jb)
  BY InvPoolReady DEF IInv, TypeOK
<1>1. CASE Tame(jb, jb')
  BY <1>1 DEF Tame, Short
<1>2. ASSUME NEW mode, jb' = SelectNackMode(jb, mode)
      PROVE  Tame(jb, jb')
  <2> DEFINE missing == IF mode = "kNoNack" THEN {} ELSE jb.missing
  <2>1. missing \subseteq jb.missing
    OBVIOUS
  <2>2. jb' = [jb EXCEPT !.nack_mode = mode, !.missing = missing]
    BY <1>2 DEF SelectNackMode
  <2> HIDE DEF missing
  <2>3. jb'.missing = missing /\ jb'.running = jb.running
    BY <1>0, <2>2 DEF IsJitterBuffer, Fields
  <2> QED
    BY <1>0, <2>1, <2>3, ShortPart DEF Tame, IsJitterBuffer
<1>3. CASE jb' = Start(jb)
  <2>1. jb'.running /\ jb'.missing = jb.missing
    BY <1>0, <1>3 DEF Start, IsJitterBuffer, Fields
  <2> QED
    BY <2>1 DEF Short
<1>4. CASE jb' = StopLocked(jb) /\ MayStop /\ stop' = "signal"
  <2>1. jb'.missing = jb.missing
    BY <1>0, <1>4 DEF StopLocked, AllFree, IsJitterBuffer, Fields
  <2> QED
    BY <1>4, <2>1 DEF Short
<1>5. ASSUME NEW p \in Stream, jb' = InsertPacket(jb, p).jb
      PROVE  Tame(jb, jb')
  BY <1>0, <1>5, StreamAssumption, InsertPacketTame
<1> QED
  BY <1>0, <1>1, <1>2, <1>3, <1>4, <1>5, ShedsTame, FlushTame
  DEF JitterBufferStep

\* The NACK list never grows beyond max_nack_list_size_, for any stream of
\* packets, in any order, and across stops and restarts.
NackListShort == Cardinality(jb.missing) <= MaxNackListSize

\* UpdateNackList, the only place that adds to the list, shrinks it at once.
THEOREM NackListStaysShort == Spec => []NackListShort
<1>1. Init => Short(jb.missing)
  <2>1. Init => jb.missing = {}
    BY DEF Init, Start, InitJitterBuffer
  <2> QED
    BY <2>1, ShortOrTooLarge
<1>2. IInv /\ Short(jb.missing) /\ [Next]_vars => Short(jb.missing)'
  BY StepKinds, RunningStep
<1>3. Short(jb.missing) => NackListShort
  BY DEF Short, NackListShort
<1> QED
  BY <1>1, <1>2, <1>3, SpecInv, PTL DEF Spec

\* A decode thread that waits on a stopped jitter buffer is about to be woken.
\* It can start to wait only while the jitter buffer runs, so the wake-up of the
\* Stop that comes after is still to come or stays in the event.
LEMMA WakesStep ==
  ASSUME IInv, ShutdownWakesDecoder, [Next]_vars
  PROVE  ShutdownWakesDecoder'
<1>1. jb'.running = jb.running \/ jb'.running \/ stop' = "signal"
  BY StepKinds, RunningStep
<1>2. dec'.pc = "wait" => dec' = dec \/ jb'.running
  <2>1. IsJitterBuffer(jb)
    BY DEF IInv, TypeOK
  <2>2. CleanUpOldOrEmptyFrames(jb).running = jb.running
    BY <2>1, CleanUpSheds DEF Sheds
  <2>3. ASSUME NextCompleteTimestamp \/ Woken, dec'.pc = "wait"
        PROVE  jb'.running
    BY <2>2, <2>3 DEF NextCompleteTimestamp, Woken, DecodeAt
  <2>4. TimedOut => dec'.pc # "wait"
    BY DEF TimedOut, Inspect, DecodeAt
  <2>5. DecodeThread /\ ~NextCompleteTimestamp /\ ~Woken => dec'.pc # "wait"
    <3>1. WaitSignaled \/ WaitTimeout => dec'.pc # "wait"
      BY DEF WaitSignaled, WaitTimeout, DecodeAt
    <3>2. NextMaybeIncompleteTimestamp => dec'.pc # "wait"
      BY DEF NextMaybeIncompleteTimestamp, DecodeAt, DecodeIdle
    <3>3. TimingError \/ TooEarly \/ ReleaseDecodedFrame => dec'.pc # "wait"
      BY DEF TimingError, TooEarly, ReleaseDecodedFrame, DecodeIdle
    <3>4. FrameForDecoding => dec'.pc # "wait"
      BY DEF FrameForDecoding, DecodeIdle
    <3>5. ASSUME NEW outcome, DecodeFrame(outcome)
          PROVE  dec'.pc # "wait"
      BY <3>5 DEF DecodeFrame, DecodeAt
    <3> QED
      BY <2>4, <3>1, <3>2, <3>3, <3>4, <3>5 DEF DecodeThread
  <2>6. NetworkThread \/ ProcessThread \/ Shutdown \/ SetProtection
          \/ UNCHANGED vars => dec' = dec
    BY DEF NetworkThread, ProcessThread, Shutdown, SetProtection, vars,
       IncomingPacket, NetRequestKeyFrame, LockDecoder, ResetJitterBuffer,
       ClearKeyRequest, ProcessStatistics, ProcessKeyRequest, ProcessNackList,
       RequestKeyFrame, RequestReturns, StopJitterBuffer, SignalStop, SetNackMode,
       SetDecodeErrorMode
  <2> QED
    BY <2>3, <2>5, <2>6 DEF Next
<1>3. frame_event => frame_event' \/ dec'.pc # "wait"
  <2>1. ASSUME NEW p \in Stream, IncomingPacket(p)
        PROVE  frame_event => frame_event'
    BY <2>1 DEF IncomingPacket
  <2>2. SignalStop => frame_event'
    BY DEF SignalStop
  <2>3. WaitSignaled => dec'.pc # "wait"
    BY DEF WaitSignaled, DecodeAt
  <2>4. CASE NetworkThread /\ ~(\E p \in Stream : IncomingPacket(p))
    BY <2>4 DEF NetworkThread, NetRequestKeyFrame, LockDecoder,
       ResetJitterBuffer, ClearKeyRequest
  <2>5. CASE ProcessThread
    BY <2>5 DEF ProcessThread, ProcessStatistics, ProcessKeyRequest,
       ProcessNackList, RequestKeyFrame, RequestReturns
  <2>6. CASE StopJitterBuffer \/ SetProtection \/ UNCHANGED vars
    BY <2>6 DEF StopJitterBuffer, SetProtection, SetNackMode,
       SetDecodeErrorMode, vars
  <2>7. CASE DecodeThread /\ ~WaitSignaled
    BY <2>7 DEF DecodeThread, WaitTimeout, NextCompleteTimestamp, Woken,
       TimedOut, NextMaybeIncompleteTimestamp, TimingError, TooEarly,
       FrameForDecoding, DecodeFrame, ReleaseDecodedFrame
  <2> QED
    BY <2>1, <2>2, <2>3, <2>4, <2>5, <2>6, <2>7
    DEF Next, NetworkThread, Shutdown
<1>4. stop = "signal" => stop' = "signal" \/ frame_event'
  <2>1. SignalStop => frame_event'
    BY DEF SignalStop
  <2>2. StopJitterBuffer => stop' = "signal"
    BY DEF StopJitterBuffer
  <2>3. ~SignalStop /\ ~StopJitterBuffer => stop' = stop
    BY DEF Next, NetworkThread, ProcessThread, Shutdown, SetProtection, vars,
       IncomingPacket, NetRequestKeyFrame, LockDecoder, ResetJitterBuffer,
       ClearKeyRequest, ProcessStatistics, ProcessKeyRequest, ProcessNackList,
       RequestKeyFrame, RequestReturns, SetNackMode, SetDecodeErrorMode,
       UnchangedByDecoder,
       DecodeThread, WaitSignaled, WaitTimeout, NextCompleteTimestamp, Woken,
       TimedOut, NextMaybeIncompleteTimestamp, TimingError, TooEarly,
       FrameForDecoding, DecodeFrame, ReleaseDecodedFrame
  <2> QED
    BY <2>1, <2>2, <2>3
<1> QED
  BY <1>1, <1>2, <1>3, <1>4 DEF ShutdownWakesDecoder

\* TriggerDecoderShutdown never leaves the decode thread asleep, whatever the
\* other threads do between the hold of the lock and the wake-up, restarts by
\* ResetDecoder included.
THEOREM ShutdownWakes == Spec => []ShutdownWakesDecoder
<1>1. Init => ShutdownWakesDecoder
  BY DEF Init, DecodeIdle, ShutdownWakesDecoder
<1> QED
  BY <1>1, WakesStep, SpecInv, PTL DEF Spec

-----------------------------------------------------------------------------
(* The NACK list of a stream within half a circle, without restarts.       *)
\* ResetDecoder finds the jitter buffer running, and flushes it.
NackInv(base) ==
  /\ NackOK(jb, base)
  /\ jb.running
  /\ net.pc = "reset" => net.running

\* A jitter buffer that has just been started asks for nothing.
LEMMA NackInit ==
  ASSUME Init, NEW base
  PROVE  NackInv(base)
<1>1. /\ jb.missing = {} /\ jb.fresh /\ jb.last = InitialState /\ jb.running
      /\ jb.decodable = EmptyList /\ jb.incomplete = EmptyList
  BY DEF Init, Start, InitJitterBuffer
<1>2. Lists(jb) = {}
  BY <1>1 DEF Lists, EmptyList
<1>3. Short(jb.missing)
  BY <1>1, ShortOrTooLarge
<1>4. jb.last.initial
  BY <1>1 DEF InitialState
<1>5. NackOK(jb, base)
  BY <1>1, <1>2, <1>3, <1>4 DEF NackOK, AgesIn, LastIn
<1> QED
  BY <1>1, <1>5 DEF NackInv, Init, NetIdle

\* Every step keeps the NACK list in order.
LEMMA NackStep ==
  ASSUME ~MayStop, NEW base \in SeqNums,
         \A p \in Stream : Distance(p.seq, base, SeqHalf) < SeqHalf,
         IInv, NackInv(base), [Next]_vars
  PROVE  NackInv(base)'
<1>0. IsJitterBuffer(jb) /\ PoolReady(jb) /\ NackOK(jb, base)
  BY InvPoolReady DEF IInv, TypeOK, NackInv
<1>1. JitterBufferStep
  BY StepKinds
<1>2. jb'.running
  BY <1>1, RunningStep DEF NackInv
<1>3. NackOK(jb', base)
  <2>1. ASSUME NEW p \in Stream, jb' = InsertPacket(jb, p).jb
        PROVE  NackOK(jb', base)
    <3>1. p \in PacketType /\ InHalf(p.seq, base)
      BY StreamAssumption DEF InHalf, Pos
    <3> QED
      BY <1>0, <2>1, <3>1, InsertPacketNackOK
  <2>2. ~(jb' = Start(jb) /\ net.pc = "reset" /\ ~net.running)
    BY DEF NackInv
  <2> QED
    BY <1>0, <1>1, <2>1, <2>2, ShedsOwnNackOK, FlushNackOK,
       SelectNackModeNackOK DEF JitterBufferStep
<1>4. net'.pc = "reset" => net'.running
  <2>1. CASE LockDecoder
    BY <2>1 DEF LockDecoder, NackInv, NetIdle
  <2>2. CASE NetworkThread /\ ~LockDecoder
    <3>0. net \in [pc : NetPcs, running : BOOLEAN]
      BY DEF IInv, TypeOK
    <3>1. net' = net \/ net'.pc # "reset"
      <4>1. ASSUME NEW p \in Stream, IncomingPacket(p)
            PROVE  net' = net \/ net' = [net EXCEPT !.pc = "request"]
        BY <4>1 DEF IncomingPacket
      <4>2. NetRequestKeyFrame => net' = [net EXCEPT !.pc = "lock"]
        BY DEF NetRequestKeyFrame
      <4>3. ResetJitterBuffer \/ ClearKeyRequest => net'.pc # "reset"
        BY DEF ResetJitterBuffer, ClearKeyRequest, NetIdle
      <4>4. /\ [net EXCEPT !.pc = "request"].pc = "request"
            /\ [net EXCEPT !.pc = "lock"].pc = "lock"
        BY <3>0
      <4> QED
        BY <2>2, <4>1, <4>2, <4>3, <4>4 DEF NetworkThread
    <3> QED
      BY <3>1 DEF NackInv
  <2>3. CASE ~NetworkThread
    <3>1. net' = net
      BY <2>3 DEF Next, ProcessThread, Shutdown, SetProtection, vars,
       ProcessStatistics, ProcessKeyRequest, ProcessNackList, SignalStop,
       RequestKeyFrame, RequestReturns, StopJitterBuffer, SetNackMode, SetDecodeErrorMode,
       DecodeThread, WaitSignaled, WaitTimeout, NextCompleteTimestamp, Woken,
       TimedOut, NextMaybeIncompleteTimestamp, TimingError, TooEarly,
       FrameForDecoding, DecodeFrame, ReleaseDecodedFrame, UnchangedByDecoder
    <3> QED
      BY <3>1 DEF NackInv
  <2> QED
    BY <2>1, <2>2, <2>3
<1> QED
  BY <1>2, <1>3, <1>4 DEF NackInv

\* What the invariant says of the two properties.
LEMMA NackInvImplies ==
  ASSUME IInv, NEW base \in SeqNums, NackInv(base)
  PROVE  NackListBounded /\ NackedPacketsAreMissing
<1>0. IsJitterBuffer(jb) /\ NackOK(jb, base)
  BY DEF IInv, TypeOK, NackInv
<1>1. Cardinality(jb.missing) <= MaxNackListSize
  BY <1>0 DEF NackOK, Short
<1>2. ASSUME NEW m \in jb.missing
      PROVE  Distance(jb.latest, m, SeqHalf) <= MaxPacketAgeToNack
  <2>1. ~jb.fresh
    BY <1>0 DEF NackOK
  <2>2. /\ InHalf(jb.latest, base) /\ InHalf(m, base)
        /\ Pos(m, base) < Pos(jb.latest, base)
        /\ Pos(jb.latest, base) <= Pos(m, base) + MaxPacketAgeToNack
        /\ m \in SeqNums /\ jb.latest \in SeqNums
    BY <1>0, <2>1 DEF NackOK, AgesIn, IsJitterBuffer
  <2>3. /\ Pos(jb.latest, base) \in Nat /\ Pos(m, base) \in Nat
        /\ Pos(jb.latest, base) >= Pos(m, base)
             => Distance(jb.latest, m, SeqHalf)
                  = Pos(jb.latest, base) - Pos(m, base)
    BY <2>2, HalfOrder
  <2> QED
    BY <2>2, <2>3, JitterBufferAssumption
<1>3. ASSUME NEW s \in BufferedSeqs, s \in jb.missing
      PROVE  FALSE
  <2>1. PICK f \in Lists(jb) : s \in {f.packets[i].seq : i \in DOMAIN f.packets}
    BY DEF BufferedSeqs
  <2>2. f \in Frame /\ FrameIn(f, jb, base)
    BY <1>0, ListsType DEF NackOK
  <2>3. DOMAIN f.packets = 1 .. Len(f.packets)
    BY <2>2 DEF Frame
  <2>4. s \in PacketSeqs(f)
    BY <2>1, <2>3 DEF PacketSeqs
  <2> QED
    BY <1>3, <2>2, <2>4 DEF FrameIn
<1> QED
  BY <1>1, <1>2, <1>3 DEF NackListBounded, NackedPacketsAreMissing

\* While the jitter buffer is not stopped, and for every stream whose sequence
\* numbers are within half a circle, the NACK list stays within the limits of
\* SetNackSettings on its size and on the age of the packets in it.
THEOREM NackBounded ==
  ASSUME ~MayStop, StreamInHalf
  PROVE  Spec => []NackListBounded
<1>1. PICK base \in SeqNums :
             \A p \in Stream : Distance(p.seq, base, SeqHalf) < SeqHalf
  BY DEF StreamInHalf
<1> DEFINE Inv == IInv /\ NackInv(base)
<1>2. Init => Inv
  BY InitInv, NackInit
<1>3. Inv /\ [Next]_vars => Inv'
  BY <1>1, NextInv, NackStep
<1>4. Inv => NackListBounded
  BY NackInvImplies
<1> HIDE DEF Inv
<1> QED
  BY <1>2, <1>3, <1>4, PTL DEF Spec

\* Under the same assumptions no packet is asked for that is in a frame of
\* either list.
THEOREM NackedAreMissing ==
  ASSUME ~MayStop, StreamInHalf
  PROVE  Spec => []NackedPacketsAreMissing
<1>1. PICK base \in SeqNums :
             \A p \in Stream : Distance(p.seq, base, SeqHalf) < SeqHalf
  BY DEF StreamInHalf
<1> DEFINE Inv == IInv /\ NackInv(base)
<1>2. Init => Inv
  BY InitInv, NackInit
<1>3. Inv /\ [Next]_vars => Inv'
  BY <1>1, NextInv, NackStep
<1>4. Inv => NackedPacketsAreMissing
  BY NackInvImplies
<1> HIDE DEF Inv
<1> QED
  BY <1>2, <1>3, <1>4, PTL DEF Spec

-----------------------------------------------------------------------------
(* The order of decoding.  Timestamps and sequence numbers of an ordered   *)
(* stream.                                                                 *)
StreamTs == {p.ts : p \in Stream}

\* Timestamps of an ordered stream are in order.
LEMMA TsOrder ==
  ASSUME StreamOrdered, NEW a \in StreamTs, NEW b \in StreamTs, NEW c \in StreamTs
  PROVE  /\ ~IsNewerTimestamp(a, a)
         /\ ~(IsNewerTimestamp(a, b) /\ IsNewerTimestamp(b, a))
         /\ a = b \/ IsNewerTimestamp(a, b) \/ IsNewerTimestamp(b, a)
         /\ IsNewerTimestamp(a, b) /\ IsNewerTimestamp(b, c) => IsNewerTimestamp(a, c)
<1>1. PICK base \in Timestamps :
             \A p \in Stream : Distance(p.ts, base, TsHalf) < TsHalf
  BY DEF StreamOrdered
<1>2. /\ a \in Timestamps /\ b \in Timestamps /\ c \in Timestamps
      /\ Distance(a, base, TsHalf) < TsHalf
      /\ Distance(b, base, TsHalf) < TsHalf
      /\ Distance(c, base, TsHalf) < TsHalf
  BY <1>1, StreamAssumption DEF StreamTs, PacketType
<1>3. ASSUME NEW x \in Timestamps, NEW y \in Timestamps,
             Distance(x, base, TsHalf) < TsHalf,
             Distance(y, base, TsHalf) < TsHalf
      PROVE  /\ Distance(x, base, TsHalf) \in Int
             /\ IsNewerTimestamp(x, y)
                  <=> Distance(x, base, TsHalf) > Distance(y, base, TsHalf)
             /\ Distance(x, base, TsHalf) = Distance(y, base, TsHalf) => x = y
  BY <1>3, HalfAssumption DEF Timestamps, Distance, IsNewerTimestamp, IsNewer
<1> DEFINE d(x) == Distance(x, base, TsHalf)
<1>4. /\ IsNewerTimestamp(a, a) <=> d(a) > d(a)
      /\ IsNewerTimestamp(a, b) <=> d(a) > d(b)
      /\ IsNewerTimestamp(b, a) <=> d(b) > d(a)
      /\ IsNewerTimestamp(b, c) <=> d(b) > d(c)
      /\ IsNewerTimestamp(a, c) <=> d(a) > d(c)
      /\ d(a) = d(b) => a = b
      /\ d(a) \in Int /\ d(b) \in Int /\ d(c) \in Int
  BY <1>2, <1>3
<1> HIDE DEF d
<1> QED
  BY <1>4

\* A set of such timestamps has an oldest one.
LEMMA OldestOfStream ==
  ASSUME StreamOrdered, NEW S, S \subseteq StreamTs, S # {}
  PROVE  \E t \in S : \A u \in S : ~IsNewerTimestamp(t, u)
<1>1. PICK base \in Timestamps :
             \A p \in Stream : Distance(p.ts, base, TsHalf) < TsHalf
  BY DEF StreamOrdered
<1> DEFINE d(x) == Distance(x, base, TsHalf)
           T    == {d(x) : x \in S}
<1>2. \A x \in S : x \in Timestamps /\ d(x) < TsHalf
  BY <1>1, StreamAssumption DEF StreamTs, PacketType
<1>3. ASSUME NEW x \in Timestamps
      PROVE  d(x) \in Nat
  BY HalfAssumption DEF Timestamps, Distance
<1>4. ASSUME NEW x \in Timestamps, NEW y \in Timestamps, d(x) < TsHalf, d(y) < TsHalf
      PROVE  IsNewerTimestamp(x, y) <=> d(x) > d(y)
  BY <1>4, HalfAssumption DEF Timestamps, Distance, IsNewerTimestamp, IsNewer
<1> HIDE DEF d
<1>5. T \in SUBSET Nat /\ T # {}
  BY <1>2, <1>3
<1>6. PICK m \in T : \A k \in T : m <= k
  BY <1>5, LeastNumber
<1>7. PICK t \in S : m = d(t)
  BY <1>6
<1>8. ASSUME NEW u \in S
      PROVE  ~IsNewerTimestamp(t, u)
  <2>1. d(t) <= d(u)
    BY <1>6, <1>7
  <2>2. d(t) \in Nat /\ d(u) \in Nat
    BY <1>2, <1>3
  <2>3. IsNewerTimestamp(t, u) <=> d(t) > d(u)
    BY <1>2, <1>4
  <2> QED
    BY <2>1, <2>2, <2>3
<1> QED
  BY <1>8

\* What a sequence number and a timestamp are of: a packet of the stream.
OfStream(ts, seq) == \E p \in Stream : p.ts = ts /\ p.seq = seq

\* Between a packet and the next in sequence there is no frame.
LEMMA NothingBetween ==
  ASSUME StreamOrdered, NEW a, NEW s, OfStream(a, s), NEW b \in StreamTs,
         NEW c, OfStream(c, NextSeq(s)),
         IsNewerTimestamp(b, a)
  PROVE  ~IsNewerTimestamp(c, b)
<1> SUFFICES ASSUME IsNewerTimestamp(c, b)
             PROVE  FALSE
  OBVIOUS
<1>1. PICK base \in SeqNums :
             \A p \in Stream : Distance(p.seq, base, SeqHalf) < SeqHalf
  BY DEF StreamOrdered, StreamInHalf
<1>2. PICK p \in Stream : p.ts = a /\ p.seq = s
  BY DEF OfStream
<1>3. PICK q \in Stream : q.ts = b
  BY DEF StreamTs
<1>4. PICK r \in Stream : r.ts = c /\ r.seq = NextSeq(s)
  BY DEF OfStream
<1>5. IsNewerSequenceNumber(q.seq, s) /\ IsNewerSequenceNumber(r.seq, q.seq)
  BY <1>2, <1>3, <1>4 DEF StreamOrdered
<1>6. /\ s \in SeqNums /\ q.seq \in SeqNums /\ r.seq \in SeqNums
      /\ InHalf(s, base) /\ InHalf(q.seq, base) /\ InHalf(r.seq, base)
  BY <1>1, <1>2, <1>3, <1>4, StreamAssumption DEF PacketType, InHalf, Pos
<1>7. /\ Pos(s, base) \in Nat /\ Pos(q.seq, base) \in Nat /\ Pos(r.seq, base) \in Nat
      /\ Pos(q.seq, base) > Pos(s, base)
      /\ Pos(r.seq, base) > Pos(q.seq, base)
  BY <1>5, <1>6, HalfOrder
<1>8. Pos(NextSeq(s), base) <= Pos(s, base) + 1
  BY <1>6, HalfAssumption DEF Pos, Distance, NextSeq, SeqNums, InHalf
<1> QED
  BY <1>4, <1>7, <1>8

-----------------------------------------------------------------------------
(* Where what the jitter buffer knows comes from.                          *)
\* A frame knows only of packets of the stream with its own timestamp, and is
\* empty only as long as none of them carries media.
FromStream(f) ==
  /\ \A s \in SeqsOf(f) : OfStream(f.ts, s)
  /\ f.emptyLow # NoSeq => OfStream(f.ts, f.emptyLow)
  /\ f.state = "kStateEmpty" => f.packets = << >> /\ f.type # "key"

\* So does the last decoded state, whose frame is in no list any more, and the
\* decodable frames have received media.
Traced(buf) ==
  /\ \A f \in Lists(buf) : FromStream(f)
  /\ ~buf.last.initial => /\ OfStream(buf.last.ts, buf.last.seq)
                          /\ ~Has(buf, buf.last.ts)
  /\ \A t \in DOMAIN buf.decodable : buf.decodable[t].state # "kStateEmpty"

\* None of these frames has been overtaken by the last decoded one.
Ahead(buf, S) ==
  ~buf.last.initial => \A t \in S : IsNewerTimestamp(t, buf.last.ts)

\* From a to b no frame is overtaken, and no frame is added that is old.
Follows(a, b) ==
  ~b.last.initial =>
    /\ ~a.last.initial
    /\ \A t : Has(b, t) =>
         \/ Has(a, t) /\ ~IsNewerTimestamp(t, a.last.ts)
         \/ IsNewerTimestamp(t, b.last.ts)
    /\ \A t \in DOMAIN b.decodable :
         t \in DOMAIN a.decodable \/ IsNewerTimestamp(t, b.last.ts)

\* A frame with a packet, traced to the stream, has timestamp and sequence
\* numbers of the stream.
LEMMA FromStreamIs ==
  ASSUME NEW f \in Frame, HasPacket(f), FromStream(f)
  PROVE  /\ f.ts \in StreamTs
         /\ OfStream(f.ts, HighSeq(f))
         /\ f.state = "kStateEmpty" => OfStream(f.ts, LowSeq(f))
<1>1. OfStream(f.ts, HighSeq(f))
  BY HighSeqIsKnown DEF FromStream
<1>2. f.ts \in StreamTs
  BY <1>1 DEF OfStream, StreamTs
<1>3. f.state = "kStateEmpty" => OfStream(f.ts, LowSeq(f))
  BY DEF FromStream, LowSeq, HasPacket
<1> QED
  BY <1>1, <1>2, <1>3

\* The frames of the lists are under their timestamps.
LEMMA ListsHave ==
  ASSUME NEW buf, IsJitterBuffer(buf), Traced(buf), NEW t, Has(buf, t)
  PROVE  /\ FrameAt(buf, t) \in Frame /\ HasPacket(FrameAt(buf, t))
         /\ FrameAt(buf, t).ts = t /\ FrameAt(buf, t) \in Lists(buf)
         /\ FromStream(FrameAt(buf, t))
         /\ t \in StreamTs
<1>1. /\ FrameAt(buf, t) \in Frame /\ HasPacket(FrameAt(buf, t))
      /\ FrameAt(buf, t).ts = t /\ FrameAt(buf, t) \in Lists(buf)
  BY DEF Has, FrameAt, IsJitterBuffer, IsFrameList, Lists
<1>2. FromStream(FrameAt(buf, t))
  BY <1>1 DEF Traced
<1> QED
  BY <1>1, <1>2, FromStreamIs

\* Dropping frames overtakes none.
LEMMA DropsFollows ==
  ASSUME NEW a, Traced(a), NEW b, Drops(a, b), StreamOrdered, IsJitterBuffer(a)
  PROVE  Traced(b) /\ Follows(a, b)
<1>1. Lists(b) \subseteq Lists(a)
  BY PartsInLists DEF Drops
<1>2. \A t : Has(b, t) => Has(a, t)
  BY DEF Has, Drops, PartOf
<1>3. \A t \in DOMAIN b.decodable : t \in DOMAIN a.decodable
                                      /\ b.decodable[t] = a.decodable[t]
  BY DEF Drops, PartOf
<1>4. Traced(b)
  BY <1>1, <1>2, <1>3 DEF Traced, Drops
<1>5. Follows(a, b)
  BY <1>2, <1>3 DEF Follows, Drops
<1> QED
  BY <1>4, <1>5

\* Two calls one after the other.
LEMMA FollowsTrans ==
  ASSUME NEW a, NEW b, NEW c, Follows(a, b), Follows(b, c)
  PROVE  Follows(a, c)
<1> SUFFICES ASSUME ~c.last.initial
             PROVE  /\ ~a.last.initial
                    /\ \A t : Has(c, t) =>
                         \/ Has(a, t) /\ ~IsNewerTimestamp(t, a.last.ts)
                         \/ IsNewerTimestamp(t, c.last.ts)
                    /\ \A t \in DOMAIN c.decodable :
                         \/ t \in DOMAIN a.decodable
                         \/ IsNewerTimestamp(t, c.last.ts)
  BY DEF Follows
<1>1. /\ ~b.last.initial
      /\ \A t : Has(c, t) =>
           \/ Has(b, t) /\ ~IsNewerTimestamp(t, b.last.ts)
           \/ IsNewerTimestamp(t, c.last.ts)
      /\ \A t \in DOMAIN c.decodable :
           t \in DOMAIN b.decodable \/ IsNewerTimestamp(t, c.last.ts)
  BY DEF Follows
<1>2. /\ ~a.last.initial
      /\ \A t : Has(b, t) =>
           \/ Has(a, t) /\ ~IsNewerTimestamp(t, a.last.ts)
           \/ IsNewerTimestamp(t, b.last.ts)
      /\ \A t \in DOMAIN b.decodable :
           t \in DOMAIN a.decodable \/ IsNewerTimestamp(t, b.last.ts)
  BY <1>1 DEF Follows
<1>3. \A t \in DOMAIN c.decodable : Has(c, t)
  BY DEF Has
<1> QED
  BY <1>1, <1>2, <1>3, Zenon

\* The newest of a set of timestamps of the stream.
LEMMA NewestOfStream ==
  ASSUME StreamOrdered, NEW S, S \subseteq StreamTs, S # {}
  PROVE  NewestTs(S) \in S /\ \A u \in S : ~IsNewerTimestamp(u, NewestTs(S))
<1>1. PICK base \in Timestamps :
             \A p \in Stream : Distance(p.ts, base, TsHalf) < TsHalf
  BY DEF StreamOrdered
<1> DEFINE d(x) == Distance(x, base, TsHalf)
           T    == {TsHalf - d(x) : x \in S}
<1>2. \A x \in S : x \in Timestamps /\ d(x) < TsHalf
  BY <1>1, StreamAssumption DEF StreamTs, PacketType
<1>3. ASSUME NEW x \in Timestamps
      PROVE  d(x) \in Nat
  BY HalfAssumption DEF Timestamps, Distance
<1>4. ASSUME NEW x \in Timestamps, NEW y \in Timestamps, d(x) < TsHalf, d(y) < TsHalf
      PROVE  IsNewerTimestamp(x, y) <=> d(x) > d(y)
  BY <1>4, HalfAssumption DEF Timestamps, Distance, IsNewerTimestamp, IsNewer
<1> HIDE DEF d
<1>5. T \in SUBSET Nat /\ T # {}
  BY <1>2, <1>3, HalfAssumption
<1>6. PICK m \in T : \A k \in T : m <= k
  BY <1>5, LeastNumber
<1>7. PICK t \in S : m = TsHalf - d(t)
  BY <1>6
<1>8. ASSUME NEW u \in S
      PROVE  ~IsNewerTimestamp(u, t)
  <2>1. TsHalf - d(t) <= TsHalf - d(u)
    BY <1>6, <1>7
  <2>2. d(t) \in Nat /\ d(u) \in Nat /\ TsHalf \in Nat
    BY <1>2, <1>3, HalfAssumption
  <2>3. IsNewerTimestamp(u, t) <=> d(u) > d(t)
    BY <1>2, <1>4
  <2> QED
    BY <2>1, <2>2, <2>3
<1>9. NewestTs(S) \in {x \in S : \A u \in S : ~IsNewerTimestamp(u, x)}
  <2> DEFINE last == {x \in S : \A u \in S : ~IsNewerTimestamp(u, x)}
  <2>1. t \in last
    BY <1>8
  <2> HIDE DEF last
  <2>2. (CHOOSE x \in S : last # {} => x \in last) \in last
    <3>1. \E x \in S : last # {} => x \in last
      BY <2>1
    <3> QED
      BY <2>1, <3>1
  <2> QED
    BY <2>2 DEF NewestTs, last
<1> QED
  BY <1>9

\* An empty frame that is dropped comes right after the last decoded state.
LEMMA DroppedEmptyIsNext ==
  ASSUME NEW ds, ~ds.initial, NEW f, f.packets = << >>, f.type # "key",
         CanDropEmpty(ds, f)
  PROVE  LowSeq(f) = NextSeq(ds.seq)
BY DEF CanDropEmpty, OnePacket, ContinuousSeqNum, ContinuousFrame, ContinuousLayer,
       TemporalId, ContinuousPicture, UsingPictureId, PictureId

\* The last decoded state moved to an empty frame.
LEMMA AfterEmptyAt ==
  ASSUME NEW ds \in DecodingStates, ~ds.initial, NEW f
  PROVE  /\ AfterEmpty(ds, f).seq = HighSeq(f)
         /\ AfterEmpty(ds, f).ts = f.ts
         /\ ~AfterEmpty(ds, f).initial
BY DEF AfterEmpty, DecodingStates

\* A list whose frames are traced to the stream, and a last decoded state that is.
TracedList(list) ==
  IsFrameList(list) /\ \A t \in DOMAIN list : FromStream(list[t])

TracedState(ds) ==
  ds \in DecodingStates /\ (~ds.initial => OfStream(ds.ts, ds.seq))

\* The frames of such a list have timestamps and sequence numbers of the stream.
LEMMA TracedListTs ==
  ASSUME NEW list, TracedList(list), NEW t \in DOMAIN list
  PROVE  /\ t \in StreamTs /\ list[t].ts = t
         /\ OfStream(t, HighSeq(list[t]))
         /\ list[t].state = "kStateEmpty" =>
              /\ OfStream(t, LowSeq(list[t]))
              /\ list[t].packets = << >> /\ list[t].type # "key"
<1>1. list[t] \in Frame /\ HasPacket(list[t]) /\ FromStream(list[t]) /\ list[t].ts = t
  BY DEF TracedList, IsFrameList
<1>2. list[t].state = "kStateEmpty" => list[t].packets = << >> /\ list[t].type # "key"
  BY <1>1 DEF FromStream
<1> QED
  BY <1>1, <1>2, FromStreamIs

\* Dropping empty frames does not overtake a frame that stays.
LEMMA CleanUpKeepsOrder ==
  ASSUME StreamOrdered, NEW list, TracedList(list),
         NEW last, TracedState(last), ~last.initial,
         NEW t \in StreamTs, t \notin CleanedUp(list, last),
         IsNewerTimestamp(t, last.ts)
  PROVE  IsNewerTimestamp(t, LastAfterCleanUp(list, last).ts)
<1> DEFINE C == CleanedUp(list, last)
           E == {e \in C : list[e].state = "kStateEmpty" /\ e # NewestTs(DOMAIN list)}
           n == NewestTs(E)
<1>1. LastAfterCleanUp(list, last) = OverEmpty(list, last, E)
  BY DEF LastAfterCleanUp
<1>2. C \subseteq DOMAIN list /\ E \subseteq C
  BY DEF CleanedUp
<1>3. \A e \in DOMAIN list : e \in StreamTs
  BY TracedListTs
<1>4. CASE E = {}
  BY <1>1, <1>4 DEF OverEmpty
<1>5. CASE E # {}
  <2>1. n \in E
    BY <1>5, OldestNewest
  <2>2. LastAfterCleanUp(list, last).ts = n
    <3>1. LastAfterCleanUp(list, last) = AfterEmpty(last, list[n])
      BY <1>1, <1>5 DEF OverEmpty
    <3> QED
      BY <3>1, <2>1, <1>2, AfterEmptyAt, TracedListTs DEF TracedState
  <2> SUFFICES ASSUME ~IsNewerTimestamp(t, n)
               PROVE  FALSE
    BY <2>2
  <2>3. IsNewerTimestamp(n, t)
    BY <2>1, <1>2, <1>3, TsOrder
  <2> DEFINE S == {e \in E : IsNewerTimestamp(e, t)}
  <2>4. S # {} /\ S \subseteq StreamTs
    BY <2>1, <2>3, <1>2, <1>3
  <2> HIDE DEF n
  <2>5. PICK e \in S : \A u \in S : ~IsNewerTimestamp(e, u)
    BY <2>4, OldestOfStream
  <2>6. /\ e \in DOMAIN list /\ e \in StreamTs /\ e \in C /\ IsNewerTimestamp(e, t)
        /\ list[e].state = "kStateEmpty" /\ e # NewestTs(DOMAIN list)
    BY <2>5, <1>2, <1>3
  <2> DEFINE B  == EmptyBefore(list, e)
             ds == OverEmpty(list, last, B)
             m  == NewestTs(B)
  <2>7. CanDropEmpty(ds, list[e])
    <3>1. IsNewerTimestamp(e, e) \/ Leaves(list, last, e)
      BY <2>6 DEF CleanedUp
    <3>2. ~IsNewerTimestamp(e, e)
      BY <2>6, TsOrder
    <3> QED
      BY <3>1, <3>2, <2>6 DEF Leaves
  <2>8. B \subseteq DOMAIN list
    BY DEF EmptyBefore
  <2>9. PICK a, s : /\ OfStream(a, s) /\ IsNewerTimestamp(t, a)
                    /\ s = ds.seq /\ ~ds.initial
    <3>1. CASE B = {}
      <4>1. ds = last
        BY <3>1 DEF OverEmpty
      <4> QED
        BY <4>1 DEF TracedState
    <3>2. CASE B # {}
      <4>1. m \in B
        BY <3>2, OldestNewest
      <4>2. m \in DOMAIN list /\ m \in StreamTs /\ IsNewerTimestamp(e, m)
              /\ list[m].state = "kStateEmpty"
        BY <4>1, <1>3 DEF EmptyBefore
      <4> HIDE DEF m
      <4>3. m \in C
        <5> SUFFICES ASSUME NEW u \in DOMAIN list
                     PROVE  IsNewerTimestamp(u, m) \/ Leaves(list, last, u)
          BY <4>2 DEF CleanedUp
        <5>1. IsNewerTimestamp(u, e) \/ Leaves(list, last, u)
          BY <2>6 DEF CleanedUp
        <5>2. IsNewerTimestamp(u, e) => IsNewerTimestamp(u, m)
          BY <4>2, <2>6, <1>3, TsOrder
        <5> QED
          BY <5>1, <5>2
      <4>4. m # NewestTs(DOMAIN list)
        <5>1. DOMAIN list \subseteq StreamTs /\ DOMAIN list # {}
          BY <1>3, <2>6
        <5>2. \A u \in DOMAIN list : ~IsNewerTimestamp(u, NewestTs(DOMAIN list))
          BY <5>1, NewestOfStream
        <5> QED
          BY <5>2, <4>2, <2>6
      <4>5. m \in E
        BY <4>2, <4>3, <4>4
      <4>6. ~IsNewerTimestamp(m, t)
        BY <4>5, <4>2, <2>5
      <4>7. m # t
        BY <4>3
      <4>8. IsNewerTimestamp(t, m)
        BY <4>6, <4>7, <4>2, TsOrder
      <4>9. ds = AfterEmpty(last, list[m])
        BY <3>2 DEF OverEmpty, m
      <4>10. ds.seq = HighSeq(list[m]) /\ ~ds.initial
        BY <4>9, AfterEmptyAt DEF TracedState
      <4>11. OfStream(m, HighSeq(list[m]))
        BY <4>2, TracedListTs
      <4> QED
        BY <4>8, <4>10, <4>11
    <3> QED
      BY <3>1, <3>2
  <2> HIDE DEF ds
  <2>10. LowSeq(list[e]) = NextSeq(s) /\ OfStream(e, LowSeq(list[e]))
    BY <2>6, <2>7, <2>9, TracedListTs, DroppedEmptyIsNext
  <2>11. OfStream(e, NextSeq(s))
    BY <2>10
  <2> QED
    BY <2>11, <2>9, <2>6, NothingBetween
<1> QED
  BY <1>4, <1>5

\* What is then remembered is one of the frames that left, or what was before.
LEMMA CleanUpRemembers ==
  ASSUME NEW list, TracedList(list), NEW last, TracedState(last)
  PROVE  LET after == LastAfterCleanUp(list, last)
         IN  /\ TracedState(after)
             /\ after.initial = last.initial
             /\ after = last \/ after.ts \in CleanedUp(list, last)
<1> DEFINE C == CleanedUp(list, last)
           E == {e \in C : list[e].state = "kStateEmpty" /\ e # NewestTs(DOMAIN list)}
           n == NewestTs(E)
           after == LastAfterCleanUp(list, last)
<1>1. after = OverEmpty(list, last, E)
  BY DEF LastAfterCleanUp
<1>2. C \subseteq DOMAIN list /\ E \subseteq C
  BY DEF CleanedUp
<1>3. after \in DecodingStates
  BY LastAfterCleanUpType DEF TracedList, TracedState
<1>4. CASE E = {} \/ last.initial
  <2>1. after = last
    BY <1>1, <1>4 DEF OverEmpty
  <2> QED
    BY <2>1
<1>5. CASE E # {} /\ ~last.initial
  <2>1. n \in E
    BY <1>5, OldestNewest
  <2>2. after = AfterEmpty(last, list[n])
    BY <1>1, <1>5 DEF OverEmpty
  <2> HIDE DEF n, after
  <2>3. n \in DOMAIN list /\ n \in C
    BY <2>1, <1>2
  <2> HIDE DEF E, C
  <2>4. list[n].ts = n /\ OfStream(n, HighSeq(list[n]))
    BY <2>3, TracedListTs
  <2>5. after.seq = HighSeq(list[n]) /\ after.ts = n /\ ~after.initial
    BY <2>2, <2>4, <1>5, AfterEmptyAt DEF TracedState
  <2>6. TracedState(after)
    BY <2>4, <2>5, <1>3 DEF TracedState, after
  <2>7. last.initial \in BOOLEAN /\ after.initial \in BOOLEAN
    BY <1>3 DEF TracedState, DecodingStates, after
  <2> QED
    BY <2>3, <2>5, <2>6, <2>7, <1>5 DEF C, after
<1> QED
  BY <1>4, <1>5

\* Of a list without empty frames the old frames leave, and no trace.
LEMMA CleanUpWithoutEmpties ==
  ASSUME StreamOrdered, NEW list, TracedList(list), NEW last, TracedState(last),
         \A t \in DOMAIN list : list[t].state # "kStateEmpty"
  PROVE  /\ LastAfterCleanUp(list, last) = last
         /\ ~last.initial => \A t \in DOMAIN list \ CleanedUp(list, last) :
                               IsNewerTimestamp(t, last.ts)
<1> DEFINE C == CleanedUp(list, last)
           E == {e \in C : list[e].state = "kStateEmpty" /\ e # NewestTs(DOMAIN list)}
<1>1. LastAfterCleanUp(list, last) = OverEmpty(list, last, E)
  BY DEF LastAfterCleanUp
<1>2. E = {}
  BY DEF CleanedUp
<1>3. LastAfterCleanUp(list, last) = last
  BY <1>1, <1>2 DEF OverEmpty
<1>4. ASSUME ~last.initial, NEW t \in DOMAIN list, t \notin C
      PROVE  IsNewerTimestamp(t, last.ts)
  <2>1. PICK u \in DOMAIN list : ~IsNewerTimestamp(u, t) /\ ~Leaves(list, last, u)
    BY <1>4 DEF CleanedUp
  <2>2. EmptyBefore(list, u) = {}
    BY DEF EmptyBefore
  <2>3. OverEmpty(list, last, EmptyBefore(list, u)) = last
    BY <2>2 DEF OverEmpty
  <2>4. ~IsOld(last, u)
    BY <2>1, <2>3 DEF Leaves
  <2>5. IsNewerTimestamp(u, last.ts)
    BY <2>4, <1>4 DEF IsOld
  <2>6. t \in StreamTs /\ u \in StreamTs /\ last.ts \in StreamTs
    BY <1>4, TracedListTs DEF TracedState, OfStream, StreamTs
  <2> QED
    BY <2>1, <2>5, <2>6, TsOrder
<1> QED
  BY <1>3, <1>4

\* The parts of a traced jitter buffer are traced.
LEMMA TracedParts ==
  ASSUME NEW buf, IsJitterBuffer(buf), Traced(buf)
  PROVE  /\ TracedList(buf.decodable) /\ TracedList(buf.incomplete)
         /\ TracedState(buf.last)
BY DEF Traced, TracedList, TracedState, IsJitterBuffer, Lists

\* CleanUpOldOrEmptyFrames leaves only decodable frames that are ahead.
LEMMA CleanUpOrder ==
  ASSUME StreamOrdered, NEW buf, IsJitterBuffer(buf), Traced(buf)
  PROVE  LET b == CleanUpOldOrEmptyFrames(buf)
         IN  Traced(b) /\ Follows(buf, b) /\ Ahead(b, DOMAIN b.decodable)
<1> DEFINE mid  == LastAfterCleanUp(buf.decodable, buf.last)
           last == LastAfterCleanUp(buf.incomplete, mid)
           goneDec == CleanedUp(buf.decodable, buf.last)
           goneInc == CleanedUp(buf.incomplete, mid)
           dcd  == Without(buf.decodable, goneDec)
           inc  == Without(buf.incomplete, goneInc)
           free == buf.free + Cardinality(DOMAIN buf.decodable)
                           - Cardinality(DOMAIN dcd)
                           + Cardinality(DOMAIN buf.incomplete)
                           - Cardinality(DOMAIN inc)
           missing == IF last.initial
                        THEN buf.missing
                        ELSE DropPacketsFromNackList(buf.missing, last.seq)
           b == [buf EXCEPT !.decodable = dcd, !.incomplete = inc,
                           !.free = free, !.last = last, !.missing = missing]
<1>1. CleanUpOldOrEmptyFrames(buf) = b
  BY DEF CleanUpOldOrEmptyFrames
<1>2. PartOf(dcd, buf.decodable) /\ PartOf(inc, buf.incomplete)
  BY KeepIsPartOf
<1>3. /\ DOMAIN dcd = DOMAIN buf.decodable \ goneDec
      /\ DOMAIN inc = DOMAIN buf.incomplete \ goneInc
  BY WithoutType DEF IsJitterBuffer
<1>4. /\ TracedList(buf.decodable) /\ TracedList(buf.incomplete)
      /\ TracedState(buf.last)
  BY TracedParts
<1>5. /\ mid = buf.last
      /\ ~buf.last.initial =>
           \A t \in DOMAIN buf.decodable \ goneDec : IsNewerTimestamp(t, buf.last.ts)
  BY <1>4, CleanUpWithoutEmpties DEF Traced
<1>6. /\ TracedState(last) /\ last.initial = buf.last.initial
      /\ last = buf.last \/ last.ts \in goneInc
  BY <1>4, <1>5, CleanUpRemembers
<1>7. ASSUME ~buf.last.initial, NEW t \in StreamTs, t \notin goneInc,
             IsNewerTimestamp(t, buf.last.ts)
      PROVE  IsNewerTimestamp(t, last.ts)
  BY <1>4, <1>5, <1>7, CleanUpKeepsOrder
<1>8. goneInc \subseteq DOMAIN buf.incomplete
  BY DEF CleanedUp
<1> HIDE DEF mid, last, dcd, inc, missing, free, goneDec, goneInc
<1>9. b.last = last /\ b.decodable = dcd /\ b.incomplete = inc
  BY DEF IsJitterBuffer, Fields
<1> HIDE DEF b
<1>10. Lists(b) \subseteq Lists(buf)
  BY <1>2, <1>9, PartsInLists
<1>11. DOMAIN buf.decodable \cap DOMAIN buf.incomplete = {}
  BY DEF IsJitterBuffer
<1>12. \A t : Has(b, t) => Has(buf, t) /\ t \notin goneInc
  BY <1>3, <1>8, <1>9, <1>11 DEF Has
<1>13. Traced(b)
  <2>1. \A f \in Lists(b) : FromStream(f)
    BY <1>10 DEF Traced
  <2>2. \A t \in DOMAIN b.decodable : b.decodable[t].state # "kStateEmpty"
    BY <1>2, <1>9 DEF Traced, PartOf
  <2>3. ~b.last.initial => OfStream(b.last.ts, b.last.seq)
    BY <1>6, <1>9 DEF TracedState
  <2>4. ~b.last.initial => ~Has(b, b.last.ts)
    BY <1>6, <1>9, <1>12 DEF Traced
  <2> QED
    BY <2>1, <2>2, <2>3, <2>4 DEF Traced
<1>14. Follows(buf, b)
  <2> SUFFICES ASSUME ~b.last.initial
               PROVE  /\ ~buf.last.initial
                      /\ \A t : Has(b, t) =>
                           \/ Has(buf, t) /\ ~IsNewerTimestamp(t, buf.last.ts)
                           \/ IsNewerTimestamp(t, b.last.ts)
                      /\ \A t \in DOMAIN b.decodable : t \in DOMAIN buf.decodable
    BY DEF Follows
  <2>1. ~buf.last.initial
    BY <1>6, <1>9
  <2>2. ASSUME NEW t, Has(b, t), IsNewerTimestamp(t, buf.last.ts)
        PROVE  IsNewerTimestamp(t, b.last.ts)
    <3>1. t \in StreamTs /\ t \notin goneInc
      BY <2>2, <1>12, ListsHave
    <3> QED
      BY <3>1, <2>1, <2>2, <1>7, <1>9
  <2> QED
    BY <2>1, <2>2, <1>12, <1>3, <1>9
<1>15. Ahead(b, DOMAIN b.decodable)
  <2> SUFFICES ASSUME ~b.last.initial, NEW t \in DOMAIN b.decodable
               PROVE  IsNewerTimestamp(t, b.last.ts)
    BY DEF Ahead
  <2>1. ~buf.last.initial
    BY <1>6, <1>9
  <2>2. t \in DOMAIN buf.decodable \ goneDec
    BY <1>3, <1>9
  <2>3. IsNewerTimestamp(t, buf.last.ts)
    BY <2>1, <2>2, <1>5
  <2>4. t \in StreamTs /\ t \notin goneInc
    BY <2>2, <1>8, <1>11, <1>4, TracedListTs
  <2> QED
    BY <2>1, <2>3, <2>4, <1>7, <1>9
<1> QED
  BY <1>1, <1>13, <1>14, <1>15

\* FindAndInsertContinuousFrames moves frames that have media and are not
\* older than the given state.
LEMMA ScanMoves ==
  ASSUME NEW buf, buf.error_mode # "kWithErrors", NEW ds,
         NEW t \in ContinuousScan(buf, ds)
  PROVE  /\ t \in DOMAIN buf.incomplete
         /\ ~IsNewerTimestamp(ds.ts, t)
         /\ buf.incomplete[t].state \in {"kStateComplete", "kStateDecodable"}
BY DEF ContinuousScan, IsContinuousInState

\* So no frame that is old becomes decodable.
LEMMA FindAndInsertOrder ==
  ASSUME StreamOrdered, NEW buf, IsJitterBuffer(buf), Traced(buf),
         buf.error_mode # "kWithErrors",
         NEW ds, ~buf.last.initial =>
                   \/ ds.ts = buf.last.ts
                   \/ ds.ts \in StreamTs /\ IsNewerTimestamp(ds.ts, buf.last.ts)
  PROVE  LET b == FindAndInsertContinuousFramesWithState(buf, ds)
         IN  Traced(b) /\ Follows(buf, b)
<1> DEFINE moved == ContinuousScan(buf, ds)
           inc   == Without(buf.incomplete, moved)
           dcd   == [t \in DOMAIN buf.decodable \cup moved |->
                       IF t \in DOMAIN buf.decodable
                         THEN buf.decodable[t] ELSE buf.incomplete[t]]
           b     == FindAndInsertContinuousFramesWithState(buf, ds)
<1>1. b = [buf EXCEPT !.incomplete = inc, !.decodable = dcd]
  BY DEF FindAndInsertContinuousFramesWithState
<1>2. \A t \in moved : /\ t \in DOMAIN buf.incomplete
                       /\ ~IsNewerTimestamp(ds.ts, t)
                       /\ buf.incomplete[t].state # "kStateEmpty"
  BY ScanMoves
<1> HIDE DEF moved
<1>3. DOMAIN inc \subseteq DOMAIN buf.incomplete
  BY DEF Without, Keep
<1>4. \A t \in DOMAIN dcd : dcd[t].state # "kStateEmpty"
  BY <1>2 DEF Traced
<1>5. DOMAIN dcd = DOMAIN buf.decodable \cup moved
  OBVIOUS
<1> HIDE DEF inc, dcd, b
<1>6. b.last = buf.last /\ b.decodable = dcd /\ b.incomplete = inc
  BY <1>1 DEF IsJitterBuffer, Fields
<1>7. Lists(b) \subseteq Lists(buf)
  BY FindAndInsertSheds DEF Sheds, b
<1>8. \A t : Has(b, t) => Has(buf, t)
  BY <1>2, <1>3, <1>5, <1>6 DEF Has
<1>9. Traced(b)
  BY <1>4, <1>6, <1>7, <1>8 DEF Traced
<1>10. Follows(buf, b)
  <2> SUFFICES ASSUME ~buf.last.initial, NEW t \in moved
               PROVE  IsNewerTimestamp(t, buf.last.ts)
    BY <1>5, <1>6, <1>8 DEF Follows
  <2>1. Has(buf, t)
    BY <1>2 DEF Has
  <2>2. t \in StreamTs /\ buf.last.ts \in StreamTs /\ t # buf.last.ts
    BY <2>1, ListsHave DEF Traced, OfStream, StreamTs
  <2>3. ~IsNewerTimestamp(ds.ts, t)
    BY <1>2
  <2>4. CASE ds.ts = buf.last.ts
    BY <2>2, <2>3, <2>4, TsOrder
  <2>5. CASE ds.ts \in StreamTs /\ IsNewerTimestamp(ds.ts, buf.last.ts)
    BY <2>2, <2>3, <2>5, TsOrder
  <2> QED
    BY <2>4, <2>5
<1> QED
  BY <1>9, <1>10 DEF b

\* A frame becomes decodable on arrival only with media in it.
LEMMA ContinuousHasMedia ==
  ASSUME NEW buf, buf.error_mode # "kWithErrors", NEW f, IsContinuous(buf, f)
  PROVE  f.state # "kStateEmpty"
BY DEF IsContinuous, IsContinuousInState

\* In the initial state an empty frame leaves no trace.
LEMMA DroppedInitially ==
  ASSUME NEW ds, ds.initial, NEW f, f.type # "key", CanDropEmpty(ds, f)
  PROVE  AfterEmpty(ds, f) = ds
BY DEF CanDropEmpty, AfterEmpty, ContinuousFrame

\* A frame that is new to both lists and not old goes into one of them.
LEMMA AddedInOrder ==
  ASSUME NEW buf, IsJitterBuffer(buf), Traced(buf),
         NEW f \in Frame, FromStream(f), ~Has(buf, f.ts),
         ~buf.last.initial =>
           f.ts # buf.last.ts /\ IsNewerTimestamp(f.ts, buf.last.ts),
         NEW b, b.last = buf.last,
         \/ /\ b.incomplete = InsertFrame(buf.incomplete, f)
            /\ b.decodable = buf.decodable
         \/ /\ b.decodable = InsertFrame(buf.decodable, f)
            /\ b.incomplete = buf.incomplete
            /\ f.state # "kStateEmpty"
  PROVE  Traced(b) /\ Follows(buf, b)
<1> DEFINE inc == InsertFrame(buf.incomplete, f)
           dcd == InsertFrame(buf.decodable, f)
<1>1. /\ DOMAIN inc = DOMAIN buf.incomplete \cup {f.ts}
      /\ DOMAIN dcd = DOMAIN buf.decodable \cup {f.ts}
  BY DEF InsertFrame
<1>2. /\ \A t \in DOMAIN inc :
           \/ inc[t] = f
           \/ t \in DOMAIN buf.incomplete /\ inc[t] = buf.incomplete[t]
      /\ \A t \in DOMAIN dcd :
           \/ dcd[t] = f
           \/ t \in DOMAIN buf.decodable /\ dcd[t] = buf.decodable[t]
  BY InsertFrameIn
<1> HIDE DEF inc, dcd
<1>3. \/ b.incomplete = inc /\ b.decodable = buf.decodable
      \/ b.decodable = dcd /\ b.incomplete = buf.incomplete /\ f.state # "kStateEmpty"
  BY DEF inc, dcd
<1>4. Lists(b) \subseteq Lists(buf) \cup {f}
  <2>1. CASE b.incomplete = inc /\ b.decodable = buf.decodable
    BY <2>1, <1>2 DEF Lists
  <2>2. CASE b.decodable = dcd /\ b.incomplete = buf.incomplete
    BY <2>2, <1>2 DEF Lists
  <2> QED
    BY <1>3, <2>1, <2>2
<1>5. \A t : Has(b, t) => Has(buf, t) \/ t = f.ts
  BY <1>1, <1>3 DEF Has
<1>6. \A t \in DOMAIN b.decodable : t \in DOMAIN buf.decodable \/ t = f.ts
  BY <1>1, <1>3
<1>7. \A t \in DOMAIN b.decodable : b.decodable[t].state # "kStateEmpty"
  BY <1>2, <1>3 DEF Traced
<1>8. Traced(b)
  <2>1. \A h \in Lists(b) : FromStream(h)
    BY <1>4 DEF Traced
  <2>2. ~b.last.initial => OfStream(b.last.ts, b.last.seq) /\ ~Has(b, b.last.ts)
    BY <1>5 DEF Traced
  <2> QED
    BY <1>7, <2>1, <2>2 DEF Traced
<1>9. Follows(buf, b)
  BY <1>5, <1>6 DEF Follows
<1> QED
  BY <1>8, <1>9

\* The switch at the end of InsertPacket.
LEMMA PlaceFrameOrder ==
  ASSUME StreamOrdered, NEW buf, IsJitterBuffer(buf), Traced(buf),
         buf.error_mode # "kWithErrors",
         NEW f \in Frame, HasPacket(f), FromStream(f), ~Has(buf, f.ts),
         ~buf.last.initial => IsNewerTimestamp(f.ts, buf.last.ts),
         NEW ret \in Returns \cup {"kFlushIndicator"},
         NEW from \in {"incomplete", "decodable", "none"},
         from = "decodable" => f.state # "kStateEmpty"
  PROVE  LET b == PlaceFrame(buf, f, ret, from)
         IN  Traced(b) /\ Follows(buf, b)
<1> DEFINE inc    == InsertFrame(buf.incomplete, f)
           dcd    == InsertFrame(buf.decodable, f)
           toInc  == [buf EXCEPT !.incomplete = inc]
           toDec  == [buf EXCEPT !.decodable = dcd]
           toFree == [buf EXCEPT !.free = @ + 1]
           last   == AfterEmpty(buf.last, f)
           drop   == [buf EXCEPT !.last = last, !.free = @ + 1]
           moved  == FindAndInsertContinuousFrames(toDec, f)
           media  == f.state # "kStateEmpty"
<1>1. \/ PlaceFrame(buf, f, ret, from) \in {toInc, toFree}
      \/ PlaceFrame(buf, f, ret, from) \in {toDec, moved} /\ media
      \/ PlaceFrame(buf, f, ret, from) = drop /\ ~media /\ CanDropEmpty(buf.last, f)
  <2>1. \/ PutBack(buf, f, from) \in {toInc, toFree}
        \/ PutBack(buf, f, from) = toDec /\ media
    BY DEF PutBack
  <2>2. IsContinuous(buf, f) => media
    BY ContinuousHasMedia
  <2> HIDE DEF toInc, toDec, toFree, drop, moved, media
  <2>3. CASE ret \in {"kSizeError", "kFlushIndicator"}
    BY <2>3 DEF PlaceFrame, toFree
  <2>4. CASE ret \in {"kCompleteSession", "kDecodableSession"}
    BY <2>2, <2>4 DEF PlaceFrame, moved, toDec, toInc
  <2>5. CASE ret = "kIncomplete"
    BY <2>5 DEF PlaceFrame, drop, toInc, media
  <2>6. CASE ret \in {"kDuplicatePacket", "kOutOfBoundsPacket"}
    <3>1. PlaceFrame(buf, f, ret, from) = PutBack(buf, f, from)
      BY <2>6 DEF PlaceFrame
    <3> QED
      BY <2>1, <3>1
  <2> QED
    BY <2>3, <2>4, <2>5, <2>6 DEF Returns
<1>2. ~buf.last.initial => /\ f.ts # buf.last.ts /\ f.ts \in StreamTs
                           /\ buf.last.ts \in StreamTs
                           /\ IsNewerTimestamp(f.ts, buf.last.ts)
  <2>1. f.ts \in StreamTs
    BY FromStreamIs
  <2>2. ~buf.last.initial => buf.last.ts \in StreamTs
    BY DEF Traced, OfStream, StreamTs
  <2>3. ~IsNewerTimestamp(f.ts, f.ts)
    BY <2>1, TsOrder
  <2> QED
    BY <2>1, <2>2, <2>3
<1>3. Traced(toInc) /\ Follows(buf, toInc)
  <2> HIDE DEF inc
  <2>1. toInc.last = buf.last /\ toInc.decodable = buf.decodable /\ toInc.incomplete = inc
    BY DEF IsJitterBuffer, Fields
  <2> HIDE DEF toInc
  <2> QED
    BY <2>1, <1>2, AddedInOrder DEF inc
<1>4. media => Traced(toDec) /\ Follows(buf, toDec)
  <2> HIDE DEF dcd
  <2>1. toDec.last = buf.last /\ toDec.decodable = dcd /\ toDec.incomplete = buf.incomplete
    BY DEF IsJitterBuffer, Fields
  <2> HIDE DEF toDec
  <2> QED
    BY <2>1, <1>2, AddedInOrder DEF dcd
<1>5. media => Traced(moved) /\ Follows(buf, moved)
  <2> SUFFICES ASSUME media
               PROVE  Traced(moved) /\ Follows(buf, moved)
    OBVIOUS
  <2> DEFINE ds == SetState(toDec.last, f)
  <2>1. IsFrameList(dcd) /\ DOMAIN dcd = DOMAIN buf.decodable \cup {f.ts}
    BY InsertFrameType DEF IsJitterBuffer, Has
  <2> HIDE DEF dcd
  <2>2. /\ IsJitterBuffer(toDec) /\ toDec.error_mode = buf.error_mode
        /\ toDec.last = buf.last
    BY <2>1 DEF IsJitterBuffer, Fields, Has
  <2>3. ds.ts = f.ts
    BY DEF SetState
  <2>4. moved = FindAndInsertContinuousFramesWithState(toDec, ds)
    BY DEF FindAndInsertContinuousFrames
  <2> HIDE DEF toDec, ds, moved
  <2>5. Traced(moved) /\ Follows(toDec, moved)
    BY <1>2, <1>4, <2>2, <2>3, <2>4, FindAndInsertOrder
  <2> QED
    BY <1>4, <2>5, FollowsTrans
<1>6. Traced(toFree) /\ Follows(buf, toFree)
  <2>1. /\ toFree.last = buf.last /\ toFree.decodable = buf.decodable
        /\ toFree.incomplete = buf.incomplete
    BY DEF IsJitterBuffer, Fields
  <2> HIDE DEF toFree
  <2> QED
    BY <2>1, DropsSame, DropsFollows
<1>7. ~media /\ CanDropEmpty(buf.last, f) => Traced(drop) /\ Follows(buf, drop)
  <2> SUFFICES ASSUME ~media, CanDropEmpty(buf.last, f)
               PROVE  Traced(drop) /\ Follows(buf, drop)
    OBVIOUS
  <2>1. /\ f.packets = << >> /\ f.type # "key"
        /\ OfStream(f.ts, HighSeq(f)) /\ OfStream(f.ts, LowSeq(f))
    BY FromStreamIs DEF FromStream
  <2>2. buf.last \in DecodingStates
    BY DEF IsJitterBuffer
  <2> HIDE DEF last
  <2>3. /\ drop.last = last /\ drop.decodable = buf.decodable
        /\ drop.incomplete = buf.incomplete
    BY DEF IsJitterBuffer, Fields
  <2> HIDE DEF drop
  <2>4. CASE buf.last.initial
    <3>1. last = buf.last
      BY <2>1, <2>4, DroppedInitially DEF last
    <3> QED
      BY <2>3, <3>1, DropsSame, DropsFollows
  <2>5. CASE ~buf.last.initial
    <3>1. last.ts = f.ts /\ last.seq = HighSeq(f) /\ ~last.initial
      BY <2>2, <2>5, AfterEmptyAt DEF last
    <3>2. Lists(drop) = Lists(buf) /\ \A t : Has(drop, t) <=> Has(buf, t)
      BY <2>3 DEF Lists, Has
    <3>3. Traced(drop)
      BY <2>1, <2>3, <3>1, <3>2 DEF Traced
    <3>4. OfStream(f.ts, NextSeq(buf.last.seq))
      BY <2>1, <2>5, DroppedEmptyIsNext
    <3>5. OfStream(buf.last.ts, buf.last.seq)
      BY <2>5 DEF Traced
    <3>6. ASSUME NEW t, Has(buf, t), IsNewerTimestamp(t, buf.last.ts)
          PROVE  IsNewerTimestamp(t, f.ts)
      <4>1. t \in StreamTs /\ t # f.ts
        BY <3>6, ListsHave
      <4>2. ~IsNewerTimestamp(f.ts, t)
        BY <4>1, <3>4, <3>5, <3>6, NothingBetween
      <4> QED
        BY <4>1, <4>2, <1>2, <2>5, TsOrder
    <3>7. Follows(buf, drop)
      BY <2>3, <2>5, <3>1, <3>2, <3>6 DEF Follows
    <3> QED
      BY <3>3, <3>7
  <2> QED
    BY <2>4, <2>5
<1> HIDE DEF toInc, toDec, toFree, drop, moved, media
<1> QED
  BY <1>1, <1>3, <1>4, <1>5, <1>6, <1>7

\* Start, Stop and Flush forget what was decoded.
LEMMA ForgettingDrops ==
  ASSUME NEW buf, IsJitterBuffer(buf)
  PROVE  Drops(buf, Start(buf)) /\ Drops(buf, StopLocked(buf)) /\ Drops(buf, Flush(buf))
<1> DEFINE a == AllFree(buf)
<1>1. /\ a.decodable = EmptyList /\ a.incomplete = EmptyList
      /\ a.last = InitialState /\ DOMAIN a = Fields
  BY DEF AllFree, IsJitterBuffer, Fields
<1>2. /\ Flush(buf) = [a EXCEPT !.old = 0, !.fresh = TRUE, !.missing = {}]
      /\ StopLocked(buf) = [a EXCEPT !.running = FALSE]
  BY DEF Flush, StopLocked
<1> HIDE DEF a
<1>3. /\ Flush(buf).decodable = EmptyList /\ Flush(buf).incomplete = EmptyList
      /\ Flush(buf).last = InitialState
      /\ StopLocked(buf).decodable = EmptyList /\ StopLocked(buf).incomplete = EmptyList
      /\ StopLocked(buf).last = InitialState
  BY <1>1, <1>2 DEF Fields
<1>4. /\ Start(buf).decodable = buf.decodable /\ Start(buf).incomplete = buf.incomplete
      /\ Start(buf).last = InitialState
  BY DEF Start, IsJitterBuffer, Fields
<1>5. InitialState.initial
  BY DEF InitialState
<1> QED
  BY <1>3, <1>4, <1>5, KeepIsPartOf DEF Drops

\* A packet of a frame that is old.
LEMMA InsertOldPacketOrder ==
  ASSUME StreamOrdered, NEW buf, IsJitterBuffer(buf), Traced(buf),
         "kWithErrors" \notin DecodeErrorModes,
         NEW p \in Stream, IsOld(buf.last, p.ts)
  PROVE  LET b == InsertOldPacket(buf, p).jb
         IN  Traced(b) /\ Follows(buf, b)
<1> DEFINE count == buf.old + p.size
           last  == UpdateOldPacket(buf.last, p)
           missing == DropPacketsFromNackList(buf.missing, last.seq)
           a     == [buf EXCEPT !.old = count, !.last = last,
                               !.missing = missing]
           b     == FindAndInsertContinuousFramesWithState(a, last)
           c     == InsertOldPacket(buf, p).jb
<1>0. p \in PacketType
  BY StreamAssumption
<1>1. c \in {Flush(b), b}
  BY DEF InsertOldPacket
<1>2. count \in Nat
  BY <1>0 DEF IsJitterBuffer, PacketType
<1>3. last \in DecodingStates
  BY <1>0, UpdateOldPacketType DEF IsJitterBuffer
<1>4. missing \subseteq SeqNums
  BY DEF DropPacketsFromNackList, IsJitterBuffer
<1>5. /\ ~buf.last.initial /\ OfStream(buf.last.ts, buf.last.seq)
      /\ ~Has(buf, buf.last.ts)
  BY DEF IsOld, Traced
<1>6. ~last.initial /\ last.ts = buf.last.ts /\ OfStream(last.ts, last.seq)
  <2>1. buf.last \in DecodingStates
    BY DEF IsJitterBuffer
  <2>2. CASE p.ts = buf.last.ts
    <3> DEFINE s == LatestSequenceNumber(p.seq, buf.last.seq)
    <3>1. s \in {p.seq, buf.last.seq}
      BY DEF LatestSequenceNumber
    <3>2. last = [buf.last EXCEPT !.seq = s]
      BY <2>2 DEF UpdateOldPacket
    <3> HIDE DEF s, last
    <3>3. last.seq = s /\ last.ts = buf.last.ts /\ last.initial = buf.last.initial
      BY <2>1, <3>2 DEF DecodingStates
    <3>4. OfStream(buf.last.ts, p.seq)
      BY <2>2 DEF OfStream
    <3> QED
      BY <1>5, <3>1, <3>3, <3>4
  <2>3. CASE p.ts # buf.last.ts
    BY <1>5, <2>3 DEF UpdateOldPacket
  <2> QED
    BY <2>2, <2>3
<1> HIDE DEF count, last
<1>7. /\ a.last = last /\ a.decodable = buf.decodable
      /\ a.incomplete = buf.incomplete /\ a.error_mode = buf.error_mode
      /\ IsJitterBuffer(a)
  <2> HIDE DEF missing
  <2> QED
    BY <1>2, <1>3, <1>4 DEF IsJitterBuffer, Fields
<1> HIDE DEF a
<1>8. Lists(a) = Lists(buf) /\ \A t : Has(a, t) <=> Has(buf, t)
  BY <1>7 DEF Lists, Has
<1>9. Traced(a)
  BY <1>5, <1>6, <1>7, <1>8 DEF Traced
<1>10. Follows(buf, a)
  BY <1>5, <1>6, <1>7, <1>8 DEF Follows
<1>11. a.error_mode # "kWithErrors"
  BY <1>7 DEF IsJitterBuffer
<1>12. Traced(b) /\ Follows(a, b) /\ IsJitterBuffer(b)
  BY <1>7, <1>9, <1>11, FindAndInsertOrder, FindAndInsertOK DEF Conserves
<1> HIDE DEF b, c
<1>13. Follows(buf, b)
  BY <1>10, <1>12, FollowsTrans
<1>14. Traced(Flush(b)) /\ Follows(b, Flush(b))
  BY <1>12, ForgettingDrops, DropsFollows
<1>15. Follows(buf, Flush(b))
  BY <1>13, <1>14, FollowsTrans
<1>16. Traced(c) /\ Follows(buf, c)
  BY <1>1, <1>12, <1>13, <1>14, <1>15
<1> QED
  BY <1>16 DEF c

\* A frame that has taken one more packet of the stream.
LEMMA InsertedFromStream ==
  ASSUME NEW p \in Stream, NEW mode \in Modes, NEW h \in Frame,
         h = ResetFrame \/ (h.ts = p.ts /\ FromStream(h)),
         NEW f \in Frame, f.ts = p.ts,
         LET r == FrameInsertPacket(h, p, mode)
         IN  /\ f.packets = r.frame.packets /\ f.emptyHigh = r.frame.emptyHigh
             /\ f.emptyLow = r.frame.emptyLow
             /\ f.state = r.frame.state /\ f.type = r.frame.type
  PROVE  FromStream(f) /\ (f.state = "kStateEmpty" => h.state = "kStateEmpty")
<1> DEFINE r == FrameInsertPacket(h, p, mode)
<1>1. p \in PacketType /\ OfStream(p.ts, p.seq)
  BY StreamAssumption DEF OfStream
<1>2. SeqsOf(r.frame) \subseteq SeqsOf(h) \cup {p.seq}
  BY <1>1, FrameInsertPacketSeqs
<1>3. /\ r.frame.emptyLow \in {h.emptyLow, p.seq}
      /\ r.frame.state = "kStateEmpty" =>
           /\ h.state = "kStateEmpty"
           /\ r.frame.packets = h.packets
           /\ r.frame.type = h.type
  BY <1>1, FrameInsertPacketEmpty
<1>4. /\ f.packets = r.frame.packets /\ f.emptyHigh = r.frame.emptyHigh
      /\ f.emptyLow = r.frame.emptyLow
      /\ f.state = r.frame.state /\ f.type = r.frame.type
  OBVIOUS
<1> HIDE DEF r
<1>5. SeqsOf(f) = SeqsOf(r.frame)
  BY <1>4 DEF SeqsOf, PacketSeqs
<1>6. /\ \A s \in SeqsOf(h) : OfStream(p.ts, s)
      /\ h.emptyLow # NoSeq => OfStream(p.ts, h.emptyLow)
      /\ h.state = "kStateEmpty" => h.packets = << >> /\ h.type # "key"
  <2>1. CASE h = ResetFrame
    <3>1. SeqsOf(ResetFrame) = {}
      BY DEF SeqsOf, PacketSeqs, ResetFrame
    <3>2. /\ ResetFrame.emptyLow = NoSeq
          /\ ResetFrame.packets = << >> /\ ResetFrame.type # "key"
      BY DEF ResetFrame
    <3> QED
      BY <2>1, <3>1, <3>2
  <2>2. CASE h.ts = p.ts /\ FromStream(h)
    BY <2>2 DEF FromStream
  <2> QED
    BY <2>1, <2>2
<1>7. \A s \in SeqsOf(f) : OfStream(f.ts, s)
  BY <1>1, <1>2, <1>5, <1>6
<1>8. f.emptyLow # NoSeq => OfStream(f.ts, f.emptyLow)
  BY <1>1, <1>3, <1>4, <1>6
<1>9. f.state = "kStateEmpty" =>
        f.packets = << >> /\ f.type # "key" /\ h.state = "kStateEmpty"
  BY <1>3, <1>4, <1>6
<1> QED
  BY <1>7, <1>8, <1>9 DEF FromStream

\* The bookkeeping overtakes no frame.
LEMMA NotedDrops ==
  ASSUME NEW a, NEW p, NEW ret, NEW b, Noted(a, p, ret, b)
  PROVE  Drops(a, b)
BY ShedsNothing DEF Noted

\* A packet of a frame that is not old.
LEMMA InsertIntoFrameOrder ==
  ASSUME StreamOrdered, NEW buf, PoolReady(buf), Traced(buf),
         "kWithErrors" \notin DecodeErrorModes,
         NEW p \in Stream, ~IsOld(buf.last, p.ts)
  PROVE  LET b == InsertIntoFrame(buf, p).jb
         IN  Traced(b) /\ Follows(buf, b)
<1> DEFINE b == InsertIntoFrame(buf, p).jb
<1>0. p \in PacketType /\ IsJitterBuffer(buf)
  BY StreamAssumption DEF PoolReady
<1>1. PICK a, g, r, n, f : Stages(buf, p, a, g, r, n, f)
  BY <1>0, InsertIntoFrameEffect
<1>2. Drops(buf, g.jb) /\ IsJitterBuffer(g.jb)
  BY <1>1 DEF Stages
<1>3. CASE b = g.jb
  BY <1>0, <1>2, <1>3, DropsFollows
<1>4. CASE /\ g.frame \in Frame
           /\ g.frame \in Lists(buf) \cup {ResetFrame}
           /\ r = FrameInsertPacket(g.frame, p, buf.error_mode)
           /\ buf.error_mode \in Modes
           /\ f \in Frame /\ HasPacket(f)
           /\ f.packets = r.frame.packets
           /\ f.emptyHigh = r.frame.emptyHigh
           /\ Noted(g.jb, p, r.ret, n) /\ IsJitterBuffer(n)
           /\ Puts(buf, p, g, r, n, f)
  <2>1. Drops(buf, n)
    BY <1>2, <1>4, NotedDrops, DropsTrans
  <2>2. Traced(n) /\ Follows(buf, n)
    BY <1>0, <2>1, DropsFollows
  <2>3. /\ f.ts = p.ts /\ ~Has(n, f.ts)
        /\ f.state = r.frame.state /\ f.type = r.frame.type
        /\ f.emptyLow = r.frame.emptyLow
        /\ g.frame = ResetFrame \/ g.frame.ts = p.ts
        /\ g.from \in {"incomplete", "decodable", "none"}
        /\ g.from = "decodable" =>
             \E t \in DOMAIN buf.decodable : g.frame = buf.decodable[t]
    BY <1>4 DEF Puts
  <2>4. PICK ret \in Returns \cup {"kFlushIndicator"} :
          b = PlaceFrame(n, f, ret, g.from)
    BY <1>4 DEF Puts
  <2>5. g.frame = ResetFrame \/ (g.frame.ts = p.ts /\ FromStream(g.frame))
    BY <1>4, <2>3 DEF Traced
  <2>6. FromStream(f) /\ (f.state = "kStateEmpty" => g.frame.state = "kStateEmpty")
    BY <1>4, <2>3, <2>5, InsertedFromStream
  <2>7. g.from = "decodable" => f.state # "kStateEmpty"
    BY <2>3, <2>6 DEF Traced
  <2>8. ~n.last.initial => IsNewerTimestamp(f.ts, n.last.ts)
    BY <2>1, <2>3 DEF Drops, IsOld
  <2>9. n.error_mode # "kWithErrors"
    BY <1>4 DEF IsJitterBuffer
  <2> HIDE DEF b
  <2>10. Traced(b) /\ Follows(n, b)
    BY <1>4, <2>2, <2>3, <2>4, <2>6, <2>7, <2>8, <2>9, PlaceFrameOrder
  <2>11. Follows(buf, b)
    BY <2>2, <2>10, FollowsTrans
  <2> QED
    BY <2>10, <2>11 DEF b
<1> QED
  BY <1>1, <1>3, <1>4 DEF Stages

\* InsertPacket overtakes no frame.
LEMMA InsertPacketOrder ==
  ASSUME StreamOrdered, NEW buf, PoolReady(buf), Traced(buf),
         "kWithErrors" \notin DecodeErrorModes, NEW p \in Stream
  PROVE  LET b == InsertPacket(buf, p).jb
         IN  Traced(b) /\ Follows(buf, b)
<1>1. IsJitterBuffer(buf)
  BY DEF PoolReady
<1>2. CASE IsOld(buf.last, p.ts)
  BY <1>1, <1>2, InsertOldPacketOrder DEF InsertPacket
<1>3. CASE ~IsOld(buf.last, p.ts)
  BY <1>3, InsertIntoFrameOrder DEF InsertPacket
<1> QED
  BY <1>2, <1>3

\* ExtractAndSetDecode takes the frame it remembers out of the lists.
LEMMA ExtractTraced ==
  ASSUME NEW buf, IsJitterBuffer(buf), Traced(buf), NEW ts, Has(buf, ts)
  PROVE  Traced(ExtractAndSetDecode(buf, ts))
<1> DEFINE f    == FrameAt(buf, ts)
           dcd  == Without(buf.decodable, {ts})
           inc  == IF ts \in DOMAIN buf.decodable
                     THEN buf.incomplete ELSE Without(buf.incomplete, {ts})
           last == SetState(buf.last, f)
           missing == DropPacketsFromNackList(buf.missing, HighSeq(f))
           b    == ExtractAndSetDecode(buf, ts)
<1>1. b = [buf EXCEPT !.decodable = dcd, !.incomplete = inc, !.last = last,
                     !.missing = missing]
  BY DEF ExtractAndSetDecode
<1>2. f \in Frame /\ HasPacket(f) /\ FromStream(f) /\ f.ts = ts
  BY ListsHave
<1>3. OfStream(ts, HighSeq(f))
  BY <1>2, FromStreamIs
<1>4. last.seq = HighSeq(f) /\ last.ts = f.ts
  BY DEF SetState
<1>5. PartOf(dcd, buf.decodable) /\ PartOf(inc, buf.incomplete)
  BY KeepIsPartOf
<1>6. ts \notin DOMAIN dcd /\ ts \notin DOMAIN inc
  <2>1. DOMAIN dcd = DOMAIN buf.decodable \ {ts}
        /\ DOMAIN Without(buf.incomplete, {ts}) = DOMAIN buf.incomplete \ {ts}
    BY WithoutType DEF IsJitterBuffer
  <2>2. DOMAIN buf.decodable \cap DOMAIN buf.incomplete = {}
    BY DEF IsJitterBuffer
  <2> QED
    BY <2>1, <2>2
<1> HIDE DEF f, dcd, inc, last, missing, b
<1>7. b.last = last /\ b.decodable = dcd /\ b.incomplete = inc
  BY <1>1 DEF IsJitterBuffer, Fields
<1>8. Lists(b) \subseteq Lists(buf)
  BY <1>5, <1>7, PartsInLists
<1>9. Traced(b)
  <2>1. \A h \in Lists(b) : FromStream(h)
    BY <1>8 DEF Traced
  <2>2. OfStream(b.last.ts, b.last.seq) /\ ~Has(b, b.last.ts)
    BY <1>2, <1>3, <1>4, <1>6, <1>7 DEF Has
  <2>3. \A t \in DOMAIN b.decodable : b.decodable[t].state # "kStateEmpty"
    BY <1>5, <1>7 DEF Traced, PartOf
  <2> QED
    BY <2>1, <2>2, <2>3 DEF Traced
<1> QED
  BY <1>9 DEF b

\* The decode thread is about to take a frame that is ahead of the last decoded
\* one, or it waits and the decodable frames are.
OrderInv ==
  /\ Traced(jb)
  /\ dec.pc = "timing" /\ Has(jb, dec.ts) => Ahead(jb, {dec.ts})
  /\ dec.pc \in {"wait", "timeout"} => Ahead(jb, DOMAIN jb.decodable)

\* The lists are empty at first.
LEMMA OrderInit ==
  ASSUME Init
  PROVE  OrderInv
<1>1. PICK nack_mode \in NackModes, error_mode \in DecodeErrorModes :
             jb = Start(InitJitterBuffer(nack_mode, error_mode))
  BY DEF Init
<1>2. /\ jb.decodable = EmptyList /\ jb.incomplete = EmptyList
      /\ jb.last = InitialState
  BY <1>1 DEF Start, InitJitterBuffer
<1>3. dec.pc = "idle"
  BY DEF Init, DecodeIdle
<1>4. Traced(jb)
  BY <1>2 DEF Traced, Lists, EmptyList, InitialState
<1> QED
  BY <1>3, <1>4 DEF OrderInv

\* What is ahead stays ahead while frames are neither overtaken nor added late.
LEMMA AheadFollows ==
  ASSUME NEW a, NEW b, Follows(a, b)
  PROVE  /\ Ahead(a, DOMAIN a.decodable) => Ahead(b, DOMAIN b.decodable)
         /\ \A t : (Has(a, t) => Ahead(a, {t})) /\ Has(b, t) => Ahead(b, {t})
<1>1. ASSUME Ahead(a, DOMAIN a.decodable), ~b.last.initial, NEW t \in DOMAIN b.decodable
      PROVE  IsNewerTimestamp(t, b.last.ts)
  <2>1. Has(b, t)
    BY DEF Has
  <2>2. t \in DOMAIN a.decodable => IsNewerTimestamp(t, a.last.ts)
    BY <1>1 DEF Ahead, Follows
  <2> QED
    BY <1>1, <2>1, <2>2 DEF Follows
<1>2. ASSUME NEW t, Has(a, t) => Ahead(a, {t}), Has(b, t), ~b.last.initial
      PROVE  IsNewerTimestamp(t, b.last.ts)
  BY <1>2 DEF Ahead, Follows
<1> QED
  BY <1>1, <1>2 DEF Ahead

\* A step that takes no frame out for decoding.
LEMMA FollowingStep ==
  ASSUME OrderInv, Traced(jb'), Follows(jb, jb'),
         \/ dec' = dec
         \/ dec'.pc \notin {"timing", "wait", "timeout"}
         \/ dec'.pc = "timeout" /\ dec.pc = "wait"
  PROVE  OrderInv'
<1>1. /\ Ahead(jb, DOMAIN jb.decodable) => Ahead(jb', DOMAIN jb'.decodable)
      /\ \A t : (Has(jb, t) => Ahead(jb, {t})) /\ Has(jb', t) => Ahead(jb', {t})
  BY AheadFollows
<1>2. dec'.pc \in {"wait", "timeout"} => Ahead(jb', DOMAIN jb'.decodable)
  BY <1>1 DEF OrderInv
<1>3. ASSUME dec'.pc = "timing", Has(jb', dec'.ts)
      PROVE  Ahead(jb', {dec'.ts})
  <2>1. dec' = dec
    BY <1>3
  <2>2. Has(jb, dec.ts) => Ahead(jb, {dec.ts})
    BY <1>3, <2>1 DEF OrderInv
  <2> QED
    BY <1>1, <1>3, <2>1, <2>2
<1> QED
  BY <1>2, <1>3 DEF OrderInv

\* A look at the front of decodable frames that are ahead.
LEMMA InspectStep ==
  ASSUME IsJitterBuffer(jb'), Traced(jb'), Ahead(jb', DOMAIN jb'.decodable),
         dec' \in {DecodeAt("timing", FrontTs(jb'))}
                    \cup {DecodeAt(pc, 0) : pc \in {"wait", "maybe"}},
         dec'.pc = "timing" => ~IsEmptyList(jb'.decodable)
  PROVE  OrderInv'
<1>1. ASSUME dec'.pc = "timing"
      PROVE  Ahead(jb', {dec'.ts})
  <2>1. dec' = DecodeAt("timing", FrontTs(jb'))
    BY <1>1 DEF DecodeAt
  <2>2. FrontTs(jb') \in DOMAIN jb'.decodable
    BY <1>1, OldestNewest DEF FrontTs, IsEmptyList
  <2>3. dec'.ts = FrontTs(jb')
    BY <2>1 DEF DecodeAt
  <2> QED
    BY <2>2, <2>3 DEF Ahead
<1> QED
  BY <1>1 DEF OrderInv

\* Inspect, spelt out.
LEMMA Inspected ==
  ASSUME NEW b, NEW others, others \subseteq {"wait", "maybe"}, Inspect(b, others)
  PROVE  /\ dec' \in {DecodeAt("timing", FrontTs(b))}
                       \cup {DecodeAt(pc, 0) : pc \in {"wait", "maybe"}}
         /\ dec'.pc = "timing" => ~IsEmptyList(b.decodable)
<1>1. CASE FrontComplete(b)
  BY <1>1 DEF Inspect, FrontComplete
<1>2. CASE ~FrontComplete(b)
  <2>1. PICK pc \in others : dec' = DecodeAt(pc, 0)
    BY <1>2 DEF Inspect
  <2>2. dec'.pc = pc
    BY <2>1 DEF DecodeAt
  <2> QED
    BY <2>1, <2>2
<1> QED
  BY <1>1, <1>2

\* The decode thread.
LEMMA DecodeThreadOrder ==
  ASSUME StreamOrdered, IInv, IInv', OrderInv, DecodeThread
  PROVE  OrderInv'
<1>0. IsJitterBuffer(jb) /\ IsJitterBuffer(jb') /\ Traced(jb)
  BY DEF IInv, TypeOK, OrderInv
<1>a. Follows(jb, jb)
  BY <1>0, ShedsNothing, DropsFollows
<1>b. LET b == CleanUpOldOrEmptyFrames(jb)
      IN  Traced(b) /\ Follows(jb, b) /\ Ahead(b, DOMAIN b.decodable)
  BY <1>0, CleanUpOrder
<1>1. CASE NextCompleteTimestamp \/ Woken
  <2>1. CASE jb.running
    <3>1. jb' = CleanUpOldOrEmptyFrames(jb)
           /\ \E others \in SUBSET {"wait", "maybe"} : Inspect(jb', others)
      BY <1>1, <2>1 DEF NextCompleteTimestamp, Woken
    <3> QED
      BY <1>0, <1>b, <3>1, Inspected, InspectStep
  <2>2. CASE ~jb.running
    <3>1. jb' = jb /\ dec'.pc = "maybe"
      BY <1>1, <2>2 DEF NextCompleteTimestamp, Woken, DecodeAt
    <3> QED
      BY <1>0, <1>a, <3>1, FollowingStep
  <2> QED
    BY <2>1, <2>2
<1>2. CASE WaitSignaled \/ WaitTimeout
  <2>1. jb' = jb /\ dec.pc = "wait" /\ dec'.pc \in {"woken", "timeout"}
    BY <1>2 DEF WaitSignaled, WaitTimeout, DecodeAt
  <2> QED
    BY <1>0, <1>a, <2>1, FollowingStep
<1>3. CASE TimedOut
  <2>1. jb' = jb /\ dec.pc = "timeout" /\ Inspect(jb, {"maybe"})
    BY <1>3 DEF TimedOut
  <2>2. Ahead(jb', DOMAIN jb'.decodable) /\ Traced(jb')
    BY <2>1 DEF OrderInv
  <2>3. /\ dec' \in {DecodeAt("timing", FrontTs(jb'))}
                      \cup {DecodeAt(pc, 0) : pc \in {"wait", "maybe"}}
        /\ dec'.pc = "timing" => ~IsEmptyList(jb'.decodable)
    BY <2>1, Inspected
  <2> QED
    BY <1>0, <2>2, <2>3, InspectStep
<1>4. CASE NextMaybeIncompleteTimestamp
  <2>1. CASE dec' = DecodeIdle /\ jb' \in {jb, CleanUpOldOrEmptyFrames(jb)}
    <3>1. dec'.pc = "idle"
      BY <2>1 DEF DecodeIdle
    <3>2. Traced(jb') /\ Follows(jb, jb')
      BY <1>0, <1>a, <1>b, <2>1
    <3> QED
      BY <3>1, <3>2, FollowingStep
  <2>2. CASE /\ dec' = DecodeAt("timing", FrontTs(jb')) /\ MaybeIncomplete(jb')
             /\ jb' = CleanUpOldOrEmptyFrames(jb)
    <3>1. ~IsEmptyList(jb'.decodable)
      BY <2>2 DEF MaybeIncomplete
    <3> QED
      BY <1>0, <1>b, <2>2, <3>1, InspectStep
  <2> QED
    BY <1>4, <2>1, <2>2 DEF NextMaybeIncompleteTimestamp
<1>5. CASE TimingError \/ TooEarly
  <2>1. dec'.pc = "idle" /\ jb' \in {jb, Flush(jb)}
    BY <1>5 DEF TimingError, TooEarly, DecodeIdle
  <2>2. Traced(jb') /\ Follows(jb, jb')
    BY <1>0, <1>a, <2>1, ForgettingDrops, DropsFollows
  <2> QED
    BY <2>1, <2>2, FollowingStep
<1>6. CASE FrameForDecoding
  <2>1. CASE jb.running /\ Has(jb, dec.ts)
    <3>1. jb' = ExtractAndSetDecode(jb, dec.ts) /\ dec'.pc = "decode"
      BY <1>6, <2>1 DEF FrameForDecoding
    <3>2. Traced(jb')
      BY <1>0, <2>1, <3>1, ExtractTraced
    <3> QED
      BY <3>1, <3>2 DEF OrderInv
  <2>2. CASE ~(jb.running /\ Has(jb, dec.ts))
    <3>1. jb' = jb /\ dec'.pc = "idle"
      BY <1>6, <2>2 DEF FrameForDecoding, DecodeIdle
    <3> QED
      BY <1>0, <1>a, <3>1, FollowingStep
  <2> QED
    BY <2>1, <2>2
<1>7. ASSUME NEW outcome \in {"ok", "error", "sli"}, DecodeFrame(outcome)
      PROVE  OrderInv'
  <2>1. jb' = jb /\ dec'.pc = "release"
    BY <1>7 DEF DecodeFrame, DecodeAt
  <2> QED
    BY <1>0, <1>a, <2>1, FollowingStep
<1>8. CASE ReleaseDecodedFrame
  <2>1. dec'.pc = "idle" /\ jb' = ReleaseFrame(jb)
    BY <1>8 DEF ReleaseDecodedFrame, DecodeIdle
  <2>2. /\ jb'.last = jb.last /\ jb'.decodable = jb.decodable
        /\ jb'.incomplete = jb.incomplete
    BY <1>0, <2>1 DEF ReleaseFrame, IsJitterBuffer, Fields
  <2>3. Traced(jb') /\ Follows(jb, jb')
    BY <1>0, <2>2, DropsSame, DropsFollows
  <2> QED
    BY <2>1, <2>3, FollowingStep
<1> QED
  BY <1>1, <1>2, <1>3, <1>4, <1>5, <1>6, <1>7, <1>8 DEF DecodeThread

\* The other threads take no frame out.
LEMMA OtherThreadsOrder ==
  ASSUME StreamOrdered, "kWithErrors" \notin DecodeErrorModes,
         IInv, OrderInv, UNCHANGED vars \/ (Next /\ ~DecodeThread)
  PROVE  OrderInv'
<1>0. IsJitterBuffer(jb) /\ PoolReady(jb) /\ Traced(jb)
  BY InvPoolReady DEF IInv, TypeOK, OrderInv
<1>a. ASSUME Drops(jb, jb'), dec' = dec
      PROVE  OrderInv'
  BY <1>0, <1>a, DropsFollows, FollowingStep
<1>b. ASSUME jb' = jb, dec' = dec
      PROVE  OrderInv'
  BY <1>a, <1>b, ShedsNothing
<1>1. CASE UNCHANGED vars
  BY <1>1, <1>b DEF vars
<1>2. CASE NetworkThread
  <2>1. ASSUME NEW p \in Stream, IncomingPacket(p)
        PROVE  OrderInv'
    <3>1. jb' = InsertPacket(jb, p).jb /\ dec' = dec
      BY <2>1 DEF IncomingPacket
    <3>2. Traced(jb') /\ Follows(jb, jb')
      BY <1>0, <3>1, InsertPacketOrder
    <3> QED
      BY <3>1, <3>2, FollowingStep
  <2>2. CASE ResetJitterBuffer
    <3>1. jb' \in {Flush(jb), Start(jb)} /\ dec' = dec
      BY <2>2 DEF ResetJitterBuffer
    <3> QED
      BY <1>0, <1>a, <3>1, ForgettingDrops
  <2>3. CASE NetRequestKeyFrame \/ LockDecoder \/ ClearKeyRequest
    BY <2>3, <1>b DEF NetRequestKeyFrame, LockDecoder, ClearKeyRequest
  <2> QED
    BY <1>2, <2>1, <2>2, <2>3 DEF NetworkThread
<1>3. CASE ProcessThread
  <2>1. CASE ProcessStatistics
    <3>1. jb' = CleanUpOldOrEmptyFrames(jb) /\ dec' = dec
      BY <2>1 DEF ProcessStatistics
    <3> QED
      BY <1>0, <3>1, CleanUpOrder, FollowingStep
  <2>2. CASE ProcessNackList
    <3>1. jb' = GetNackList(jb).jb /\ dec' = dec
      BY <2>2 DEF ProcessNackList
    <3> QED
      BY <1>0, <1>a, <3>1, GetNackListSheds
  <2>3. CASE ProcessKeyRequest \/ (\E ok \in BOOLEAN : RequestKeyFrame(ok)) \/ RequestReturns
    BY <2>3, <1>b DEF ProcessKeyRequest, RequestKeyFrame, RequestReturns
  <2> QED
    BY <1>3, <2>1, <2>2, <2>3 DEF ProcessThread
<1>4. CASE Shutdown
  <2>1. CASE StopJitterBuffer
    <3>1. jb' = StopLocked(jb) /\ dec' = dec
      BY <2>1 DEF StopJitterBuffer
    <3> QED
      BY <1>0, <1>a, <3>1, ForgettingDrops
  <2>2. CASE SignalStop
    BY <2>2, <1>b DEF SignalStop
  <2> QED
    BY <1>4, <2>1, <2>2 DEF Shutdown
<1>5. CASE SetProtection
  <2>1. ASSUME NEW mode, SetNackMode(mode) \/ SetDecodeErrorMode(mode)
        PROVE  OrderInv'
    <3>1. /\ jb' \in {SelectNackMode(jb, mode), SelectDecodeErrorMode(jb, mode)}
          /\ dec' = dec
      BY <2>1 DEF SetNackMode, SetDecodeErrorMode
    <3>2. /\ jb'.last = jb.last /\ jb'.decodable = jb.decodable
          /\ jb'.incomplete = jb.incomplete
      BY <1>0, <3>1
      DEF SelectNackMode, SelectDecodeErrorMode, IsJitterBuffer, Fields
    <3> QED
      BY <1>a, <3>1, <3>2, DropsSame
  <2> QED
    BY <1>5, <2>1 DEF SetProtection
<1> QED
  BY <1>1, <1>2, <1>3, <1>4, <1>5 DEF Next

\* The frame the decode thread takes is the one it read the timestamp of.
LEMMA OrderInvImplies ==
  ASSUME OrderInv, [Next]_vars, Extracting, ~jb.last.initial, IInv
  PROVE  IsNewerTimestamp(dec.ts, jb.last.ts)
<1>1. dec.pc = "timing" /\ dec'.pc = "decode"
  BY DEF Extracting
<1>2. CASE FrameForDecoding
  <2>1. Has(jb, dec.ts)
    BY <1>1, <1>2 DEF FrameForDecoding, DecodeIdle
  <2> QED
    BY <1>1, <2>1 DEF OrderInv, Ahead
<1>3. CASE TimingError \/ TooEarly
  BY <1>1, <1>3 DEF TimingError, TooEarly, DecodeIdle
<1>4. CASE DecodeThread /\ ~FrameForDecoding /\ ~(TimingError \/ TooEarly)
  BY <1>1, <1>4 DEF DecodeThread, NextCompleteTimestamp, WaitSignaled,
     WaitTimeout, Woken, TimedOut, NextMaybeIncompleteTimestamp, DecodeFrame,
     ReleaseDecodedFrame
<1>5. CASE ~DecodeThread
  <2>1. dec' = dec
    BY <1>5 DEF Next, vars, NetworkThread, ProcessThread, Shutdown, SetProtection,
       IncomingPacket, NetRequestKeyFrame, LockDecoder, ResetJitterBuffer,
       ClearKeyRequest, ProcessStatistics, ProcessKeyRequest, ProcessNackList,
       RequestKeyFrame, RequestReturns, StopJitterBuffer, SignalStop, SetNackMode,
       SetDecodeErrorMode
  <2> QED
    BY <1>1, <2>1
<1> QED
  BY <1>2, <1>3, <1>4, <1>5

\* In an ordered stream, and unless frames are decoded with any errors, frames
\* reach the decoder in timestamp order, although the decode thread lets go of
\* the lock between reading a timestamp and taking the frame.
THEOREM DecodesInOrder ==
  ASSUME StreamOrdered, "kWithErrors" \notin DecodeErrorModes
  PROVE  Spec => DecodedInOrder
<1> DEFINE Inv == IInv /\ OrderInv
<1>1. Init => Inv
  BY InitInv, OrderInit
<1>2. Inv /\ [Next]_vars => Inv'
  <2>1. IInv /\ [Next]_vars => IInv'
    BY NextInv
  <2> QED
    BY <2>1, DecodeThreadOrder, OtherThreadsOrder
<1>3. Inv /\ [Next]_vars =>
        (Extracting /\ ~jb.last.initial => IsNewerTimestamp(dec.ts, jb.last.ts))
  BY OrderInvImplies
<1> HIDE DEF Inv
<1> QED
  BY <1>1, <1>2, <1>3, PTL DEF Spec, DecodedInOrder
=============================================================================
