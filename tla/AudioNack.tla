----------------------------- MODULE AudioNack -----------------------------
(***************************************************************************)
(* The list of audio packets worth a retransmission                        *)
(* (audio_coding/main/acm2/nack.cc).  A number skipped by the newest       *)
(* packet enters the list; it leaves when its packet arrives, when it is   *)
(* too old, or when its time to be played has come.                        *)
(*                                                                         *)
(* |nack| is a record; nack.list maps a sequence number to [ttp, ts,       *)
(* missing] (time_to_play_ms, estimated_timestamp, is_missing).  Time is   *)
(* counted in blocks of 10 ms, timestamps in samples of one block.  In the *)
(* code the list is a std::map ordered by IsNewerSequenceNumber, which is  *)
(* an order as long as the keys stay within half a circle.                 *)
(***************************************************************************)
EXTENDS SequenceNumbers, FiniteSets

CONSTANTS NackThreshold,  \* nack_threshold_packets_
          ListSizes       \* the sizes SetMaxNackListSize is called with

ASSUME NackThresholdAssumption == NackThreshold \in 0 .. SeqHalf - 1
ASSUME ListSizesAssumption == ListSizes \subseteq 1 .. SeqHalf - 1

SeqMinus(a, b) == Distance(a, b % (2 * SeqHalf), SeqHalf)
TsMinus(a, b)  == Distance(a, b, TsHalf)

EmptyList == [n \in {} |-> 0]
Numbers(nack) == DOMAIN nack.list
Kept(nack, K) == [nack EXCEPT !.list = [n \in K |-> nack.list[n]]]

\* The constructor, and Reset, which keeps the maximal size.
NewNack(maxSize) ==
  [list |-> EmptyList, maxSize |-> maxSize,
   lastReceived |-> 0, lastReceivedTs |-> 0, anyReceived |-> FALSE,
   lastDecoded |-> 0, lastDecodedTs |-> 0, anyDecoded |-> FALSE,
   perPacket |-> 2]  \* kDefaultPacketSizeMs is two blocks

Reset(nack) == NewNack(nack.maxSize)

-----------------------------------------------------------------------------
\* The range begin() .. upper_bound(n): a front part of the list whose last
\* number is not newer than n, before a first number that is.  When n is far
\* from the list the comparison is no order, and which such part the search in
\* the tree ends at depends on the shape of the tree.
UpTo(nack, n) ==
  LET K == Numbers(nack)
      Fronts == {R \in SUBSET K :
                   \A a \in R, b \in K \ R : IsNewerSequenceNumber(b, a)}
  IN  {R \in Fronts :
         /\ \A a \in R : (\A c \in R : ~IsNewerSequenceNumber(c, a))
                           => ~IsNewerSequenceNumber(a, n)
         /\ \A b \in K \ R : (\A c \in K \ R : ~IsNewerSequenceNumber(b, c))
                               => IsNewerSequenceNumber(b, n)}

\* LimitNackListSize and ChangeFromLateToMissing search for a number close to
\* the list, where upper_bound and lower_bound split it by age.
LimitNackListSize(nack) ==
  LET limit == SeqMinus(nack.lastReceived, nack.maxSize + 1)
  IN  Kept(nack, {n \in Numbers(nack) : IsNewerSequenceNumber(n, limit)})

ChangeFromLateToMissing(nack, current) ==
  LET bound == SeqMinus(current, NackThreshold)
  IN  [nack EXCEPT !.list =
         [n \in Numbers(nack) |->
            [nack.list[n] EXCEPT !.missing = @ \/ IsNewerSequenceNumber(bound, n)]]]

TimeToPlay(nack, ts) == TsMinus(ts, nack.lastDecodedTs)

EstimateTimestamp(nack, n) ==
  (SeqMinus(n, nack.lastReceived) * nack.perPacket + nack.lastReceivedTs)
    % (2 * TsHalf)

\* Faulty variant: the number right behind the last received one is not missed.
SkippedFromSecond(nack, current) ==
  {n \in SeqNums : /\ IsNewerSequenceNumber(n, NextSeq(nack.lastReceived))
                   /\ IsNewerSequenceNumber(current, n)}

\* The numbers between the last received packet and the current one.
Skipped(nack, current) ==
  {n \in SeqNums : /\ IsNewerSequenceNumber(n, nack.lastReceived)
                   /\ IsNewerSequenceNumber(current, n)}

AddToList(nack, current) ==
  LET bound == SeqMinus(current, NackThreshold)
      Element(n) == [ttp |-> TimeToPlay(nack, EstimateTimestamp(nack, n)),
                     ts |-> EstimateTimestamp(nack, n),
                     missing |-> IsNewerSequenceNumber(bound, n)]
  IN  [nack EXCEPT !.list =
         [n \in Numbers(nack) \cup Skipped(nack, current) |->
            IF n \in Numbers(nack) THEN nack.list[n] ELSE Element(n)]]

\* Faulty variant: late packets of the list are never called missing.
UpdateListAddOnly(nack, current) == AddToList(nack, current)

UpdateList(nack, current) ==
  AddToList(ChangeFromLateToMissing(nack, current), current)

UpdateSamplesPerPacket(nack, seq, ts) ==
  [nack EXCEPT !.perPacket =
     TsMinus(ts, nack.lastReceivedTs) \div SeqMinus(seq, nack.lastReceived)]

-----------------------------------------------------------------------------
FirstReceived(nack, seq, ts) ==
  LET received == [nack EXCEPT !.lastReceived = seq, !.lastReceivedTs = ts,
                               !.anyReceived = TRUE]
  IN  IF nack.anyDecoded THEN received
      ELSE [received EXCEPT !.lastDecoded = seq, !.lastDecodedTs = ts]

NewestReceived(nack, seq, ts) ==
  LET listed == UpdateList(UpdateSamplesPerPacket(nack, seq, ts), seq)
  IN  LimitNackListSize([listed EXCEPT !.lastReceived = seq, !.lastReceivedTs = ts])

\* Faulty variant: a late packet stays on the list.
UpdateIfNewest(nack, seq, ts) ==
  IF ~nack.anyReceived THEN FirstReceived(nack, seq, ts)
  ELSE IF seq = nack.lastReceived \/ IsNewerSequenceNumber(nack.lastReceived, seq)
    THEN nack
    ELSE NewestReceived(nack, seq, ts)

UpdateLastReceivedPacket(nack, seq, ts) ==
  LET erased == Kept(nack, Numbers(nack) \ {seq})
  IN  IF ~nack.anyReceived THEN FirstReceived(nack, seq, ts)
      ELSE IF seq = nack.lastReceived THEN nack
      ELSE IF IsNewerSequenceNumber(nack.lastReceived, seq) THEN erased
      ELSE NewestReceived(erased, seq, ts)

\* Numbers go from the front of the list while they are due, the others come
\* 10 ms closer.
UpdateEstimatedPlayoutTimeBy10ms(nack) ==
  LET K   == Numbers(nack)
      due == {n \in K : \A m \in K : ~IsNewerSequenceNumber(m, n)
                                       => nack.list[m].ttp <= 1}
  IN  [nack EXCEPT !.list =
         [n \in K \ due |-> [nack.list[n] EXCEPT !.ttp = @ - 1]]]

\* The possible results: see UpTo.
UpdateLastDecodedPacket(nack, seq, ts) ==
  LET told    == [nack EXCEPT !.lastDecoded = seq, !.lastDecodedTs = ts,
                              !.anyDecoded = TRUE]
      Left(R) == [n \in Numbers(nack) \ R |->
                    [nack.list[n] EXCEPT !.ttp = TimeToPlay(told, nack.list[n].ts)]]
  IN  IF IsNewerSequenceNumber(seq, nack.lastDecoded) \/ ~nack.anyDecoded
        THEN {[told EXCEPT !.list = Left(R)] : R \in UpTo(nack, seq)}
        ELSE {[UpdateEstimatedPlayoutTimeBy10ms(nack) EXCEPT
                 !.lastDecodedTs = (@ + 1) % (2 * TsHalf), !.anyDecoded = TRUE]}

SetMaxNackListSize(nack, size) ==
  LimitNackListSize([nack EXCEPT !.maxSize = size])
=============================================================================
