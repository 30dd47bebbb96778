--------------------------- MODULE FrameAssembly ---------------------------
(***************************************************************************)
(* One frame buffer between two calls of Reset: the packets of one frame   *)
(* arrive in any order and any number of times.                            *)
(***************************************************************************)
EXTENDS FrameBuffer

CONSTANT Mode   \* the decode error mode

ASSUME ModeAssumption == Mode \in {"kNoErrors", "kSelectiveErrors",
                                   "kWithErrors"}

VARIABLES frame,     \* the frame buffer
          received   \* the packets that have arrived

vars == <<frame, received>>

Init == frame = ResetFrame /\ received = {}

Insert(p) ==
  /\ frame' = FrameInsertPacket(frame, p, Mode).frame
  /\ received' = received \cup {p}

Next == \E p \in Stream : Insert(p)

Spec == Init /\ [][Next]_vars

-----------------------------------------------------------------------------
Media(S) == {p \in S : p.type # "empty"}

\* What a sender makes of one frame: packets numbered within half a circle, no
\* number twice; the media packets carry payload and follow one another without
\* a gap, the first of them flagged as first and the last with the marker.
OneFrame ==
  /\ \E base \in SeqNums :
       \A p \in Stream : Distance(p.seq, base, SeqHalf) < SeqHalf
  /\ \A p, q \in Stream : p.seq = q.seq => p = q
  /\ \A p \in Media(Stream) :
       /\ p.size = 1
       /\ p.first <=> \A q \in Media(Stream) : ~IsNewerSequenceNumber(p.seq, q.seq)
       /\ p.marker <=> \A q \in Media(Stream) : ~IsNewerSequenceNumber(q.seq, p.seq)
       /\ p.marker \/ \E q \in Media(Stream) : q.seq = NextSeq(p.seq)

\* jitter_buffer_common.h: a frame in kStateComplete has all its packets; and,
\* as long as it takes as many, a frame that has got them all is complete.
CompleteHasAllPackets ==
  /\ frame.state = "kStateComplete" => Media(Stream) \subseteq received
  /\ Media(Stream) \subseteq received /\ Media(Stream) # {}
       /\ Cardinality(Media(Stream)) <= kMaxPacketsInSession
     => frame.complete

\* LowSeq and HighSeq are the ends of what has arrived.
RangeIsReceived ==
  received # {} =>
    LET seqs == {p.seq : p \in received}
        low  == {p.seq : p \in IF Media(received) = {} THEN received
                                                       ELSE Media(received)}
    IN  /\ HighSeq(frame) \in seqs
        /\ \A s \in seqs : ~IsNewerSequenceNumber(s, HighSeq(frame))
        /\ LowSeq(frame) \in low
        /\ \A s \in low : ~IsNewerSequenceNumber(LowSeq(frame), s)

\* The packet list is in transmission order, holds each packet once, and only
\* packets that have arrived; and the sequence number range of the frame, by which
\* it is linked to the frames before and after it, is that of the packets that
\* have arrived, media or padding, in whatever order they came
\* (VCMSessionInfo::InsertPacket and InformOfEmptyPacket).
PacketsInOrder ==
  LET ps == frame.packets
  IN  /\ \A i, j \in DOMAIN ps :
           i < j => IsNewerSequenceNumber(ps[j].seq, ps[i].seq)
      /\ \A i \in DOMAIN ps : ps[i] \in received
      /\ RangeIsReceived

\* The assertions of VCMFrameBuffer::SetState: a frame never falls back, in
\* particular not from kStateComplete to kStateDecodable.
Rank(state) ==
  CASE state = "kStateEmpty"      -> 0
    [] state = "kStateIncomplete" -> 1
    [] state = "kStateDecodable"  -> 2
    [] state = "kStateComplete"   -> 3

StateOnlyAdvances == [][Rank(frame'.state) >= Rank(frame.state)]_vars
=============================================================================
