---------------------------- MODULE FrameBuffer ----------------------------
(***************************************************************************)
(* VCMFrameBuffer and the VCMSessionInfo inside it: one frame being        *)
(* assembled from RTP packets (video_coding/main/source/frame_buffer.cc,   *)
(* session_info.cc).  A frame is a record and every method is an operator  *)
(* from frames to frames.  Payload bytes, their offsets and the byte limit *)
(* kMaxJBFrameSizeBytes are abstracted away: of the two limits that give   *)
(* kSizeError the one on the number of packets is kept.                    *)
(***************************************************************************)
EXTENDS SequenceNumbers, Sequences, FiniteSets

CONSTANTS
  Stream,                 \* the packets the sender emits: a set of records
  Codec,                  \* "H264" or "VP8"; VP9 is not modelled
  kMaxPacketsInSession,   \* 1400 in the code
  DecodablePacketCounts   \* packet counts UpdateDecodableSession lets through

kNoPictureId   == -1
kNoTemporalIdx == 255
kNoTl0PicIdx   == -1
NoSeq          == -1

FrameTypes == {"key", "delta", "empty"}

\* What a VCMPacket says about itself, payload aside: size is 0 for a packet
\* without payload and 1 otherwise.
PacketType ==
  [seq : SeqNums, ts : Timestamps, type : FrameTypes, first : BOOLEAN,
   marker : BOOLEAN, size : {0, 1}, pid : Int, tid : Nat, tl0 : Int,
   sync : BOOLEAN]

ASSUME StreamAssumption ==
  /\ Stream \subseteq PacketType
  /\ Codec \in {"H264", "VP8"}
  /\ kMaxPacketsInSession \in Nat \ {0}
  /\ DecodablePacketCounts \subseteq Nat

States == {"kStateEmpty", "kStateIncomplete", "kStateDecodable",
           "kStateComplete"}

MaybeSeq == SeqNums \cup {NoSeq}

Frame ==
  [ts : Timestamps, state : States, nacked : BOOLEAN, type : FrameTypes,
   packets : Seq(PacketType), complete : BOOLEAN, decodable : BOOLEAN,
   emptyLow : MaybeSeq, emptyHigh : MaybeSeq, first : MaybeSeq,
   last : MaybeSeq]

-----------------------------------------------------------------------------
(* The frame after VCMFrameBuffer::Reset. *)
ResetFrame ==
  [ts |-> 0, state |-> "kStateEmpty", nacked |-> FALSE,
   type |-> "delta", packets |-> << >>, complete |-> FALSE,
   decodable |-> FALSE, emptyLow |-> NoSeq, emptyHigh |-> NoSeq,
   first |-> NoSeq, last |-> NoSeq]

LowSeq(f) == IF f.packets = << >> THEN f.emptyLow ELSE f.packets[1].seq

HighSeq(f) ==
  IF f.packets = << >>
    THEN f.emptyHigh
    ELSE LET back == f.packets[Len(f.packets)].seq
         IN  IF f.emptyHigh = NoSeq
               THEN back
               ELSE LatestSequenceNumber(back, f.emptyHigh)

\* A frame that has received a packet, of media or without payload.  For the
\* others GetLowSeqNum and GetHighSeqNum are -1.
HasPacket(f) ==
  f.packets # << >> \/ (f.emptyLow # NoSeq /\ f.emptyHigh # NoSeq)

\* The layer information of a frame is that of its front packet.
PictureId(f)  == IF f.packets = << >> THEN kNoPictureId   ELSE f.packets[1].pid
TemporalId(f) == IF f.packets = << >> THEN kNoTemporalIdx ELSE f.packets[1].tid
Tl0PicId(f)   == IF f.packets = << >> THEN kNoTl0PicIdx   ELSE f.packets[1].tl0
LayerSync(f)  == f.packets # << >> /\ f.packets[1].sync

HaveFirstPacket(f) == f.packets # << >> /\ f.first # NoSeq
HaveLastPacket(f)  == f.packets # << >> /\ f.last # NoSeq

-----------------------------------------------------------------------------
(* VCMSessionInfo::InsertPacket. *)
\* Faulty variant: the last empty packet to arrive counts as the highest.
InformOfEmptyPacketUnordered(f, seq) ==
  [f EXCEPT !.emptyHigh = seq, !.emptyLow = IF @ = NoSeq THEN seq ELSE @]

InformOfEmptyPacket(f, seq) ==
  [f EXCEPT
     !.emptyHigh = IF @ = NoSeq THEN seq ELSE LatestSequenceNumber(seq, @),
     !.emptyLow  = IF @ = NoSeq \/ IsNewerSequenceNumber(@, seq)
                     THEN seq ELSE @]

\* The reverse scan over the packet list: how many packets stay in front.
InsertPosition(f, seq) ==
  LET older == {i \in 1 .. Len(f.packets) :
                  LatestSequenceNumber(seq, f.packets[i].seq) = seq}
  IN  IF older = {} THEN 0 ELSE CHOOSE i \in older : \A j \in older : j <= i

IsDuplicate(f, p) ==
  LET i == InsertPosition(f, p.seq)
  IN  i > 0 /\ f.packets[i].seq = p.seq /\ f.packets[i].size > 0

\* H.264: any packet may carry the first-packet flag; the outermost count.
TrackBoundariesH264(f, p) ==
  [f EXCEPT
     !.type  = p.type,
     !.first = IF p.first /\ (@ = NoSeq \/ IsNewerSequenceNumber(@, p.seq))
                 THEN p.seq ELSE @,
     !.last  = IF p.marker /\ (@ = NoSeq \/ IsNewerSequenceNumber(p.seq, @))
                 THEN p.seq ELSE @]

\* Other codecs: the first flagged packet fixes the boundary ...
TrackFirst(f, p) ==
  IF p.first /\ f.first = NoSeq
    THEN [f EXCEPT !.type = p.type, !.first = p.seq]
    ELSE f

TrackLast(f, p) ==
  IF p.marker /\ f.last = NoSeq THEN [f EXCEPT !.last = p.seq] ELSE f

TrackBoundaries(f, p) ==
  IF Codec = "H264" THEN TrackBoundariesH264(f, p)
                    ELSE TrackLast(TrackFirst(f, p), p)

\* ... and packets outside a boundary that is already known are refused.
OutOfBounds(f, p) ==
  /\ Codec # "H264"
  /\ \/ f.first # NoSeq /\ IsNewerSequenceNumber(f.first, p.seq)
     \/ f.last # NoSeq /\ IsNewerSequenceNumber(p.seq, f.last)

\* Faulty variant: gaps inside the frame are overlooked.
InSequenceEnds(f) == HaveFirstPacket(f) /\ HaveLastPacket(f)

InSequence(f) ==
  \A i \in 1 .. Len(f.packets) - 1 :
    NextSeq(f.packets[i].seq) = f.packets[i + 1].seq

UpdateCompleteSession(f) ==
  [f EXCEPT !.complete = IF HaveFirstPacket(f) /\ HaveLastPacket(f)
                           THEN InSequence(f) ELSE @]

UpdateDecodableSession(f, mode) ==
  LET enough == /\ f.type # "key"
                /\ HaveFirstPacket(f)
                /\ Len(f.packets) \in DecodablePacketCounts
  IN  [f EXCEPT !.decodable =
         CASE mode = "kWithErrors"      -> TRUE
           [] mode = "kSelectiveErrors" -> @ \/ (~f.complete /\ enough)
           [] mode = "kNoErrors"        -> @]

\* Inserting a media packet whose place in the frame has been accepted.
StorePacket(f, p, mode) ==
  LET i == InsertPosition(f, p.seq)
      g == [f EXCEPT !.packets = SubSeq(@, 1, i) \o <<p>>
                                   \o SubSeq(@, i + 1, Len(@))]
  IN  UpdateDecodableSession(UpdateCompleteSession(g), mode)

\* The return values -1, -2 and -3, named for the errors the frame buffer
\* makes of them.
SessionError(f, p) ==
  IF p.type = "empty"                           THEN "none"
  ELSE IF Len(f.packets) = kMaxPacketsInSession THEN "kSizeError"
  ELSE IF IsDuplicate(f, p)                     THEN "kDuplicatePacket"
  ELSE IF OutOfBounds(f, p)                     THEN "kOutOfBoundsPacket"
  ELSE "none"

\* A packet refused by the last boundary may already have set the first one.
SessionInsertPacket(f, p, mode) ==
  LET err == SessionError(f, p)
  IN  CASE p.type = "empty" -> InformOfEmptyPacket(f, p.seq)
        [] p.type # "empty" /\ err = "none" ->
             StorePacket(TrackBoundaries(f, p), p, mode)
        [] err = "kOutOfBoundsPacket" -> TrackFirst(f, p)
        [] err \in {"kSizeError", "kDuplicatePacket"} -> f

-----------------------------------------------------------------------------
(* VCMFrameBuffer::InsertPacket: [frame, ret]. *)
\* Faulty variant: every media packet puts the frame back to kStateIncomplete.
OpenFrameAlways(f, p) ==
  [f EXCEPT !.ts = p.ts,
            !.state = IF p.type = "empty" THEN @ ELSE "kStateIncomplete"]

OpenFrame(f, p) ==
  IF f.state # "kStateEmpty"
    THEN f
    ELSE [f EXCEPT !.ts = p.ts,
                   !.state = IF p.type = "empty" THEN @
                                                 ELSE "kStateIncomplete"]

FrameInsertPacket(f, p, mode) ==
  LET open == OpenFrame(f, p)
      err  == SessionError(open, p)
      g    == SessionInsertPacket(open, p, mode)
  IN  IF err # "none" THEN [frame |-> g, ret |-> err]
      ELSE IF g.complete
        THEN [frame |-> [g EXCEPT !.state = "kStateComplete"],
              ret |-> "kCompleteSession"]
      ELSE IF g.decodable
        THEN [frame |-> [g EXCEPT !.state = "kStateDecodable"],
              ret |-> "kDecodableSession"]
      ELSE [frame |-> g, ret |-> "kIncomplete"]
=============================================================================
