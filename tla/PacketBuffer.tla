---------------------------- MODULE PacketBuffer ----------------------------
(***************************************************************************)
(* NetEq's buffer of audio packets waiting to be decoded                   *)
(* (audio_coding/neteq/packet_buffer.cc, packet.h, and the splitting of    *)
(* redundant payloads in payload_splitter.cc).                             *)
(*                                                                         *)
(* A packet is [seq, ts, pt, primary]: RTP sequence number, RTP timestamp, *)
(* payload type, and whether it is the main payload of its datagram or a   *)
(* redundant copy of an earlier one (RED, RFC 2198).  A redundant copy has *)
(* the timestamp of the audio it repeats and the sequence number of the    *)
(* datagram that brought it.  The buffer is a sequence, oldest first.      *)
(* Sync packets, which only the audio/video synchronisation mode inserts,  *)
(* are left out, and so are telephone events, which have their own buffer. *)
(***************************************************************************)
EXTENDS SequenceNumbers, Sequences, SequencesExt

CONSTANTS MaxPackets,   \* max_number_of_packets_: capacity of the buffer
          SpeechTypes,  \* payload types of audio codecs
          CngTypes,     \* payload types of comfort noise
          RedType,      \* payload type of redundant audio
          NoType        \* 0xFF: no payload type seen yet

ASSUME MaxPacketsAssumption == MaxPackets \in Nat \ {0}
ASSUME PayloadTypesAssumption ==
  /\ SpeechTypes \cap CngTypes = {}
  /\ {RedType, NoType} \cap (SpeechTypes \cup CngTypes) = {}
  /\ RedType # NoType

PayloadTypes == SpeechTypes \cup CngTypes

Packet == [seq : SeqNums, ts : Timestamps, pt : PayloadTypes, primary : BOOLEAN]

-----------------------------------------------------------------------------
\* Faulty variant: among payloads of one timestamp the one that arrived in the
\* later datagram comes first.
LessByArrival(p, q) ==
  IF p.ts # q.ts THEN Distance(q.ts, p.ts, TsHalf) < TsHalf - 1
  ELSE IF p.seq # q.seq THEN Distance(p.seq, q.seq, SeqHalf) < SeqHalf - 1
  ELSE p.primary /\ ~q.primary

\* Packet::operator<.  Unlike IsNewer, it takes two values exactly half a
\* circle apart, and the two next to them, as unordered: 0xFFFF / 2 is one
\* less than half a circle.
Less(p, q) ==
  IF p.ts # q.ts THEN Distance(q.ts, p.ts, TsHalf) < TsHalf - 1
  ELSE IF p.seq # q.seq THEN Distance(q.seq, p.seq, SeqHalf) < SeqHalf - 1
  ELSE p.primary /\ ~q.primary

\* NewTimestampIsLarger: |p| goes before |new|.
GoesBefore(p, new) == ~Less(new, p)

\* The place of the last packet that |new| goes behind, found from the back; 0
\* when there is none.
PlaceBehind(buffer, new) ==
  Max({0} \cup {i \in DOMAIN buffer : GoesBefore(buffer[i], new)})

\* Faulty variant: a payload of lower priority stays beside the new packet.
PlacedBeside(buffer, new) ==
  LET i == PlaceBehind(buffer, new)
  IN  IF i > 0 /\ buffer[i].ts = new.ts
        THEN buffer
        ELSE InsertAt(buffer, i + 1, new)

\* One payload per timestamp: the new packet is dropped behind one of higher
\* priority and replaces one of lower priority.
Placed(buffer, new) ==
  LET i == PlaceBehind(buffer, new)
  IN  CASE i > 0 /\ buffer[i].ts = new.ts -> buffer
        [] ~(i > 0 /\ buffer[i].ts = new.ts)
           /\ i < Len(buffer) /\ buffer[i + 1].ts = new.ts ->
             [buffer EXCEPT ![i + 1] = new]
        [] OTHER -> InsertAt(buffer, i + 1, new)

\* PacketBuffer::InsertPacket: a full buffer is emptied first.
IsFull(buffer) == Len(buffer) >= MaxPackets
InsertPacket(buffer, new) == Placed(IF IsFull(buffer) THEN <<>> ELSE buffer, new)

-----------------------------------------------------------------------------
(***************************************************************************)
(* PacketBuffer::InsertPacketList.  |b| is [buffer, rtp, cng, flushed]:    *)
(* the packets, current_rtp_payload_type, current_cng_rtp_payload_type and *)
(* whether the buffer was emptied on the way.                              *)
(***************************************************************************)
Flushed(b) == [b EXCEPT !.buffer = <<>>, !.flushed = TRUE]

\* A new comfort noise type implies a new codec, not yet known.
MeetCng(b, pt) ==
  LET c == IF b.cng \notin {NoType, pt} THEN [Flushed(b) EXCEPT !.rtp = NoType] ELSE b
  IN  [c EXCEPT !.cng = pt]

\* Faulty variant: a change of codec leaves the packets of the old one behind.
MeetSpeechUnflushed(b, pt) ==
  [b EXCEPT !.rtp = pt, !.cng = IF b.rtp \notin {NoType, pt} THEN NoType ELSE b.cng]

MeetSpeech(b, pt) ==
  LET c == IF b.rtp \notin {NoType, pt} THEN [Flushed(b) EXCEPT !.cng = NoType] ELSE b
  IN  [c EXCEPT !.rtp = pt]

InsertOne(b, p) ==
  LET c == IF p.pt \in CngTypes THEN MeetCng(b, p.pt) ELSE MeetSpeech(b, p.pt)
  IN  [c EXCEPT !.buffer = InsertPacket(@, p), !.flushed = @ \/ IsFull(c.buffer)]

\* A list is one payload, or a primary and a redundant one.
InsertPacketList(b, packets) ==
  IF Len(packets) = 1
    THEN InsertOne(b, packets[1])
    ELSE InsertOne(InsertOne(b, packets[1]), packets[2])

-----------------------------------------------------------------------------
\* NextRtpHeader and GetNextPacket: the oldest packet, and what is left once it
\* and all other payloads of its timestamp are gone.
NextPacket(buffer) == Head(buffer)
WithoutNext(buffer) ==
  LET same == {i \in DOMAIN buffer : \A j \in 1 .. i : buffer[j].ts = Head(buffer).ts}
  IN  SubSeq(buffer, Cardinality(same) + 1, Len(buffer))

\* DiscardAllOldPackets: packets are dropped from the front while they are
\* older than the limit.
DiscardAllOldPackets(buffer, limit) ==
  LET old == {i \in DOMAIN buffer :
                \A j \in 1 .. i : IsNewerTimestamp(limit, buffer[j].ts)}
  IN  SubSeq(buffer, Cardinality(old) + 1, Len(buffer))

\* SplitRed and CheckRedPayloads: the primary payload first, then the
\* redundant one, which is refused when it is of another codec.
SplitRed(primary, redundant) ==
  IF primary.pt \in SpeechTypes /\ redundant.pt \in SpeechTypes \ {primary.pt}
    THEN <<primary>>
    ELSE <<primary, redundant>>
=============================================================================
