--------------------------- MODULE AudioReceiver ---------------------------
(***************************************************************************)
(* The audio receiver (audio_coding/main/acm2/acm_receiver.cc) between the *)
(* network thread, which inserts packets, the playout thread, which pulls  *)
(* 10 ms of audio at a time, and the application, which turns NACK on and  *)
(* off and flushes.  NACK is kept under the receiver's crit_sect_, the     *)
(* packets under NetEq's own; InsertPacket holds the first, lets go, and   *)
(* then takes the second.                                                  *)
(*                                                                         *)
(* Of NetEq the packet buffer and the extraction of packets are modelled.  *)
(* Its decision logic, which weighs the delay, is a free choice: when to   *)
(* extract, how much, and which packets at the front are too old.          *)
(***************************************************************************)
EXTENDS PacketBuffer, AudioNack

CONSTANTS StereoTypes, \* payload types of audio codecs with more than one channel
          UnknownTypes,\* payload types the receiver has no decoder for
          Starts,      \* possible first sequence numbers of the stream
          MaxSent,     \* number of packets of the stream
          MaxSwitches, \* bound on the sender's changes of payload type
          Reorder,     \* a packet arrives at most this many places late
          MaxExtract,  \* bound on the packets one call of GetAudio decodes
          MaxSilence,  \* bound on the calls of GetAudio before audio arrives
          Nobody       \* no packet is being inserted

ASSUME TypesAssumption ==
  /\ StereoTypes \subseteq SpeechTypes
  /\ UnknownTypes \cap (PayloadTypes \cup {RedType, NoType}) = {}
ASSUME BoundsAssumption ==
  /\ Starts \subseteq SeqNums \cap Timestamps
  /\ MaxSent \in 1 .. SeqHalf - 2
  /\ MaxSent \in 1 .. TsHalf - 2
  /\ MaxSwitches \in Nat /\ Reorder \in Nat \ {0} /\ MaxExtract \in Nat \ {0}
  /\ MaxSilence \in Nat

VARIABLES
  start,      \* sequence number and timestamp of the first packet
  sent,       \* payload types of the packets of the stream
  red,        \* the sender repeats each payload in the next packet
  newest,     \* newest packet that has arrived
  inserting,  \* the packet InsertPacket holds between its two locks
  nackOn,     \* nack_enabled_
  nack,       \* nack_ (meaningful while nackOn)
  codec,      \* last_audio_decoder_
  neteq,      \* [buffer, rtp, cng, flushed] of PacketBuffer
  firstPacket,\* first_packet_: NetEq starts anew with the next packet
  newCodec,   \* new_codec_
  decoded,    \* decoded_packet_sequence_number_ and _timestamp_
  heard,      \* numbers NACK was told of since it was created or reset
  first       \* the first of them

sender == <<start, sent, red>>  \* never changes
acm    == <<nackOn, nack, codec, heard, first>>
net    == <<neteq, firstPacket, newCodec, decoded>>
vars   == <<sender, newest, inserting, acm, net>>

\* No number yet.
None == -1

Streams ==
  {s \in [1 .. MaxSent -> PayloadTypes \cup UnknownTypes] :
     Cardinality({i \in 2 .. MaxSent : s[i] # s[i - 1]}) <= MaxSwitches}

Init ==
  /\ start \in Starts
  /\ sent \in Streams
  /\ newest = 0
  /\ red \in BOOLEAN
  /\ inserting = Nobody
  /\ nackOn = FALSE
  /\ nack = NewNack(Min(ListSizes))
  /\ codec = NoType
  /\ neteq = [buffer |-> <<>>, rtp |-> NoType, cng |-> NoType, flushed |-> FALSE]
  /\ firstPacket = TRUE
  /\ newCodec = FALSE
  /\ decoded = [seq |-> None, ts |-> 0]
  /\ heard = {}
  /\ first = None

-----------------------------------------------------------------------------
(***************************************************************************)
(* The network: packet i of the stream holds 10 ms; packets are lost,      *)
(* repeated, and overtaken by at most Reorder later ones.                  *)
(***************************************************************************)
CanArrive == {i \in 1 .. MaxSent : i > newest - Reorder}

SeqNumberOf(i) == (start + i - 1) % (2 * SeqHalf)
TimestampOf(i) == (start + i - 1) % (2 * TsHalf)

Payload(i) == [seq |-> SeqNumberOf(i), ts |-> TimestampOf(i), pt |-> sent[i], primary |-> TRUE]
Redundant(i) == [seq |-> SeqNumberOf(i), ts |-> TimestampOf(i - 1), pt |-> sent[i - 1], primary |-> FALSE]
HasRedundant(i) == red /\ i > 1

\* RtpHeaderToDecoder: a RED packet is judged by its first block, which is the
\* redundant one.
DecoderOf(i) == IF HasRedundant(i) THEN sent[i - 1] ELSE sent[i]

-----------------------------------------------------------------------------
(***************************************************************************)
(* AcmReceiver::InsertPacket under crit_sect_: a packet without a decoder  *)
(* is refused, comfort noise is skipped while the audio is not mono, and   *)
(* NACK is told of neither.  A change of the speech codec resets NACK; any *)
(* other packet, comfort noise too, is reported to it.                     *)
(***************************************************************************)
Unreported(i) ==
  DecoderOf(i) \in UnknownTypes \/ (DecoderOf(i) \in CngTypes /\ codec \in StereoTypes)

AcmDrops(i) ==
  /\ inserting = Nobody /\ Unreported(i)
  /\ newest' = IF i > newest THEN i ELSE newest
  /\ UNCHANGED <<sender, inserting, acm, net>>

IsNewDecoder(i) == DecoderOf(i) \in SpeechTypes /\ DecoderOf(i) # codec

AcmInsert(i) ==
  LET fresh == IF IsNewDecoder(i) THEN Reset(nack) ELSE nack
  IN  /\ inserting = Nobody /\ ~Unreported(i)
      /\ inserting' = i
      /\ newest' = IF i > newest THEN i ELSE newest
      /\ codec' = IF IsNewDecoder(i) THEN DecoderOf(i) ELSE codec
      /\ IF nackOn
           THEN /\ nack' = UpdateLastReceivedPacket(fresh, SeqNumberOf(i), TimestampOf(i))
                /\ heard' = {SeqNumberOf(i)} \cup (IF IsNewDecoder(i) THEN {} ELSE heard)
                /\ first' = IF fresh.anyReceived THEN first ELSE SeqNumberOf(i)
           ELSE UNCHANGED <<nack, heard, first>>
      /\ UNCHANGED <<sender, nackOn, net>>

(***************************************************************************)
(* NetEqImpl::InsertPacketInternal: the first packet empties the buffer    *)
(* and sets the payload type (that of RED itself for a RED packet); then   *)
(* the payloads are split and inserted, if there is a decoder for each:    *)
(* that for the first block of a RED packet is all the receiver looks at.  *)
(***************************************************************************)
Arrived(i) ==
  IF HasRedundant(i) THEN SplitRed(Payload(i), Redundant(i)) ELSE <<Payload(i)>>

Reinitialized(b, i) ==
  [b EXCEPT !.buffer = <<>>, !.rtp = IF HasRedundant(i) THEN RedType ELSE sent[i]]

Insertion ==
  LET b == IF firstPacket THEN Reinitialized(neteq, inserting) ELSE neteq
  IN  InsertPacketList(b, Arrived(inserting))

NetEqInsert ==
  /\ inserting # Nobody /\ sent[inserting] \notin UnknownTypes
  /\ neteq' = [Insertion EXCEPT !.flushed = FALSE]
  /\ newCodec' = (newCodec \/ Insertion.flushed \/ firstPacket)
  /\ firstPacket' = FALSE
  /\ inserting' = Nobody
  /\ UNCHANGED <<sender, newest, acm, decoded>>

\* CheckPayloadTypes fails, after the buffer has been emptied.
NetEqRefuses ==
  /\ inserting # Nobody /\ sent[inserting] \in UnknownTypes
  /\ neteq' = IF firstPacket THEN Reinitialized(neteq, inserting) ELSE neteq
  /\ inserting' = Nobody
  /\ UNCHANGED <<sender, newest, acm, firstPacket, newCodec, decoded>>

-----------------------------------------------------------------------------
(***************************************************************************)
(* AcmReceiver::GetAudio, in one hold of crit_sect_.                       *)
(***************************************************************************)

\* GetDecision first drops packets too old for the end of the audio already
\* decoded; how far that end has come is left open.  Until a new codec has
\* started only comfort noise is dropped.
Discarded(buffer) ==
  {SubSeq(buffer, k + 1, Len(buffer)) :
     k \in {k \in 0 .. Len(buffer) :
             newCodec => \A j \in 1 .. k : buffer[j].pt \in CngTypes}}

\* ExtractPackets goes on to the next packet only if it continues the last: the
\* next number, or the next part of the same datagram.  |from| is the first
\* packet extracted, |prev| the number remembered.
Continues(next, from, prev) ==
  /\ next.pt = from.pt
  /\ \/ SeqMinus(next.seq, prev) = 1
     \/ next.seq = prev /\ TsMinus(next.ts, from.ts) = 1

\* The packets GetNextPacket would return one after another.
Heads(buffer) == {i \in DOMAIN buffer : i = 1 \/ buffer[i].ts # buffer[i - 1].ts}

\* The last of the up to n packets that one call extracts.
LastExtracted(buffer, n) ==
  LET before(i) == Max({h \in Heads(buffer) : h < i})
      chain == {i \in Heads(buffer) : \A h \in Heads(buffer) \cap 2 .. i :
                  Continues(buffer[h], Head(buffer), buffer[before(h)].seq)}
  IN  Max({i \in chain : Cardinality(Heads(buffer) \cap 1 .. i) <= n})

\* What the buffer holds after that call.
AfterExtraction(buffer, n) ==
  LET last == LastExtracted(buffer, n)
  IN  DiscardAllOldPackets(WithoutNext(SubSeq(buffer, last, Len(buffer))),
                           buffer[last].ts)

\* Extraction, which ends the wait for a new codec ...
PlaysPackets(buffer) ==
  /\ buffer # <<>>
  /\ \E n \in 1 .. MaxExtract : neteq' = [neteq EXCEPT !.buffer = AfterExtraction(buffer, n)]
  /\ decoded' = [seq |-> NextPacket(buffer).seq, ts |-> NextPacket(buffer).ts]
  /\ newCodec' = FALSE

\* ... or audio made up from what was decoded before.
PlaysWithoutPackets(buffer) ==
  /\ neteq' = [neteq EXCEPT !.buffer = buffer]
  /\ UNCHANGED <<decoded, newCodec>>

\* DecodedRtpInfo returns 0 when it has a packet to report and -1 when not;
\* the receiver takes the result for a truth value.
DecodedRtpInfo(d) == IF d.seq < 0 THEN -1 ELSE 0
UpdatesNack(d) == nackOn /\ DecodedRtpInfo(d) # 0

\* The variables passed to DecodedRtpInfo keep their initial 0 when it fails.
ReportDecoded(d) ==
  IF UpdatesNack(d)
    THEN nack' \in IF d.seq < 0 THEN UpdateLastDecodedPacket(nack, 0, 0)
                    ELSE UpdateLastDecodedPacket(nack, d.seq, d.ts)
    ELSE UNCHANGED nack

GetAudio ==
  /\ \E buffer \in Discarded(neteq.buffer) :
       PlaysPackets(buffer) \/ PlaysWithoutPackets(buffer)
  /\ UpdatesNack(decoded') /\ nack.anyDecoded => nack.lastDecodedTs < MaxSilence
  /\ ReportDecoded(decoded')
  /\ UNCHANGED <<sender, newest, inserting, nackOn, codec, heard, first, firstPacket>>

\* With a new codec announced and no packet left there is nothing to play:
\* GetAudio fails and NACK is not told.
GetAudioFails ==
  /\ newCodec
  /\ <<>> \in Discarded(neteq.buffer)
  /\ neteq' = [neteq EXCEPT !.buffer = <<>>]
  /\ UNCHANGED <<sender, newest, inserting, acm, firstPacket, newCodec, decoded>>

-----------------------------------------------------------------------------
(* The application. *)

EnableNack(size) ==
  /\ nackOn' = TRUE
  /\ nack' = SetMaxNackListSize(IF nackOn THEN nack ELSE NewNack(size), size)
  /\ heard' = IF nackOn THEN heard ELSE {}
  /\ first' = IF nackOn THEN first ELSE None
  /\ UNCHANGED <<sender, newest, inserting, codec, net>>

DisableNack ==
  /\ nackOn' = FALSE
  /\ nack' = NewNack(Min(ListSizes))
  /\ heard' = {}
  /\ first' = None
  /\ UNCHANGED <<sender, newest, inserting, codec, net>>

FlushBuffers ==
  /\ neteq' = [neteq EXCEPT !.buffer = <<>>]
  /\ firstPacket' = TRUE
  /\ UNCHANGED <<sender, newest, inserting, acm, newCodec, decoded>>

Next ==
  \/ \E i \in CanArrive : AcmInsert(i) \/ AcmDrops(i)
  \/ NetEqInsert
  \/ NetEqRefuses
  \/ GetAudio
  \/ GetAudioFails
  \/ \E size \in ListSizes : EnableNack(size)
  \/ DisableNack
  \/ FlushBuffers

Spec == Init /\ [][Next]_vars

-----------------------------------------------------------------------------
(* The packet buffer never holds two payloads of one timestamp, never puts a  *)
(* later one before an earlier one, and never exceeds its capacity, whatever  *)
(* order primary and redundant payloads arrive in (the assertion              *)
(* discards == 0 in PacketBuffer::GetNextPacket; the drop and the replacement *)
(* in PacketBuffer::InsertPacket).                                            *)
BufferOrdered ==
  /\ Len(neteq.buffer) <= MaxPackets
  /\ \A i, j \in DOMAIN neteq.buffer :
       i < j => IsNewerTimestamp(neteq.buffer[j].ts, neteq.buffer[i].ts)

(* Packets of two codecs are never in the buffer together: a change of the    *)
(* speech or the comfort noise type empties it first                          *)
(* (PacketBuffer::InsertPacketList).                                          *)
BufferOfOneCodec ==
  \A i \in DOMAIN neteq.buffer : neteq.buffer[i].pt \in {neteq.rtp, neteq.cng}

(* A redundant payload never takes the place of the primary payload of its    *)
(* timestamp: unless the insertion empties the buffer, every primary payload  *)
(* in it stays (Packet::operator<, InsertPacket).  Emptying is no rare case:  *)
(* a redundant payload that would only be dropped empties a full buffer too.  *)
PrimaryStays ==
  [][NetEqInsert /\ ~Insertion.flushed /\ ~firstPacket =>
       \A i \in DOMAIN neteq.buffer : neteq.buffer[i].primary =>
         \E j \in DOMAIN neteq'.buffer :
           neteq'.buffer[j].ts = neteq.buffer[i].ts /\ neteq'.buffer[j].primary]_vars

(* Whatever is on the NACK list is worth asking for as far as NACK can know:  *)
(* it has not been told of the packet since it was enabled or reset, in       *)
(* whatever order packets came, and with N the last one it was told of,       *)
(* nothing is earlier than N minus the maximal size, also right after the     *)
(* size was changed (Nack::UpdateLastReceivedPacket,                          *)
(* Nack::LimitNackListSize; nack.h on SetMaxNackListSize).  It says nothing   *)
(* of the packets AcmDrops passes over: NACK, never told of them, lists them. *)
ListedIsWanted ==
  nackOn => \A n \in Numbers(nack) :
    /\ n \notin heard
    /\ IsNewerSequenceNumber(nack.lastReceived, n)
    /\ SeqMinus(nack.lastReceived, n) <= nack.maxSize

(* A listed packet is missing, and not merely late, exactly when a packet     *)
(* more than NackThreshold numbers newer was reported (nack.h on late and     *)
(* missing packets; Nack::ChangeFromLateToMissing and AddToList).             *)
MissingIsLate ==
  nackOn => \A n \in Numbers(nack) :
    nack.list[n].missing <=> SeqMinus(nack.lastReceived, n) > NackThreshold

(* Until NACK is told of a decoded packet, every number skipped since its     *)
(* first packet is on the list, unless its packet was reported or is older    *)
(* than the smallest list size in use (Nack::UpdateList, AddToList).          *)
LossNoticed ==
  nackOn /\ nack.anyReceived /\ ~nack.anyDecoded =>
    \A n \in SeqNums \ heard :
      /\ IsNewerSequenceNumber(n, first)
      /\ IsNewerSequenceNumber(nack.lastReceived, n)
      /\ SeqMinus(nack.lastReceived, n) <= Min(ListSizes)
      => n \in Numbers(nack)

(* After audio was pulled, no packet as old as the one NetEq decoded last is  *)
(* still on the NACK list: it would be discarded if it arrived                *)
(* (the comment in Nack::UpdateLastDecodedPacket; nack.h asks for that call   *)
(* "every time 10 ms audio is pulled from NetEq").  The code violates it:     *)
(* GetAudio misreads the result of DecodedRtpInfo.                            *)
PlayedNotNacked ==
  [][GetAudio /\ nackOn /\ decoded'.seq >= 0
       => \A n \in Numbers(nack') : IsNewerSequenceNumber(n, decoded'.seq)]_vars
=============================================================================
