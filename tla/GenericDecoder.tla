----------------------------- MODULE GenericDecoder -----------------------------
(* VCMGenericDecoder and VCMDecodedFrameCallback (video_coding/main/source/   *)
(* generic_decoder.cc).  The decode thread notes when a frame is to be        *)
(* rendered in a ring of frame infos and enters a pointer to it in the        *)
(* timestamp map; when the decoder delivers the frame, from the same or from  *)
(* another thread, the callback finds the info by the frame's timestamp.      *)
(* A step is one hold of _critSect, or what runs without it in between.       *)
EXTENDS Integers, Sequences, Functions, TimestampMap

CONSTANT MaxInside      \* bound: frames inside an asynchronous decoder

\* The infos are identified by the timestamp of the frame they were written for.
NoInfo == -1

VARIABLES
  asyncExists,        \* some decoder of the platform delivers asynchronously
  async,              \* the present decoder delivers frames from a thread of its own
  timestampMap,
  frameInfos, nextFrameInfoIdx,
  decode, frame,      \* the decode thread, and the timestamp of its frame
  inside,             \* the frames the decoder has taken and still owes
  late,               \* timestamps of frames that released decoders may still deliver
  callback, info      \* Decoded: "idle" or "delivers", with the info it has found

decoderVars == <<frameInfos, nextFrameInfoIdx, decode, frame>>
callbackVars == <<callback, info>>
vars == <<asyncExists, async, timestampMap, decoderVars, inside, late, callbackVars>>

Init == /\ asyncExists \in BOOLEAN /\ async \in {FALSE, asyncExists}
        /\ timestampMap = NewMap
        /\ frameInfos = [i \in Indices |-> NoInfo] /\ nextFrameInfoIdx = 0
        /\ decode = "idle" /\ frame = 0
        /\ inside = <<>> /\ late = {}
        /\ callback = "idle" /\ info = NULL

-----------------------------------------------------------------------------
\* Faulty variant: the ring of infos is one shorter than the timestamp map.
NextInfoIdxShort(i) == (i + 1) % (kDecoderFrameMemoryLength - 1)
NextInfoIdx(i) == (i + 1) % kDecoderFrameMemoryLength

\* The decode thread is outside Decode.  A synchronous decoder delivers the frame
\* before it returns.
OutsideDecode == decode = "idle" /\ (async \/ (inside = <<>> /\ callback = "idle"))

\* Decode writes the info of the next frame, whose timestamp may be any: after a reset
\* of the jitter buffer they go back, or repeat.
DecodeFrame(timestamp) ==
  /\ OutsideDecode
  /\ frame' = timestamp
  /\ frameInfos' = [frameInfos EXCEPT ![nextFrameInfoIdx] = timestamp]
  /\ decode' = "map"
  /\ UNCHANGED <<asyncExists, async, timestampMap, nextFrameInfoIdx, inside, late,
                 callbackVars>>

\* Map enters it.
MapFrame ==
  /\ decode = "map"
  /\ timestampMap' = Add(timestampMap, frame, [decoder |-> "present", slot |-> nextFrameInfoIdx])
  /\ nextFrameInfoIdx' = NextInfoIdx(nextFrameInfoIdx)
  /\ decode' = "call"
  /\ UNCHANGED <<asyncExists, async, frameInfos, frame, inside, late, callbackVars>>

\* The decoder takes the frame, or returns an error, NO_OUTPUT or REQUEST_SLI, ...
DecoderAccepts ==
  /\ decode = "call" /\ Len(inside) < MaxInside
  /\ inside' = Append(inside, frame)
  /\ decode' = "idle"
  /\ UNCHANGED <<asyncExists, async, timestampMap, frameInfos, nextFrameInfoIdx, frame, late,
                 callbackVars>>

DecoderRefuses ==
  /\ decode = "call"
  /\ decode' = "pop"
  /\ UNCHANGED <<asyncExists, async, timestampMap, frameInfos, nextFrameInfoIdx, frame, inside,
                 late, callbackVars>>

\* Faulty variant: the entry of a frame without output stays in the map.
LeaveEntry ==
  /\ decode = "pop" /\ decode' = "idle"
  /\ UNCHANGED <<asyncExists, async, timestampMap, frameInfos, nextFrameInfoIdx, frame, inside,
                 late, callbackVars>>

\* ... and then its entry is removed, and every older one.
PopFrame ==
  /\ decode = "pop"
  /\ \E k \in 0..Entries(timestampMap) :
       /\ StopsAt(timestampMap, frame, k)
       /\ timestampMap' = Popped(timestampMap, frame, k)
  /\ decode' = "idle"
  /\ UNCHANGED <<asyncExists, async, frameInfos, nextFrameInfoIdx, frame, inside, late,
                 callbackVars>>

\* Decoded: the decoder delivers its oldest frame; without an info it is dropped.
\* The info is used in DeliverFrame, without the lock.
Decoded ==
  /\ inside # <<>> /\ callback = "idle"
  /\ inside' = Tail(inside)
  /\ \E k \in 0..Entries(timestampMap) :
       /\ StopsAt(timestampMap, Head(inside), k)
       /\ timestampMap' = Popped(timestampMap, Head(inside), k)
       /\ info' = PopData(timestampMap, Head(inside), k)
  /\ callback' = IF info' = NULL THEN "idle" ELSE "delivers"
  /\ UNCHANGED <<asyncExists, async, decoderVars, late>>

\* StopDecodeTimer and FrameToRender with the times of the info.
DeliverFrame ==
  /\ callback = "delivers"
  /\ callback' = "idle" /\ info' = NULL
  /\ UNCHANGED <<asyncExists, async, timestampMap, decoderVars, inside, late>>

\* An asynchronous decoder fails to decode a frame it has taken, and says nothing.
DecoderLosesFrame ==
  /\ async /\ inside # <<>> /\ callback = "idle"
  /\ inside' = Tail(inside)
  /\ UNCHANGED <<asyncExists, async, timestampMap, decoderVars, late, callbackVars>>

\* The codec changes: the decoder is released and deleted with its frame infos, and
\* the callback, with its map, goes on with the next one.  An asynchronous decoder is
\* not waited for: what is inside may be delivered afterwards, and a delivery under way
\* goes on with an info that is deleted under it.
Deleted(p) == IF p.decoder = "present" THEN [p EXCEPT !.decoder = "deleted"] ELSE p
SwitchDecoder ==
  /\ OutsideDecode
  /\ async' \in {FALSE, asyncExists}
  /\ timestampMap' = [timestampMap EXCEPT
                        !.map = [i \in Indices |-> [timestamp |-> @[i].timestamp,
                                                     data |-> Deleted(@[i].data)]]]
  /\ frameInfos' = [i \in Indices |-> NoInfo] /\ nextFrameInfoIdx' = 0
  /\ inside' = <<>> /\ late' = late \union Range(inside)
  /\ callback' = "idle" /\ info' = NULL
  /\ UNCHANGED <<asyncExists, decode, frame>>

\* Decoded, called by a decoder that has been released: it takes from the map what it
\* finds under the timestamp, of whichever decoder.  What it does with it is not followed.
DecodedLate(timestamp) ==
  /\ timestamp \in late /\ late' \in {late, late \ {timestamp}}
  /\ \E k \in 0..Entries(timestampMap) :
       /\ StopsAt(timestampMap, timestamp, k)
       /\ timestampMap' = Popped(timestampMap, timestamp, k)
  /\ UNCHANGED <<asyncExists, async, decoderVars, inside, callbackVars>>

Next == \/ \E timestamp \in Timestamps : DecodeFrame(timestamp) \/ DecodedLate(timestamp)
        \/ MapFrame \/ DecoderAccepts \/ DecoderRefuses \/ PopFrame
        \/ Decoded \/ DeliverFrame \/ DecoderLosesFrame \/ SwitchDecoder

Spec == Init /\ [][Next]_vars

-----------------------------------------------------------------------------
\* The info an entry of the map points to is still the one of its own frame, or
\* belongs to a decoder that has been deleted: the ring of infos is not overtaken
\* by Decode, although the oldest entry is only forgotten after the next info has
\* been written (generic_decoder.cc:149, timestamp_map.cc:54).
EntriesPointToOwnInfo ==
  \A k \in 0..(Entries(timestampMap) - 1) :
    LET entry == timestampMap.map[Place(timestampMap, k)]
    IN  entry.data.decoder = "present" => frameInfos[entry.data.slot] = entry.timestamp

\* Where all decoders are synchronous every image the decoder delivers goes to the
\* renderer, with the times of its own frame and not of one a deleted decoder left in
\* the map, whatever frames were refused before, however often the codec changed and
\* wherever the timestamps wrapped, went back or were repeated.
SynchronousIsExact ==
  [][~asyncExists /\ Len(inside') < Len(inside)
       => /\ callback' = "delivers" /\ Head(inside) = frame
          /\ info'.decoder = "present" /\ frameInfos[info'.slot] = frame]_vars
=============================================================================
