---------------------------- MODULE VideoReceiver ----------------------------
(***************************************************************************)
(* The receive side of the video coding module: vcm::VideoReceiver         *)
(* (video_receiver.cc) on VCMReceiver (receiver.cc) on the jitter buffer.  *)
(* Four threads share the jitter buffer:                                   *)
(*                                                                         *)
(*   net   the network thread, in IncomingPacket                           *)
(*   dec   the decode thread, in Decode(max_wait_time)                     *)
(*   proc  the module process thread, in Process                           *)
(*   stop  whoever calls TriggerDecoderShutdown                            *)
(*                                                                         *)
(* One step is one hold of a lock.  What a thread remembers between two    *)
(* holds is in its own variable: the decode thread carries a timestamp     *)
(* from NextCompleteTimestamp to ExtractAndSetDecode, and a frame from     *)
(* there to the decoder.                                                   *)
(*                                                                         *)
(* The network is adversarial: any packet of Stream may arrive at any time *)
(* and any number of times, so loss, duplication and reordering need no    *)
(* actions of their own.  Render timing, a matter of clocks, is a choice.  *)
(* One receive codec is registered.                                        *)
(***************************************************************************)
EXTENDS JitterBuffer

CONSTANT MayStop   \* whether TriggerDecoderShutdown is called

ASSUME StopAssumption == MayStop \in BOOLEAN

VARIABLES
  jb,           \* jitter_buffer_, guarded by its crit_sect_
  frame_event,  \* frame_event_, set or not
  dec,          \* the decode thread: [pc, ts, frame]
  net,          \* the network thread: [pc, running]
  proc,         \* the process thread
  stop,         \* the stopping thread
  schedule,     \* _scheduleKeyRequest
  decoder       \* _decoder != NULL

vars == <<jb, frame_event, dec, net, proc, stop, schedule, decoder>>

\* What the decoder is told of a frame.
NoFrame == [ts |-> 0, type |-> "empty", complete |-> FALSE, missing |-> FALSE]

DecodeIdle == [pc |-> "idle", ts |-> 0, frame |-> NoFrame]
NetIdle    == [pc |-> "idle", running |-> FALSE]

Init ==
  /\ \E nack_mode \in NackModes, error_mode \in DecodeErrorModes :
       jb = Start(InitJitterBuffer(nack_mode, error_mode))
  /\ frame_event = FALSE
  /\ dec = DecodeIdle
  /\ net = NetIdle
  /\ proc = "idle"
  /\ stop = "idle"
  /\ schedule = FALSE
  /\ decoder = FALSE

-----------------------------------------------------------------------------
(* The network thread: IncomingPacket, and after a kFlushIndicator         *)
(* RequestKeyFrame and ResetDecoder.                                       *)
IncomingPacket(p) ==
  /\ net.pc = "idle"
  /\ \E r \in {InsertPacket(jb, p)} :
       /\ jb' = r.jb
       /\ frame_event' = (frame_event \/ r.signal)
       /\ net' = IF r.ret = "kFlushIndicator"
                   THEN [net EXCEPT !.pc = "request"] ELSE net
  /\ UNCHANGED <<dec, proc, stop, schedule, decoder>>

\* The callback may fail, and the request is then not repeated.
NetRequestKeyFrame ==
  /\ net.pc = "request"
  /\ net' = [net EXCEPT !.pc = "lock"]
  /\ schedule' \in {schedule, FALSE}
  /\ UNCHANGED <<jb, frame_event, dec, proc, stop, decoder>>

\* _receiveCritSect is taken and, when there is a decoder, held until
\* ResetJitterBuffer.
LockDecoder ==
  /\ net.pc = "lock"
  /\ dec.pc # "release"
  /\ net' = IF decoder THEN [pc |-> "reset", running |-> jb.running]
                       ELSE NetIdle
  /\ UNCHANGED <<jb, frame_event, dec, proc, stop, schedule, decoder>>

ResetJitterBuffer ==
  /\ net.pc = "reset"
  /\ jb' = IF net.running THEN Flush(jb) ELSE Start(jb)
  /\ net' = [pc |-> "clear", running |-> FALSE]
  /\ UNCHANGED <<frame_event, dec, proc, stop, schedule, decoder>>

ClearKeyRequest ==
  /\ net.pc = "clear"
  /\ schedule' = FALSE
  /\ net' = NetIdle
  /\ UNCHANGED <<jb, frame_event, dec, proc, stop, decoder>>

-----------------------------------------------------------------------------
(* The decode thread: NextCompleteTimestamp, with its wait on frame_event_ *)
DecodeAt(pc, ts) == [pc |-> pc, ts |-> ts, frame |-> NoFrame]

\* The front frame, when it is complete, and otherwise what comes next.
Inspect(b, others) ==
  dec' \in IF FrontComplete(b) THEN {DecodeAt("timing", FrontTs(b))}
                               ELSE {DecodeAt(pc, 0) : pc \in others}

UnchangedByDecoder == UNCHANGED <<net, proc, stop, schedule, decoder>>

NextCompleteTimestamp ==
  /\ dec.pc = "idle"
  /\ IF jb.running
       THEN /\ jb' = CleanUpOldOrEmptyFrames(jb)
            /\ Inspect(jb', {"wait"})
       ELSE jb' = jb /\ dec' = DecodeAt("maybe", 0)
  /\ UNCHANGED frame_event
  /\ UnchangedByDecoder

\* The event resets itself, and a set event wins over a timeout.
WaitSignaled ==
  /\ dec.pc = "wait" /\ frame_event
  /\ dec' = DecodeAt("woken", 0)
  /\ frame_event' = FALSE
  /\ UNCHANGED jb
  /\ UnchangedByDecoder

\* Faulty variant: a wait without a time limit.
WaitNoTimeout == FALSE /\ UNCHANGED vars

WaitTimeout ==
  /\ dec.pc = "wait" /\ ~frame_event
  /\ dec' = DecodeAt("timeout", 0)
  /\ UNCHANGED <<jb, frame_event>>
  /\ UnchangedByDecoder

\* Wait again for the time that is left, or give up when there is none.
Woken ==
  /\ dec.pc = "woken"
  /\ IF jb.running
       THEN /\ jb' = CleanUpOldOrEmptyFrames(jb)
            /\ Inspect(jb', {"wait", "maybe"})
       ELSE jb' = jb /\ dec' = DecodeAt("maybe", 0)
  /\ UNCHANGED frame_event
  /\ UnchangedByDecoder

TimedOut ==
  /\ dec.pc = "timeout"
  /\ Inspect(jb, {"maybe"})
  /\ UNCHANGED <<jb, frame_event>>
  /\ UnchangedByDecoder

NextMaybeIncompleteTimestamp ==
  /\ dec.pc = "maybe"
  /\ IF jb.running /\ jb.error_mode # "kNoErrors"
       THEN /\ jb' = CleanUpOldOrEmptyFrames(jb)
            /\ dec' = IF MaybeIncomplete(jb')
                        THEN DecodeAt("timing", FrontTs(jb')) ELSE DecodeIdle
       ELSE jb' = jb /\ dec' = DecodeIdle
  /\ UNCHANGED frame_event
  /\ UnchangedByDecoder

-----------------------------------------------------------------------------
(* The rest of FrameForDecoding: render timing, then the extraction.       *)
TimingError ==
  /\ dec.pc = "timing"
  /\ jb' = Flush(jb)
  /\ dec' = DecodeIdle
  /\ UNCHANGED frame_event
  /\ UnchangedByDecoder

TooEarly ==
  /\ dec.pc = "timing"
  /\ dec' = DecodeIdle
  /\ UNCHANGED <<jb, frame_event>>
  /\ UnchangedByDecoder

Summary(f, continuous) ==
  [ts |-> f.ts, type |-> f.type, complete |-> f.complete,
   missing |-> ~continuous]

FrameForDecoding ==
  /\ dec.pc = "timing"
  /\ IF jb.running /\ Has(jb, dec.ts)
       THEN /\ jb' = ExtractAndSetDecode(jb, dec.ts)
            /\ dec' = [pc |-> "decode", ts |-> dec.ts,
                       frame |-> Summary(FrameAt(jb, dec.ts),
                                         ExtractedContinuous(jb, dec.ts))]
       ELSE jb' = jb /\ dec' = DecodeIdle
  /\ UNCHANGED frame_event
  /\ UnchangedByDecoder

\* Decode(frame).  The decoder accepts the frame, fails, or fails asking for a
\* slice loss indication instead of a key frame.
DecodeFrame(outcome) ==
  LET damaged == ~dec.frame.complete \/ dec.frame.missing
  IN  /\ dec.pc = "decode"
      /\ net.pc # "reset"
      /\ decoder' = TRUE
      /\ schedule' = \/ schedule
                     \/ outcome = "error"
                     \/ outcome = "ok" /\ damaged
      /\ dec' = DecodeAt("release", 0)
      /\ UNCHANGED <<jb, frame_event, net, proc, stop>>

ReleaseDecodedFrame ==
  /\ dec.pc = "release"
  /\ jb' = ReleaseFrame(jb)
  /\ dec' = DecodeIdle
  /\ UNCHANGED frame_event
  /\ UnchangedByDecoder

-----------------------------------------------------------------------------
(* The process thread.                                                     *)
ProcessStatistics ==
  /\ proc = "idle"
  /\ jb' = CleanUpOldOrEmptyFrames(jb)   \* RenderBufferSize
  /\ UNCHANGED <<frame_event, dec, net, proc, stop, schedule, decoder>>

ProcessKeyRequest ==
  /\ proc = "idle" /\ schedule
  /\ proc' = "request"
  /\ UNCHANGED <<jb, frame_event, dec, net, stop, schedule, decoder>>

ProcessNackList ==
  /\ proc = "idle"
  /\ \E r \in {GetNackList(jb)} :
       /\ jb' = r.jb
       /\ proc' = IF r.request THEN "request" ELSE "idle"
  /\ UNCHANGED <<frame_event, dec, net, stop, schedule, decoder>>

\* Faulty variant: a request that failed is not kept scheduled.
RequestKeyFrameOnce(ok) ==
  /\ proc = "request"
  /\ proc' = IF ok THEN "sent" ELSE "idle"
  /\ schedule' = FALSE
  /\ UNCHANGED <<jb, frame_event, dec, net, stop, decoder>>

\* The callback sends the request or fails.
RequestKeyFrame(ok) ==
  /\ proc = "request"
  /\ proc' = IF ok THEN "sent" ELSE "idle"
  /\ schedule' = (schedule /\ ~ok)
  /\ UNCHANGED <<jb, frame_event, dec, net, stop, decoder>>

RequestReturns ==
  /\ proc = "sent"
  /\ proc' = "idle"
  /\ UNCHANGED <<jb, frame_event, dec, net, stop, schedule, decoder>>

-----------------------------------------------------------------------------
(* TriggerDecoderShutdown: Stop under the lock, then the wake-up.          *)
StopJitterBuffer ==
  /\ MayStop /\ stop = "idle" /\ jb.running
  /\ jb' = StopLocked(jb)
  /\ stop' = "signal"
  /\ UNCHANGED <<frame_event, dec, net, proc, schedule, decoder>>

\* Faulty variant: nobody is woken.
StopSilently ==
  /\ stop = "signal"
  /\ stop' = "idle"
  /\ UNCHANGED <<jb, frame_event, dec, net, proc, schedule, decoder>>

SignalStop ==
  /\ stop = "signal"
  /\ frame_event' = TRUE
  /\ stop' = "idle"
  /\ UNCHANGED <<jb, dec, net, proc, schedule, decoder>>

-----------------------------------------------------------------------------
(* The application changes the protection while the others run.            *)
\* SetVideoProtection changes the two modes in separate holds of the lock.
SetNackMode(mode) ==
  /\ jb' = SelectNackMode(jb, mode)
  /\ UNCHANGED <<frame_event, dec, net, proc, stop, schedule, decoder>>

SetDecodeErrorMode(mode) ==
  /\ jb' = SelectDecodeErrorMode(jb, mode)
  /\ UNCHANGED <<frame_event, dec, net, proc, stop, schedule, decoder>>

-----------------------------------------------------------------------------
DecodeThread ==
  \/ NextCompleteTimestamp \/ WaitSignaled \/ WaitTimeout \/ Woken
  \/ TimedOut \/ NextMaybeIncompleteTimestamp
  \/ TimingError \/ TooEarly \/ FrameForDecoding
  \/ \E outcome \in {"ok", "error", "sli"} : DecodeFrame(outcome)
  \/ ReleaseDecodedFrame

NetworkThread ==
  \/ \E p \in Stream : IncomingPacket(p)
  \/ NetRequestKeyFrame \/ LockDecoder \/ ResetJitterBuffer \/ ClearKeyRequest

ProcessThread ==
  \/ ProcessStatistics \/ ProcessKeyRequest \/ ProcessNackList
  \/ \E ok \in BOOLEAN : RequestKeyFrame(ok)
  \/ RequestReturns

Shutdown == StopJitterBuffer \/ SignalStop

SetProtection ==
  \/ \E mode \in NackModes : SetNackMode(mode)
  \/ \E mode \in DecodeErrorModes : SetDecodeErrorMode(mode)

Next ==
  DecodeThread \/ NetworkThread \/ ProcessThread \/ Shutdown \/ SetProtection

Spec == Init /\ [][Next]_vars

-----------------------------------------------------------------------------
(* Types.                                                                  *)
DecodePcs == {"idle", "wait", "woken", "timeout", "maybe", "timing", "decode",
              "release"}
NetPcs    == {"idle", "request", "lock", "reset", "clear"}

Summaries == [ts : Timestamps, type : FrameTypes, complete : BOOLEAN,
              missing : BOOLEAN]

\* Every variable has its type.  For the jitter buffer this includes that no
\* frame is in both lists or under a timestamp that is not its own, and that
\* every frame in a list has a sequence number: the assertions of
\* EstimatedLowSequenceNumber and VCMDecodingState::SetState.
TypeOK ==
  /\ IsJitterBuffer(jb)
  /\ frame_event \in BOOLEAN
  /\ dec \in [pc : DecodePcs, ts : Timestamps, frame : Summaries]
  /\ net \in [pc : NetPcs, running : BOOLEAN]
  /\ proc \in {"idle", "request", "sent"}
  /\ stop \in {"idle", "signal"}
  /\ schedule \in BOOLEAN
  /\ decoder \in BOOLEAN

-----------------------------------------------------------------------------
(* The frame buffer pool.                                                  *)
HeldByDecoder == IF dec.pc \in {"decode", "release"} THEN 1 ELSE 0

\* Every buffer that was ever allocated is in exactly one place: the free list,
\* one of the two frame lists, or the decode thread's hands.  No path of
\* InsertPacket, recycling, flushing or releasing loses a buffer or returns one
\* twice, and the pool grows only up to kMaxNumberOfFrames.
FramePoolConserved ==
  /\ Buffers(jb) + HeldByDecoder = jb.allocated
  /\ jb.allocated \in kStartNumberOfFrames .. kMaxNumberOfFrames

\* assert(*frame) in GetFrame: when no buffer is free and none can be
\* allocated, recycling frees one, whatever the other threads hold.
RecyclingYieldsFrame ==
  ~HasEmptyFrame(jb) => RecycleFramesUntilKeyFrame(jb).jb.free > 0

-----------------------------------------------------------------------------
(* The NACK list.                                                          *)
BufferedSeqs ==
  UNION {{f.packets[i].seq : i \in DOMAIN f.packets} : f \in Lists(jb)}

\* The sequence numbers of the packets under way are within half a circle, so
\* that IsNewerSequenceNumber orders them: an assumption on the network.
StreamInHalf ==
  \E base \in SeqNums :
    \A p \in Stream : Distance(p.seq, base, SeqHalf) < SeqHalf

\* So are the timestamps, and the sender numbers the packets of a later frame
\* higher.
StreamOrdered ==
  /\ StreamInHalf
  /\ \E base \in Timestamps :
       \A p \in Stream : Distance(p.ts, base, TsHalf) < TsHalf
  /\ \A p, q \in Stream :
       IsNewerTimestamp(p.ts, q.ts) => IsNewerSequenceNumber(p.seq, q.seq)

\* The list of sequence numbers to be retransmitted stays within both limits
\* of SetNackSettings, however packets, decoding, recycling and flushes
\* interleave.
NackListBounded ==
  /\ Cardinality(jb.missing) <= MaxNackListSize
  /\ \A m \in jb.missing :
       Distance(jb.latest, m, SeqHalf) <= MaxPacketAgeToNack

\* No packet is asked for that is already in a frame of either list.
NackedPacketsAreMissing == jb.missing \cap BufferedSeqs = {}

-----------------------------------------------------------------------------
(* What the decoder is given.                                              *)
Extracting == dec.pc = "timing" /\ dec'.pc = "decode"

\* Between two resets of the decoding state, frames reach the decoder in
\* timestamp order and none twice, even though ExtractAndSetDecode looks up a
\* timestamp read in an earlier hold of the lock.
DecodedInOrder ==
  [][Extracting /\ ~jb.last.initial
       => IsNewerTimestamp(dec.ts, jb.last.ts)]_vars

\* video_coding.h, kNoErrors: never decode with errors.
NeverDecodeWithErrors ==
  [][Extracting /\ jb.error_mode = "kNoErrors" => dec'.frame.complete]_vars

-----------------------------------------------------------------------------
(* Waiting and waking up.                                                  *)
\* A decode thread that waits on a stopped jitter buffer is about to be woken:
\* the event is set, or Stop has yet to set it.
ShutdownWakesDecoder ==
  dec.pc = "wait" /\ ~jb.running => frame_event \/ stop = "signal"

\* Threads run.  A lock or a callback that is tried again and again is got
\* (strong fairness), and a frame is too early only for so long.
Fairness ==
  /\ WF_vars(DecodeThread)
  /\ SF_vars(FrameForDecoding)
  /\ SF_vars(\E outcome \in {"ok", "error", "sli"} : DecodeFrame(outcome))
  /\ WF_vars(NetRequestKeyFrame \/ ResetJitterBuffer \/ ClearKeyRequest)
  /\ SF_vars(LockDecoder)
  /\ SF_vars(ProcessKeyRequest)
  /\ SF_vars(RequestKeyFrame(TRUE))
  /\ WF_vars(RequestReturns)
  /\ WF_vars(SignalStop)

FairSpec == Spec /\ Fairness

MediaTs == {p.ts : p \in {q \in Stream : q.type # "empty"}}

AtFront(ts) == jb.running /\ FrontComplete(jb) /\ FrontTs(jb) = ts

\* A complete frame at the front of decodable_frames_ does not stay there: it
\* is decoded, or dropped by a flush, a recycling or a stop.  This does not
\* depend on frame_event_.
ReadyFrameLeaves == \A ts \in MediaTs : AtFront(ts) ~> ~AtFront(ts)

\* A key frame request that decoding has scheduled is sent, also when the
\* callback fails at first, however flushes, resets and a stop come in between;
\* or the decoder is reset after a flush, for which IncomingPacket has made a
\* request of its own.  (That one is not repeated when it fails, and ResetDecoder
\* drops what was scheduled.)
KeyRequestSent == schedule ~> (proc = "sent" \/ net.pc = "clear")
=============================================================================
