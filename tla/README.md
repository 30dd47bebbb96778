# Verification of the receive path and its threads

This directory holds TLA+ specifications of the parts of the repository that
turn received packets into frames and audio: the video receive path from packets
to the renderer, the audio receiver with NetEq's packet buffer, and the threads,
locks and timers they run on. TLC checks the specifications on small instances;
TLAPS proves the most important invariants for every value of the constants.

## 1. The system

The repository is a library extracted from WebRTC (audio processing, audio and
video devices, codecs). Its parts, and what happens to them here:

| Component | State | Operations | Here |
|---|---|---|---|
| Sequence numbers (`interface/module_common_types.h`) | none | wrapping comparisons | `SequenceNumbers` |
| Frame buffer, session info (`frame_buffer.cc`, `session_info.cc`) | packets of one frame, boundaries, frame state | InsertPacket, Reset, PrepareForDecode | `FrameBuffer`, `FrameAssembly` |
| Decoding state (`decoding_state.cc`) | sequence number, timestamp, picture id, layers of the last decoded frame | SetState, UpdateEmptyFrame, UpdateOldPacket, ContinuousFrame | `DecodingState` |
| Jitter buffer (`jitter_buffer.cc`) | frame pool, decodable and incomplete frames, NACK list, modes | InsertPacket, NextCompleteTimestamp, NextMaybeIncompleteTimestamp, ExtractAndSetDecode, ReleaseFrame, GetNackList, SetNackMode, SetDecodeErrorMode, Start, Stop, Flush | `JitterBuffer`, `JitterBufferLoops` |
| Receiver, video receiver (`receiver.cc`, `video_receiver.cc`) | decoder, scheduled key frame request | IncomingPacket, Decode, Process, ResetDecoder, SetVideoProtection, TriggerDecoderShutdown | `VideoReceiver` |
| Generic decoder, timestamp map (`generic_decoder.cc`, `timestamp_map.cc`, and the change of codec in `codec_database.cc`) | ring of frame infos, ring of timestamps | Decode, Map, Pop, Decoded | `TimestampMap`, `GenericDecoder` |
| Incoming video stream (`common_video/incoming_video_stream.cc`, `video_render_frames.cc`) | queue of frames to be rendered, two threads, callbacks | RenderFrame, Start, Stop, Reset, SetRenderCallback, IncomingVideoStreamProcess | `IncomingVideoStream` |
| Events (`event_timer_posix.cc`) | event flag, timer and its thread | Set, Wait, StartTimer, StopTimer, Process | `EventTimer` (as part of `IncomingVideoStream`; Set and Wait also in `VideoReceiver`) |
| Locks (`rw_lock_generic.cc`, `condition_variable_event_win.cc`) | counters of holders and waiters, events | acquire and release; SleepCS, Wake, WakeAll | `ConditionVariableEventWin`, `RWLockGeneric`, `ReadersWriters` |
| Threads (`thread_posix.cc`) | stop event | Run, Stop | in `IncomingVideoStream` |
| Process thread (`process_thread_impl.cc`) | modules, tasks | Start, Stop, RegisterModule, DeRegisterModule, WakeUp, PostTask, Process | `ProcessThread` |
| NetEq (`packet_buffer.cc`, `packet.h`, `payload_splitter.cc`, parts of `neteq_impl.cc`) | packet buffer, payload types in use | InsertPacket, extraction in GetAudio, FlushBuffers, DecodedRtpInfo | `PacketBuffer`, `AudioReceiver` |
| Audio receiver (`acm_receiver.cc`, `nack.cc`) | NACK list, current codec | InsertPacket, GetAudio, EnableNack, DisableNack, FlushBuffers | `AudioNack`, `AudioReceiver` |
| Timing, jitter estimation, media optimization, video sender | filters over clock times and rates | | not modelled |
| Codecs, audio processing | | | not modelled |
| Capture, platform renderers, audio device, media files, `base/` | | | not modelled |

**Interaction.** The network thread calls `IncomingPacket`, which inserts into the
jitter buffer; on a flush indication it requests a key frame and resets the
decoder. The decode thread calls `Decode`: it waits on `frame_event_` for a
complete frame, reads its timestamp, waits until it is time to render, extracts
the frame, decodes it and gives the buffer back. The decoder delivers images, on
the same or on a thread of its own, to `VCMDecodedFrameCallback`, which finds
their render time through the timestamp map; they end in the queue of
`IncomingVideoStream`, whose render thread is driven by an event timer. The
process thread calls `Process` of the registered modules, the video receiver
among them, on timers: statistics (which clean up the jitter buffer), key frame
requests, NACK lists. The application stops, restarts and reconfigures all of
it at any time. For audio, the network thread passes each packet first to the
NACK list (under the receiver's lock) and then to NetEq (under NetEq's), and the
playout thread pulls audio.

**What is hard here.** The decode thread holds the jitter buffer lock three times
for one frame and carries a timestamp between the holds. Packets are lost,
duplicated and reordered, and their numbers wrap. Frame buffers move between a
pool, two lists and two threads on more than a dozen paths. Limits (packets per
frame, frames in the pool, the rings, the packet buffer, size and age of both
NACK lists) trigger recycling and flushes in the middle of an insertion. Events
remember one signal only, and are set after the lock was left. Stop waits for
threads that need the locks it holds. Pointers to infos, callbacks and modules
outlive the lock under which they were found. `PROJECT.json` lists these hazards
at their lines, with the properties that cover them.

## 2. The modules

Definitions whose comment says *Faulty variant* are plausible errors in the
definition that follows them. No specification uses them; each makes TLC find
the property it is paired with in `PROJECT.json` violated.

### The video receive path

`SequenceNumbers` - `FrameBuffer` - `DecodingState` - `JitterBuffer` -
`VideoReceiver` extend one another in this order, as the classes use one another.

* **SequenceNumbers**: the comparisons, on circles whose half is a constant
  (`0x8000`, `0x80000000` in the code).
* **FrameBuffer**: a frame is a record; each method is an operator from frames to
  frames. A packet is a record of what a `VCMPacket` says about itself.
  `DecodablePacketCounts` stands for the thresholds, computed from a running
  average and the round trip time, of `UpdateDecodableSession`.
* **FrameAssembly**: a specification around one frame buffer between two resets.
* **DecodingState**: `VCMDecodingState`, all of it.
* **JitterBuffer**: the state under `crit_sect_` as a record, each method that
  runs inside one hold of the lock as an operator. Buffers are interchangeable,
  so the free list is a number. The loops that recycle frames until the NACK list
  is within its limits, and the loop that cleans up old and empty frames, are
  given in closed form; `JitterBufferLoops` states them as loops and checks that
  the two agree.
* **VideoReceiver**: the threads. One step is one hold of a lock.

  | Action | Code |
  |---|---|
  | IncomingPacket | `VideoReceiver::IncomingPacket`, `VCMReceiver::InsertPacket`, `VCMJitterBuffer::InsertPacket` |
  | NetRequestKeyFrame, LockDecoder, ResetJitterBuffer, ClearKeyRequest | the flush path: `RequestKeyFrame`, `ResetDecoder` and in it `VCMReceiver::Reset` |
  | NextCompleteTimestamp, WaitSignaled, WaitTimeout, Woken, TimedOut | `VCMJitterBuffer::NextCompleteTimestamp` around its wait |
  | NextMaybeIncompleteTimestamp | the method of that name |
  | TimingError, TooEarly, FrameForDecoding | `VCMReceiver::FrameForDecoding` after a timestamp was found |
  | DecodeFrame, ReleaseDecodedFrame | `VideoReceiver::Decode`, under `_receiveCritSect` |
  | ProcessStatistics, ProcessKeyRequest, ProcessNackList, RequestKeyFrame, RequestReturns | the three timers of `Process` |
  | SetNackMode, SetDecodeErrorMode | `SetVideoProtection`, which changes the modes in separate holds of the lock |
  | StopJitterBuffer, SignalStop | `TriggerDecoderShutdown`, `VCMJitterBuffer::Stop` |

  The network is the set `Stream`: any of its packets may arrive at any time, any
  number of times, or never. Render timing is a choice among its three outcomes.
  The decoder is external: it accepts a frame, fails, or fails asking for a slice
  loss indication.
* **MCVideoReceiver**, **MCFrameAssembly**: streams of packets for TLC.

Abstractions: no payload bytes, so neither the byte limit of a frame nor NALU
and partition handling; no VP9 (its branch in InsertPacket rewrites layer
information from a table); no jitter estimation or statistics; the limits of the
NACK list are constants; one registered receive codec. A padding packet whose
frame `InsertPacket` drops at once makes the code return `kNoError` where the
model has `kIncomplete`; no caller tells them apart.

### From the decoder to the renderer

* **TimestampMap**: the ring of timestamps as a record. `StopsAt` says how far
  the loop of `Pop` gets; it compares without regard to the wrap, as the code does.
* **GenericDecoder**: `Decode` in the steps its lock divides it into (the info is
  written, `Map`, the call of the decoder, `Pop` after a refusal), `Decoded`, which
  uses the info after leaving the lock, and the change of codec, which deletes the
  decoder and its infos but not the map. Timestamps are arbitrary: after a reset of
  the jitter buffer they go back or repeat. An asynchronous decoder delivers in order
  from a thread of its own and may lose frames. The change of codec does not wait for it:
  the frames inside may be delivered afterwards, any number of times (`DecodedLate`),
  and take away entries of the next decoder. A delivery under way when its
  infos are deleted, and the use a late delivery makes of the info it finds, are not
  followed further; the second could be one of a deleted decoder. No property is about these
  two, and `PROJECT.json` lists the hazard as not covered.
* **EventTimer**, **IncomingVideoStream**: the stream's `running_`, callbacks,
  queue, and where the application, the render thread and the timer thread are.
  The critical sections are the predicates `StreamFree` and `ThreadFree`, because
  Stop holds them across several steps, and so does the render thread. Start, Stop
  and its waits (`StopTimerThread`, `JoinTimerThread`, `JoinRenderThread`),
  SetCallback, Reset, RenderFrame are the methods; RenderWait to RenderLoop are
  `IncomingVideoStreamProcess` in `ThreadPosix::Run`, TimerPeriod to TimerLoop are
  `EventTimerPosix::Process` in the same loop. `due` is the clock.

### Threads and locks

* **ReadersWriters**: what a readers-writer lock promises.
* **ConditionVariableEventWin**: the two alternating `WakeAll` events, the `Wake`
  event and the counts of waiters, as a record and operators. Windows events are
  external, modelled from their use: setting a set event does nothing, and the
  auto-reset event releases one thread.
* **RWLockGeneric**: the lock over that condition variable. `SleepCS` is divided
  at every point where another thread can come in (`Awake`, `LeaveWaiters`,
  `ResetWakeAll`, `Resume...`), and `Wake` and `WakeAll` set their event in a step
  of their own (`FinishWake`), because threads inside `SleepCS` do not hold the
  lock's critical section.
* **ProcessThread**: one step is one hold of `lock_`, one operation on `wake_up_`, or
  one module or task. `next_callback` is reduced to unset, immediately, later and
  due. Any thread may deregister a module, and from inside `Process` (`lock_` is
  recursive) a module may do one of: post a task, wake up itself or another module, deregister
  itself or another. One that deregisters itself erases the list node the loop still
  uses (`process_thread_impl.cc:214`); the outcomes are that the loop goes on
  with the freed node as it was, or that the program is gone (`crashed`, where every
  thread stops, and which is why this run does not check for deadlock). `Tasks` is a set of task
  objects; one that was run may be posted again, so posting never has to end.

### Audio

* **PacketBuffer**: the buffer as a sequence of payloads, ordered as
  `Packet::operator<` orders them, with drop, replacement, flush when full, flush
  when the codec changes, and the order in which a RED packet is split.
* **AudioNack**: the NACK list as a function from numbers to the estimated time,
  timestamp and whether the packet is missing. `upper_bound` is every result a
  search may have when the numbers compared are too far apart to be ordered.
* **AudioReceiver**: AcmInsert and NetEqInsert are `InsertPacket` under its two
  locks, GetAudio and GetAudioFails the playout thread, EnableNack, DisableNack and
  FlushBuffers the application. AcmDrops is the two early returns of `InsertPacket`: a
  payload type without a decoder, and comfort noise while the codec is not mono
  (`acm_receiver.cc:274`, `:286`). NetEqRefuses is a RED packet whose first block has a
  decoder and whose primary one has none: NetEq refuses it after NACK was told. NetEq's decision
  logic is a free choice of what to drop and how much to extract.

Abstractions: time in blocks of 10 ms and one block per packet; no telephone
events, sync packets, initial delay or sample rates.

## 3. What TLC checks

Numbers are on small circles and start just below the wrap, so that every stream
crosses it.

| Run | Instance | Shows |
|---|---|---|
| receiver | 6 packets in 4 frames, two of them key frames (one of two packets), with padding and two gaps; pool 2 to 3; NACK list of 4, age 4; NACK switched on and off; kSelectiveErrors (370,000 states) | types, conservation of buffers, recycling yields a buffer, NACK list bounded and listing nothing that is buffered, decoding in order, clean-up and recycling equal their loops |
| liveness | a key frame with trailing padding and a delta frame of two packets; pool of 2; stop, restart and NACK changes at any time (76,000 states) | the decode thread is woken, a ready frame leaves, a scheduled key frame request is sent |
| assembly | one frame of 6 media and 2 padding packets | completeness, order, range, monotone state |
| decoder | rings of 3, 3 timestamps in any order, 2 frames inside the decoder, any number of late deliveries (9.3 million states) | entries keep their info, synchronous decoders lose nothing |
| render | 3 frames | callbacks not used after removal, nothing left running, order, frames leave, Stop returns |
| rwlock | 3 threads | counters, no lost wake-up of a writer, refinement of `ReadersWriters`, writers not shut out |
| process | 2 modules, 2 callers, 2 task objects posted any number of times (99,000 states) | no lost wake-up, tasks run, wake-ups heard, Stop returns |
| audio | 4 packets, 2 speech codecs (one stereo), comfort noise and an unknown type, one change, with and without redundancy; buffer of 3; NACK list of 1 or 2 (1.4 million states) | buffer ordered and of one codec, primary payloads stay, NACK list exact and limited |
| stale_timestamp, overtaken, h264_state, audio_nack | small | the four disagreements below |

**Why the bounds suffice.** Every limit of the code is within reach: the pool is
exhausted, both NACK lists overflow by size and by age, old packets flush, the
rings of the decoder fill and wrap, the packet buffer overflows. Video packets
repeat without limit. Audio streams are shorter than half a circle less one
(`MaxSent`), as are all streams a jitter buffer can order; packets arrive at most
`Reorder` places late. `MaxSilence` bounds only a counter: the calls of GetAudio
that NACK counts before any audio was decoded. Three threads are enough for a
waiter, a holder and one that overtakes. In `receiver` the second key frame can stay
incomplete, so that recycling resets the decoding state while a decodable delta frame
waits. In `process` two task objects are enough to keep the queue from ever being empty.
No run uses symmetry, and none constrains the state space. The passing runs
together take every action.

**Properties of the receive path.** `FramePoolConserved`: each allocated buffer is
in one place. `RecyclingYieldsFrame`: `assert(*frame)` in GetFrame.
`NackListBounded`, `NackedPacketsAreMissing`: the NACK list keeps both its limits
after every step of any thread, and never names a packet at hand (as long as the
jitter buffer is not stopped, see section 4).
`DecodedInOrder`: no frame is decoded after a newer one, or twice, until the
decoding state is reset; it holds of every stream a sender makes, but not with
kWithErrors (run `overtaken`). `ShutdownWakesDecoder`: no lost wake-up at shutdown.
`ReadyFrameLeaves`: liveness of decoding. `KeyRequestSent`: a key frame request
scheduled by decoding leads to a call of the callback that succeeds, however often it
fails before. It makes one exception, which is the code's: after a flush ResetDecoder drops
what was scheduled, since IncomingPacket has just made a request of its own;
that one is not repeated if it fails (`video_receiver.cc:478`).

**Properties with exceptions.** `StopReturns` and `WakeUpHeard` of `ProcessThread` except
behaviours in which tasks are posted for ever (`PostsForEver`): the loop over the tasks
(`process_thread_impl.cc:221`) looks neither at `stop_` nor at the modules, and without
the exception TLC shows a Stop that never returns. `WakeUpHeard` is about wake-ups by other
threads and by other modules; what a module asks for itself inside `Process` is overwritten when
it has returned (`:214`) and is lost. The properties of the audio
NACK list (`ListedIsWanted`, `MissingIsLate`, `LossNoticed`) are about the packets
NACK was told of. Those that AcmDrops passes over arrived too, and are listed
and asked for once a later packet is reported, contrary to `nack.h:83`, "API should
be called every time a packet pushed into ACM."; the properties do not deny that.

The other properties are explained where they are defined.

**Fairness.** Threads keep running, and a wait with a time limit ends.
* `VideoReceiver`: weak fairness of each thread's steps; strong fairness where a
  step is retried until it succeeds: a frame is too early only until its
  render time comes; a lock that is free again and again is got; the key frame
  timer fires; a callback that is called again and again succeeds some time. (The
  steps inside one call of Process, `RequestReturns` among them, are weakly fair.)
  Nothing is assumed of the network, of statistics or of NACK timers.
* `RWLockGeneric`: a thread goes on inside a call, and does not keep the lock for
  ever; nothing makes it ask for the lock.
* `IncomingVideoStream`: the render thread, the timer thread and a begun Stop
  go on, and the clock moves. The time limit of the render thread's wait is used:
  the one-shot timer alone would not do.
* `ProcessThread`: the process thread, begun calls of the controller and of the
  callers go on. Nothing is assumed of the clock or of time-outs, so that the
  liveness properties hold without them, nor that posting ever ends.

**Disagreements found.** Four runs check one property each that the repository
states and its code does not keep; `PROJECT.json` quotes the lines.

* `stale_timestamp`: an incomplete frame is decoded in mode kNoErrors after a
  flush between reading the timestamp and extracting the frame.
* `overtaken`: in mode kWithErrors a frame is decoded after a later one. The clean-up
  does not ask whether an empty frame is old unless it is alone in its list; one that
  cannot be dropped either stays in front and is handed out.
* `h264_state`: an H.264 frame with several packets flagged as first is complete
  too early, and falls back to decodable when the missing packets arrive.
* `audio_nack`: GetAudio takes the result of `DecodedRtpInfo`, 0 for success, for a
  bool, and so tells NACK of decoded packets only before there are any. Packets
  long played stay on the list, entries may be erased by the number 0 it is told
  instead, and `AddToList`'s assertion that a new number is not older than the
  last decoded one (`nack.cc:125`) may fail.

Three more were met for which there is no run of their own:

* after a recycling the next decoded frame need not be a key frame: recycling that stops
  at a key frame among the incomplete frames leaves the decodable ones, and a delta frame
  waiting there is decoded first.
  The comment at `jitter_buffer.cc:1130` says "Reset last decoded state to make sure the
  next frame decoded is a key frame, and start NACKing from here." The stream of `receiver`
  reaches this.
* a one-shot timer started between the time-out of the previous one and the test
  of its count is lost (`event_timer_posix.cc:206`), although `event_wrapper.h:57` says
  "Starts a timer that will call a non-sticky version of Set() either once or periodically."
  `FrameLeaves` of the run `render` holds because the render thread's wait has a time limit.
* packets the audio receiver passes over are not reported to NACK (above).

**Behaviour worth knowing**, which the models show:

* dropping an empty frame does not move the frames it held back to the decodable
  list (`jitter_buffer.cc:727`); an old packet may make a frame ready without
  setting the event (`jitter_buffer.cc:583`);
* the last thread woken by `WakeAll` may reset the event of a later one, and a
  reader then sleeps on a free lock until the next writer leaves
  (`condition_variable_event_win.cc:161`);
* `Pop` for a refused frame forgets older frames an asynchronous decoder still
  owes (`generic_decoder.cc:165`), and so does a delivery of a released decoder;
* a module deregistered while Start is between its two parts stays attached
  (`process_thread_impl.cc:79`);
* a failed key frame request in the flush path is forgotten, since ResetDecoder
  clears the schedule (`video_receiver.cc:478`);
* a duplicate of a packet of a frame with exactly `kMaxPacketsInSession` packets is a
  size error, and frees the complete frame (`session_info.cc:474`);
* a redundant payload that would only be dropped flushes a full packet buffer
  (`packet_buffer.cc:68`).

## 4. What is proved

| Module | Theorems | For every |
|---|---|---|
| `FrameAssemblyProofs` (with `FrameBufferProofs`) | `CompleteMeansAll`, `FrameStaysInOrder`, `FrameOnlyAdvances` | frame of a sender (`OneFrame`), number of packets, codec of the two, mode |
| `VideoReceiverProofs` (with `FrameBufferProofs`) | `TypeCorrect`, `PoolConserved`, `AssertFrame`, `ShutdownWakes`, `NackListStaysShort`, `NackBounded`, `NackedAreMissing`, `DecodesInOrder` | stream, codec of the two, limits, modes and their changes |
| `RWLockProofs` | `CountersCorrect`, `NoWriterForgotten`, `Implementation` | finite set of threads |
| `IncomingVideoStreamProofs` | `CallbackSafe`, `StoppedMeansStopped`, `FramesRenderedInOrder` | number of frames |
| `GenericDecoderProofs` | `InfosNotOvertaken`, `SynchronousDecoding` | length of the rings of at least 2, range of timestamps, number of frames inside |
| `ProcessThreadProofs` | `NoWakeUpLost` | modules, callers, tasks |
| `AudioReceiverProofs` | `BufferStaysOrdered`, `BufferKeepsOneCodec`, `PrimariesStay`, `ListedStaysWanted`, `MissingStaysLate`, `LossAlwaysNoticed` | capacity of the buffer, payload types, list sizes, threshold, stream shorter than half a circle |

Assumptions, stated as ASSUMEs of the modules that declare the constants: the
packets have the fields of a `VCMPacket`, the limits are natural numbers,
`kMaxNumberOfFrames` is at least 2 (it is 300) and not below
`kStartNumberOfFrames`, the rings have at least 2 places (they have 10), the
threads are finitely many, the audio payload types without a decoder are none of those
with one and stereo codecs are speech codecs (`TypesAssumption`),
an audio stream is shorter than half a circle of sequence numbers and of
timestamps (`BoundsAssumption`). `NackBounded` and `NackedAreMissing` assume two
things more, in their statements: `StreamInHalf` and `~MayStop`; `DecodesInOrder`
assumes `StreamOrdered` and that kWithErrors is not among the modes; those about
one frame assume `OneFrame`. See below.

**One frame.** `OneFrame`, the hypothesis of the three theorems, is what a sender makes
of a frame: packets within half a circle, no number twice, media packets without a gap,
the first and only the first flagged as first, the last and only the last with the
marker. It is needed: `h264_state` shows a frame with several packets flagged as
first that is complete too early and falls back. The stream of the run `assembly` is one (an
ASSUME of `MCFrameAssembly`, which TLC evaluates). The places of the packets, counted from
a base, turn `IsNewerSequenceNumber` into an order (`PlaceOrder`). The inductive invariant
is `Assembled`: the list is sorted by place and holds what arrived, a boundary is known
exactly if the flagged packet is in the list, the padding noted is that which arrived,
and a frame is complete exactly if it holds all its media. The last is the core:
`NoGapHoldsAll` (the least packet beyond a missing one would follow a gap) and
`AllHasNoGap`. From it: a complete frame refuses every further media packet as a
duplicate or for its size, so it is never put back, and no packet is out of bounds.
`FrameStaysInOrder` needs that the frame fits in a session: a packet refused for its size has
arrived and is not in the range; `FullHoldsAll` shows that otherwise a size error concerns
a duplicate.

**The pool.** The inductive invariant is `IInv == TypeOK /\ FramePoolConserved`.
Neither conjunct is inductive alone. `GetFrame` subtracts one from the number of
free buffers after recycling; that this stays a natural number needs a frame to
recycle, and there is one because at most one buffer is with the decoder while
the pool, being at its limit, has at least two. In turn conservation needs the
typing facts that no timestamp is in both lists (a buffer inserted under a
taken key would be lost) and that each frame is under its own timestamp.
`FrameBufferProofs`: every method of a frame keeps it well-formed, and a frame has
received a packet once one was inserted (the assertions of `SetState`).
The first part of `VideoReceiverProofs`: each method of the jitter buffer conserves the buffers. `Conserves` relates the
jitter buffer before and after a method; `Shrinks` adds that frames only leave
the lists, which the code between `GetFrame` and the final switch of
`InsertPacket` relies on: the key of the frame in hand must still be free when
it is put back. The second part: one lemma per thread, one step per action.

**The NACK list of the jitter buffer.** Its size is bounded always, since
`UpdateNackList`, the only method that adds to it, shrinks it at once
(`NackListStaysShort`). The other two properties are about positions: with
`StreamInHalf` every number has a position counted from some base of the stream,
and `IsNewerSequenceNumber` compares positions. The invariant `NackOK` says that
the list lies before the latest number and within the maximal age of it, that
everything buffered is at or before the latest number, and that the list and the
buffered packets are disjoint. `UpdateNackList` adds what lies between
the latest number and the packet, so nothing buffered; a packet that is put in a
frame is taken off the list before. Both assumptions are needed, and TLC shows
it: of a stream spread over more than half a circle a packet can count as old
and as new at once, and the list then goes beyond its age limit; and `Start`
after `Stop` (`jitter_buffer.cc`) begins with `first_packet_since_reset_` set and the old
NACK list in place, so that the next packet leaves the list behind by any
distance, and numbers still listed may arrive with it.

**The order of decoding.** `StreamOrdered` says what a sender makes: timestamps and
sequence numbers within half a circle each, and a later frame has higher numbers. (The
streams of all runs satisfy it, an ASSUME of `MCVideoReceiver`.) The difficulty is
that the decode thread reads a timestamp in one hold of the lock and takes
the frame out in a later one, and that the last decoded state also moves while the thread
has nothing in hand: old packets and dropped empty frames advance it, recycling, a flush
and Start reset it. The inductive invariant is `OrderInv`, in addition to `IInv`: all
that the buffer knows comes from packets of the stream (`Traced`: also the pair of number
and timestamp in the last decoded state, whose frame is in no list any more, and every
decodable frame has received media); the frame the thread is about to take is ahead of
the last decoded one (`Ahead`); so are the decodable frames while it waits, since
after a time-out the front frame is chosen without another clean-up. Each method
of the jitter buffer is shown to be `Follows`: it lets no frame fall behind and adds none
that is old, or resets the state. The core is `NothingBetween`: the state advances
to a frame only if that is continuous, and between a packet and the one with the next number
there is no frame to be overtaken. With kWithErrors the part of `Traced` on media fails, and
the theorem with it: see the run `overtaken`.

**Shutdown.** The decode thread can begin to wait only while the jitter buffer runs,
so the `Stop` after that sets the event after the wait has begun; until then the
stopping thread is at `SignalStop`. A `Start` in between makes the claim void, a
second `Stop` renews it.

**The lock.** A writer is woken only if it is counted twice, by the lock and by the
condition variable. `WriterHasWaker` therefore needs both parts of `CountersExact`:
`LockCounters` (otherwise nobody calls Wake), `WaitersCounted` (otherwise Wake sets no event) and that a thread
about to wake a writer sets the event meant for it. Each counter is the cardinality
of a set of threads, so each step is a lemma about adding or removing one thread.
The refinement needs in addition that a writer is alone (`OneWriter`); every step is
then a step of `ReadersWriters` or leaves the holders as they are (`RWStep`).

**The stream.** What Stop relies on is an invariant over the positions of the three
threads: while Stop waits for the timer thread the render thread is not inside
its locked part, so it cannot start the timer again; once it has passed, the render
thread finds `incoming_render_thread_` empty. The order of rendering is an invariant
of its own (`OrderInv`): the queue is sorted, everything in it is later than the
frame in the hands of the render thread, and that one is later than the last
rendered. It is preserved by Stop and Reset in the middle of a turn
because these only empty the queue.

**The decoder.** The two rings advance together (`SideBySide`): an entry k places from
the end of the map points k places back in the ring of infos, and the map holds
one entry less than the ring, which leaves the place that Decode writes before
Map makes room. With synchronous decoders, at most one frame is unaccounted for
(`AtMostOneFrame`) and its entry is alone in the map, so neither the wrap nor a
repeated timestamp can mislead `Pop`. Nothing is assumed of the order of timestamps.
That an asynchronous decoder's image never gets a deleted info is not claimed: a
timestamp repeated after a change of codec, or a late delivery, would find one.

**The process thread.** Each kind of work (stop, a task, a module to be asked or
called) is covered wherever the process thread is: it has still to come by, or
the event is set, or the one who brought it is about to set it. For modules
this needs a statement about the part of the list the loop has already passed; when a
module is deregistered from inside Process that part moves along with the loop's place.

**Audio.** Everything is carried over to places in the stream (`TsPlace`, `SeqPlace`):
in a stream shorter than half a circle less one, `Packet::operator<`,
`IsNewerSequenceNumber` and the bounds computed with `%` all compare places
(`TsOrder`, `SeqOrder`, `LessIs`, `BoundsByPlace`, `BetweenByPlace`). The buffer's
invariant is `GoodState`: sorted by place with no place twice, of the types in use,
within capacity. It needs to know of each payload that a redundant one comes one
datagram after the audio it repeats (`StreamPackets`); otherwise the order among
payloads of one timestamp, which goes by sequence number first, would not put the
primary one in front, and `PrimariesStay` would fail. Packets leave at
the front only (`Remainders`), whatever the decision logic chooses. NACK's invariant
is `NackOK`: the three properties in terms of places, and that nothing heard is later
than the last packet received; "heard" is what NACK was told, so the packets of AcmDrops are
no part of it. It holds whatever is reported as decoded, the number
0 that the misread result of `DecodedRtpInfo` leads to included: such reports
only shorten the list.

**Only model-checked**: all liveness properties (fairness and ENABLED are outside
the reach of the proofs here); the agreement of closed forms with loops
(`CleanUpIsTheLoop`, `RecyclingIsTheLoop`: induction over recursive definitions).

## 5. Not modelled, and why

* Timing, jitter estimation, media optimization, frame dropping, NetEq's delay
  manager: floating-point filters over wall-clock times, out of reach of TLC and
  TLAPS. Where control depends on them, the models have a free choice.
* The video sender and the generic encoder pass frames on under one lock.
* Codecs and audio processing: numerical, or wrappers of external libraries,
  most of them vendored under `libs/`. They make up nearly all of the repository's lines.
* Capture, platform renderers, the audio device and media files: platform I/O.
* `base/`, `jsoncpp.cpp` and similar: general-purpose or third-party support code.
* Of modelled components: what a delivery does after its decoder's infos are gone, more
  than one request of a module per call of Process, VP9, payload bytes, ResetDecoder called by the
  application, SetNackSettings at run time, periodic timers, telephone events.

## 6. Plan

1. VideoReceiver: ResetDecoder by the application, SetNackSettings; a run with
   temporal layers; a run at the limit of packets in a session.
2. An ordered channel of frames as the abstract specification of VideoReceiver.
