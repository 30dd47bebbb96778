----------------------- MODULE IncomingVideoStreamProofs -----------------------
(* Proofs about IncomingVideoStream: stopping a render stream is safe, for    *)
(* any number of frames and every interleaving of its threads.                *)
EXTENDS IncomingVideoStream, TLAPS

\* Where the threads are.
Places ==
  /\ running_ \in BOOLEAN /\ callback_ \in BOOLEAN /\ incoming_render_thread_ \in BOOLEAN
  /\ timer_stop \in BOOLEAN
  /\ deliver_buffer_event_ \in EventTimerType
  /\ app \in {"idle", "stops_timer", "joins_timer", "joins_render"}
  /\ render \in {"none", "waits", "woken", "starts_timer", "renders", "calls", "loops"}
  /\ timer \in {"none", "top", "waits", "timed_out", "loops"}

\* While no call of Stop is in progress, the stream runs with both its threads or
\* with neither.
Settled ==
  app = "idle" =>
    \/ /\ running_ /\ incoming_render_thread_
       /\ deliver_buffer_event_.timer_thread_ /\ ~timer_stop
    \/ /\ ~running_ /\ ~incoming_render_thread_
       /\ render = "none" /\ timer = "none"
       /\ ~deliver_buffer_event_.timer_thread_ /\ ~deliver_buffer_event_.timer_event_

\* During Stop the render thread does not hold thread_critsect_, and cannot get
\* past its test; the timer goes first.
Stopping ==
  app # "idle" =>
    /\ running_ /\ ~incoming_render_thread_
    /\ render \in {"none", "waits", "woken", "loops"}
    /\ app \in {"stops_timer", "joins_timer"} => deliver_buffer_event_.timer_thread_
    /\ app = "joins_render" => /\ timer = "none"
                               /\ ~deliver_buffer_event_.timer_thread_
                               /\ ~deliver_buffer_event_.timer_event_

CallbackSet == render = "calls" => callback_

IInv == Places /\ Settled /\ Stopping /\ CallbackSet /\ TimerEventOutlivesThread

\* The operations of the event timer keep its type, and leave alone what the
\* invariant says of it, as far as they should.
LEMMA EventTimerFields ==
  ASSUME NEW e \in EventTimerType
  PROVE  /\ Set(e) \in EventTimerType /\ Set(e).timer_thread_ = e.timer_thread_
                                      /\ Set(e).timer_event_ = e.timer_event_
         /\ WaitSignaled(e) \in EventTimerType
         /\ WaitSignaled(e).timer_thread_ = e.timer_thread_
         /\ WaitSignaled(e).timer_event_ = e.timer_event_
         /\ StartTimer(e) \in EventTimerType /\ StartTimer(e).timer_thread_
         /\ StartPeriod(e) \in EventTimerType /\ StartPeriod(e).timer_thread_ = e.timer_thread_
         /\ TimerEventTaken(e) \in EventTimerType
         /\ TimerEventTaken(e).timer_thread_ = e.timer_thread_
         /\ Fire(e) \in EventTimerType /\ Fire(e).timer_thread_ = e.timer_thread_
         /\ AnnounceStop(e) \in EventTimerType /\ AnnounceStop(e).timer_thread_ = e.timer_thread_
         /\ TimerStopped(e) \in EventTimerType
         /\ ~TimerStopped(e).timer_thread_ /\ ~TimerStopped(e).timer_event_
<1> USE DEF EventTimerType
<1>1. Set(e) \in EventTimerType /\ Set(e).timer_thread_ = e.timer_thread_
                                /\ Set(e).timer_event_ = e.timer_event_
  BY DEF Set
<1>2. /\ WaitSignaled(e) \in EventTimerType
      /\ WaitSignaled(e).timer_thread_ = e.timer_thread_
      /\ WaitSignaled(e).timer_event_ = e.timer_event_
  BY DEF WaitSignaled
<1>3. StartTimer(e) \in EventTimerType /\ StartTimer(e).timer_thread_
  <2>1. CASE e.timer_thread_
    BY <2>1 DEF StartTimer
  <2>2. CASE ~e.timer_thread_
    BY <2>2 DEF StartTimer
  <2> QED
    BY <2>1, <2>2
<1>4. StartPeriod(e) \in EventTimerType /\ StartPeriod(e).timer_thread_ = e.timer_thread_
  <2> DEFINE n == IF ~e.created \/ e.count_ = 0 THEN 1 ELSE 2
  <2>1. n \in 0..2
    OBVIOUS
  <2>2. StartPeriod(e) = [e EXCEPT !.created = TRUE, !.count_ = n]
    BY DEF StartPeriod
  <2> HIDE DEF n
  <2> QED
    BY <2>1, <2>2
<1>5. TimerEventTaken(e) \in EventTimerType /\ TimerEventTaken(e).timer_thread_ = e.timer_thread_
  BY DEF TimerEventTaken
<1>6. Fire(e) \in EventTimerType /\ Fire(e).timer_thread_ = e.timer_thread_
  BY <1>1 DEF Fire
<1>7. AnnounceStop(e) \in EventTimerType /\ AnnounceStop(e).timer_thread_ = e.timer_thread_
  BY DEF AnnounceStop
<1>8. /\ TimerStopped(e) \in EventTimerType
      /\ ~TimerStopped(e).timer_thread_ /\ ~TimerStopped(e).timer_event_
  <2>1. TimerStopped(e) \in EventTimerType
    <3>1. NewEventTimer \in EventTimerType /\ e.event_set_ \in BOOLEAN
      BY DEF NewEventTimer
    <3> QED
      BY <3>1 DEF TimerStopped
  <2>2. TimerStopped(e).timer_thread_ = FALSE
    BY DEF TimerStopped, NewEventTimer
  <2>3. TimerStopped(e).timer_event_ = FALSE
    BY DEF TimerStopped, NewEventTimer
  <2> QED
    BY <2>1, <2>2, <2>3
<1> QED
  BY <1>1, <1>2, <1>3, <1>4, <1>5, <1>6, <1>7, <1>8

\* The stream is created with no thread and no timer.
LEMMA InitIInv ==
  Init => IInv
<1>1. /\ NewEventTimer \in EventTimerType
      /\ ~NewEventTimer.timer_thread_ /\ ~NewEventTimer.timer_event_
  BY DEF NewEventTimer, EventTimerType
<1> QED
  BY <1>1 DEF Init, IInv, Places, Settled, Stopping, CallbackSet, TimerEventOutlivesThread

\* The application: Start, the steps of Stop, and a change of the callback.
LEMMA AppInv ==
  ASSUME IInv, Start \/ Stop \/ StopSteps \/ \E set \in BOOLEAN : SetCallback(set)
  PROVE  IInv'
<1> USE DEF IInv, Places, Settled, Stopping, CallbackSet, TimerEventOutlivesThread
<1>1. CASE Start
  BY <1>1, EventTimerFields DEF Start, ThreadFree
<1>2. CASE Stop
  BY <1>2, EventTimerFields DEF Stop, ThreadFree
<1>3. CASE StopTimerThread
  BY <1>3 DEF StopTimerThread
<1>4. CASE JoinTimerThread
  <2>1. /\ deliver_buffer_event_' \in EventTimerType
        /\ ~deliver_buffer_event_'.timer_thread_ /\ ~deliver_buffer_event_'.timer_event_
    BY <1>4, EventTimerFields DEF JoinTimerThread
  <2> QED
    BY <1>4, <2>1 DEF JoinTimerThread
<1>5. CASE JoinRenderThread
  BY <1>5 DEF JoinRenderThread
<1>6. CASE \E set \in BOOLEAN : SetCallback(set)
  BY <1>6 DEF SetCallback, ThreadFree
<1> QED
  BY <1>1, <1>2, <1>3, <1>4, <1>5, <1>6 DEF StopSteps

\* The render thread.
LEMMA RenderInv ==
  ASSUME IInv, RenderSteps
  PROVE  IInv'
<1> USE DEF IInv, Places, Settled, Stopping, CallbackSet, TimerEventOutlivesThread
<1>1. CASE RenderWait
  BY <1>1, EventTimerFields DEF RenderWait
<1>2. CASE RenderTake
  BY <1>2 DEF RenderTake, ThreadFree, NotTerminating
<1>3. CASE RenderStartTimer
  <2>1. deliver_buffer_event_' \in EventTimerType /\ deliver_buffer_event_'.timer_thread_
    BY <1>3, EventTimerFields DEF RenderStartTimer
  <2>2. timer' = timer /\ timer_stop' = timer_stop
    BY <1>3 DEF RenderStartTimer
  <2> QED
    BY <1>3, <2>1, <2>2 DEF RenderStartTimer
<1>4. CASE RenderCall
  BY <1>4 DEF RenderCall
<1>5. CASE RenderReturn
  BY <1>5 DEF RenderReturn
<1>6. CASE RenderLoop
  BY <1>6 DEF RenderLoop
<1> QED
  BY <1>1, <1>2, <1>3, <1>4, <1>5, <1>6 DEF RenderSteps

\* The timer thread.
LEMMA TimerInv ==
  ASSUME IInv, TimerSteps
  PROVE  IInv'
<1> USE DEF IInv, Places, Settled, Stopping, CallbackSet, TimerEventOutlivesThread
<1>1. CASE TimerPeriod
  BY <1>1, EventTimerFields DEF TimerPeriod
<1>2. CASE TimerSignaled
  BY <1>2, EventTimerFields DEF TimerSignaled
<1>3. CASE TimerTimesOut
  BY <1>3 DEF TimerTimesOut
<1>4. CASE TimerFires
  BY <1>4, EventTimerFields DEF TimerFires
<1>5. CASE TimerLoop
  BY <1>5 DEF TimerLoop
<1> QED
  BY <1>1, <1>2, <1>3, <1>4, <1>5 DEF TimerSteps

\* The decoder, the clock and Reset.
LEMMA QueueInv ==
  ASSUME IInv, RenderFrame \/ Reset \/ (\E f \in Frames : BecomesDue(f)) \/ UNCHANGED vars
  PROVE  IInv'
<1> USE DEF IInv, Places, Settled, Stopping, CallbackSet, TimerEventOutlivesThread
<1>1. CASE RenderFrame
  <2>1. /\ deliver_buffer_event_' \in EventTimerType
        /\ deliver_buffer_event_'.timer_thread_ = deliver_buffer_event_.timer_thread_
        /\ deliver_buffer_event_'.timer_event_ = deliver_buffer_event_.timer_event_
    BY <1>1, EventTimerFields DEF RenderFrame
  <2> QED
    BY <1>1, <2>1 DEF RenderFrame
<1>2. CASE Reset
  BY <1>2 DEF Reset
<1>3. CASE \E f \in Frames : BecomesDue(f)
  BY <1>3 DEF BecomesDue
<1>4. CASE UNCHANGED vars
  BY <1>4 DEF vars
<1> QED
  BY <1>1, <1>2, <1>3, <1>4

\* Every step of the four threads preserves the inductive invariant.
LEMMA NextIInv ==
  IInv /\ [Next]_vars => IInv'
BY AppInv, RenderInv, TimerInv, QueueInv DEF Next

\* The renderer is never called after Stop, nor through a callback that has been
\* removed, for any number of frames.
THEOREM CallbackSafe == Spec => []CallbackAlive
<1>1. IInv => CallbackAlive
  BY DEF IInv, Places, Settled, CallbackSet, CallbackAlive, Stopping
<1> QED
  BY <1>1, InitIInv, NextIInv, PTL DEF Spec

\* When Stop has returned both threads have ended and no timer can fire.
THEOREM StoppedMeansStopped == Spec => []NothingLeftRunning
<1>1. IInv => NothingLeftRunning
  BY DEF IInv, Places, Settled, Stopping, NothingLeftRunning
<1> QED
  BY <1>1, InitIInv, NextIInv, PTL DEF Spec

-----------------------------------------------------------------------------
(* The order in which frames are rendered.                                    *)

\* The frames that wait were delivered in the order of the queue, after the one
\* rendered last and before the next.
QueueInOrder ==
  /\ incoming_frames_ \in Seq(Frames)
  /\ next_frame \in Nat /\ rendered \in Nat /\ rendered < next_frame
  /\ \A i \in 1..Len(incoming_frames_) :
        rendered < incoming_frames_[i] /\ incoming_frames_[i] < next_frame
  /\ \A i, j \in 1..Len(incoming_frames_) : i < j => incoming_frames_[i] < incoming_frames_[j]

\* A frame taken from the queue and not yet given to the callback lies between the
\* one rendered last and those that still wait; Reset may empty the queue meanwhile.
\* Elsewhere frame_to_render is the frame of an earlier turn.
TakenInOrder ==
  /\ frame_to_render \in Frames \cup {NoFrame}
  /\ render \in {"starts_timer", "renders"} /\ frame_to_render # NoFrame =>
       /\ rendered < frame_to_render /\ frame_to_render < next_frame
       /\ \A i \in 1..Len(incoming_frames_) : frame_to_render < incoming_frames_[i]

OrderInv == QueueInOrder /\ TakenInOrder

\* The frames of a queue are numbers.
LEMMA FrameNumbers ==
  ASSUME NEW q \in Seq(Frames)
  PROVE  \A i \in 1..Len(q) : q[i] \in Frames /\ q[i] \in Nat
<1>1. \A i \in 1..Len(q) : q[i] \in Frames
  OBVIOUS
<1>2. \A f \in Frames : f \in Nat
  BY DEF Frames
<1> QED
  BY <1>1, <1>2

\* What FrameToRender leaves in the queue after taking n frames.
LEMMA LeftQueue ==
  ASSUME NEW q \in Seq(Frames), NEW n \in 0..Len(q)
  PROVE  /\ Left(q, n) \in Seq(Frames) /\ Len(Left(q, n)) = Len(q) - n
         /\ \A i \in 1..(Len(q) - n) : Left(q, n)[i] = q[n + i]
<1>1. n + 1 \in 1..(Len(q) + 1) /\ Len(q) \in (n + 1 - 1)..Len(q)
  OBVIOUS
<1>2. \A i \in (n + 1)..Len(q) : q[i] \in Frames
  OBVIOUS
<1> QED
  BY <1>1, <1>2 DEF Left

\* A new stream has an empty queue.
LEMMA InitOrder ==
  Init => OrderInv
BY DEF Init, OrderInv, QueueInOrder, TakenInOrder, Frames, NoFrame

\* A frame the decoder delivers is queued behind all others.
LEMMA RenderFrameOrder ==
  ASSUME OrderInv, RenderFrame
  PROVE  OrderInv'
<1> USE DEF OrderInv, QueueInOrder, TakenInOrder
<1>1. next_frame \in Frames /\ next_frame \in Nat /\ next_frame' = next_frame + 1
      /\ UNCHANGED <<render, frame_to_render, rendered>>
  BY DEF RenderFrame, Frames
<1>2. CASE incoming_frames_' = Append(incoming_frames_, next_frame)
  <2>1. /\ incoming_frames_' \in Seq(Frames)
        /\ Len(incoming_frames_') = Len(incoming_frames_) + 1
        /\ \A i \in 1..Len(incoming_frames_) : incoming_frames_'[i] = incoming_frames_[i]
        /\ incoming_frames_'[Len(incoming_frames_) + 1] = next_frame
    BY <1>1, <1>2
  <2>2. \A i \in 1..Len(incoming_frames_') :
          i \in 1..Len(incoming_frames_) \/ i = Len(incoming_frames_) + 1
    BY <2>1
  <2>3. incoming_frames_ \in Seq(Frames) /\ \A i \in 1..Len(incoming_frames_) : incoming_frames_[i] \in Nat
    BY FrameNumbers
  <2>4. QueueInOrder'
    <3> DEFINE q == incoming_frames_
               n == Len(q)
    <3>1. \A i \in 1..n : q'[i] = q[i] /\ q[i] \in Nat /\ rendered < q[i] /\ q[i] < next_frame
      BY <2>1, <2>3
    <3>2. \A i, j \in 1..n : i < j => q[i] < q[j]
      OBVIOUS
    <3>3. n \in Nat /\ q'[n + 1] = next_frame /\ Len(q') = n + 1
      BY <2>1, <2>3
    <3>4. ASSUME NEW i \in 1..Len(q')
          PROVE  rendered' < q'[i] /\ q'[i] < next_frame'
      BY <1>1, <2>2, <3>1, <3>3
    <3>5. ASSUME NEW i \in 1..Len(q'), NEW j \in 1..Len(q'), i < j
          PROVE  q'[i] < q'[j]
      <4>1. i \in 1..n /\ (j \in 1..n \/ j = n + 1)
        BY <3>3, <3>5
      <4> QED
        BY <3>1, <3>2, <3>3, <3>5, <4>1
    <3> QED
      BY <1>1, <2>1, <3>4, <3>5
  <2>5. TakenInOrder'
    BY <1>1, <2>1, <2>2, <2>3 DEF Frames, NoFrame
  <2> QED
    BY <2>4, <2>5
<1>3. CASE UNCHANGED incoming_frames_
  <2>1. \A i \in 1..Len(incoming_frames_) : incoming_frames_[i] \in Nat
    BY FrameNumbers
  <2>2. QueueInOrder'
    BY <1>1, <1>3, <2>1
  <2>3. TakenInOrder'
    BY <1>1, <1>3 DEF Frames, NoFrame
  <2> QED
    BY <2>2, <2>3
<1> QED
  BY <1>2, <1>3 DEF RenderFrame

\* Reset empties the queue; the frame already taken is unaffected.
LEMMA ResetOrder ==
  ASSUME OrderInv, Reset
  PROVE  OrderInv'
BY DEF OrderInv, QueueInOrder, TakenInOrder, Reset

\* FrameToRender takes frames from the front of the queue.
LEMMA RenderTakeOrder ==
  ASSUME OrderInv, RenderTake
  PROVE  OrderInv'
<1> USE DEF OrderInv, QueueInOrder, TakenInOrder
<1>1. UNCHANGED <<next_frame, rendered>>
  BY DEF RenderTake
<1>2. CASE render' = "none" /\ UNCHANGED <<incoming_frames_, frame_to_render>>
  BY <1>1, <1>2
<1>3. ASSUME NEW n \in 0..Len(incoming_frames_),
             frame_to_render' = Taken(incoming_frames_, n),
             incoming_frames_' = Left(incoming_frames_, n)
      PROVE  OrderInv'
  <2> DEFINE q == incoming_frames_
  <2>1. q \in Seq(Frames) /\ Len(q) \in Nat /\ \A i \in 1..Len(q) : q[i] \in Frames /\ q[i] \in Nat
    BY FrameNumbers
  <2>2. /\ incoming_frames_' \in Seq(Frames) /\ Len(incoming_frames_') = Len(q) - n
        /\ \A i \in 1..(Len(q) - n) : incoming_frames_'[i] = q[n + i]
    BY <1>3, <2>1, LeftQueue
  <2>3. \A i \in 1..(Len(q) - n) : n + i \in 1..Len(q)
    BY <2>1
  <2>4. QueueInOrder'
    <3>1. \A i \in 1..Len(q) : rendered < q[i] /\ q[i] < next_frame
      OBVIOUS
    <3>2. \A i, j \in 1..(Len(q) - n) : i < j => q[n + i] < q[n + j]
      BY <2>1, <2>3
    <3> QED
      BY <1>1, <2>2, <2>3, <3>1, <3>2
  <2>5. CASE n = 0
    <3>1. frame_to_render' = NoFrame
      BY <1>3, <2>5 DEF Taken
    <3> QED
      BY <2>4, <3>1
  <2>6. CASE n # 0
    <3>1. n \in 1..Len(q) /\ frame_to_render' = q[n]
      BY <1>3, <2>1, <2>6 DEF Taken
    <3>2. \A i \in 1..(Len(q) - n) : q[n] < q[n + i]
      BY <2>1, <2>3, <3>1
    <3> QED
      BY <1>1, <2>1, <2>2, <3>1, <3>2, <2>4
  <2> QED
    BY <2>4, <2>5, <2>6
<1> QED
  BY <1>2, <1>3 DEF RenderTake

\* The callback gets the frame that was taken: it becomes the last one rendered, and
\* what waits is younger.
LEMMA RenderCallOrder ==
  ASSUME OrderInv, RenderCall
  PROVE  OrderInv'
<1> USE DEF OrderInv, QueueInOrder, TakenInOrder, Frames, NoFrame
<1>1. UNCHANGED <<incoming_frames_, next_frame, frame_to_render>> /\ render' \in {"calls", "loops"}
      /\ render = "renders"
  BY DEF RenderCall, queue
<1>2. rendered' = rendered \/ (frame_to_render # NoFrame /\ rendered' = frame_to_render)
  BY DEF RenderCall
<1> QED
  BY <1>1, <1>2

\* No other step moves a frame.
LEMMA OtherOrder ==
  ASSUME OrderInv,
         UNCHANGED <<incoming_frames_, next_frame, frame_to_render, rendered>>,
         render' = render \/ render' \in {"none", "waits", "woken", "loops"}
                          \/ (render = "starts_timer" /\ render' = "renders")
  PROVE  OrderInv'
BY DEF OrderInv, QueueInOrder, TakenInOrder

\* Every step keeps the frames in order.
LEMMA NextOrder ==
  OrderInv /\ [Next]_vars => OrderInv'
<1> SUFFICES ASSUME OrderInv, [Next]_vars PROVE OrderInv'
  OBVIOUS
<1>1. CASE RenderFrame
  BY <1>1, RenderFrameOrder
<1>2. CASE Reset
  BY <1>2, ResetOrder
<1>3. CASE RenderTake
  BY <1>3, RenderTakeOrder
<1>4. CASE RenderCall
  BY <1>4, RenderCallOrder
<1>5. CASE Start \/ Stop \/ StopSteps \/ (\E set \in BOOLEAN : SetCallback(set))
           \/ (\E f \in Frames : BecomesDue(f)) \/ UNCHANGED vars
  BY <1>5, OtherOrder DEF Start, Stop, StopSteps, StopTimerThread, JoinTimerThread,
       JoinRenderThread, SetCallback, BecomesDue, queue, vars
<1>6. CASE RenderWait \/ RenderStartTimer \/ RenderReturn \/ RenderLoop
  BY <1>6, OtherOrder DEF RenderWait, RenderStartTimer, RenderReturn, RenderLoop, queue
<1>7. CASE TimerSteps
  BY <1>7, OtherOrder DEF TimerSteps, TimerPeriod, TimerSignaled, TimerTimesOut, TimerFires,
       TimerLoop, queue
<1> QED
  BY <1>1, <1>2, <1>3, <1>4, <1>5, <1>6, <1>7 DEF Next, RenderSteps

\* Frames are rendered in the order in which the decoder delivered them and none
\* twice, for any number of frames, whatever their render times and however Stop,
\* Start, Reset and changes of the callback interleave with the render thread.
THEOREM FramesRenderedInOrder == Spec => RenderedInOrder
<1>1. OrderInv /\ [Next]_vars =>
        [render' = "calls" /\ render # "calls" /\ frame_to_render # NoFrame
           => frame_to_render > rendered]_vars
  <2> SUFFICES ASSUME OrderInv, Next, render' = "calls", render # "calls",
                      frame_to_render # NoFrame
               PROVE  frame_to_render > rendered
    OBVIOUS
  <2>1. render = "renders"
    BY DEF Next, StopSteps, RenderSteps, TimerSteps, RenderFrame, Reset, SetCallback, BecomesDue,
       Start, Stop, StopTimerThread, JoinTimerThread, JoinRenderThread, RenderWait, RenderTake,
       RenderStartTimer, RenderCall, RenderReturn, RenderLoop, TimerPeriod, TimerSignaled,
       TimerTimesOut, TimerFires, TimerLoop
  <2> QED
    BY <2>1 DEF OrderInv, QueueInOrder, TakenInOrder, Frames, NoFrame
<1> QED
  BY <1>1, InitOrder, NextOrder, PTL DEF Spec, RenderedInOrder
=============================================================================
