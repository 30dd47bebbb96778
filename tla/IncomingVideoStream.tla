-------------------------- MODULE IncomingVideoStream --------------------------
(* The render stream: decoded frames are queued (common_video/                *)
(* video_render_frames.cc) and a thread hands them to the renderer when they  *)
(* are due, woken by an event with a timer (common_video/                     *)
(* incoming_video_stream.cc, EventTimer).  Four threads: the decoder, which   *)
(* calls RenderFrame; the application, which starts, stops and resets the     *)
(* stream and changes its callback; the render thread; the timer thread.      *)
(* A step is one hold of a lock, or one wait.                                 *)
EXTENDS Integers, Sequences, Functions, EventTimer

CONSTANT MaxFrames     \* bound: frames the decoder delivers

ASSUME MaxFramesAssumption == MaxFrames \in Nat

Frames == 1..MaxFrames
NoFrame == 0           \* a VideoFrame of zero size

VARIABLES
  running_, callback_,      \* callback_: an external or a render callback is set
  incoming_frames_,         \* VideoRenderFrames: the queue
  due,                      \* the frames whose time to be rendered has come
  next_frame,               \* the frame the decoder delivers next
  deliver_buffer_event_,    \* the EventTimer
  incoming_render_thread_,  \* incoming_render_thread_ # NULL
  app, render, timer,       \* where the three threads are
  timer_stop,               \* the timer thread's stop_event_
  frame_to_render, rendered \* the render thread's frame, and the last one rendered

queue == <<incoming_frames_, due, next_frame>>
vars == <<running_, callback_, queue, deliver_buffer_event_, incoming_render_thread_,
          app, render, timer, timer_stop, frame_to_render, rendered>>

TypeOK ==
  /\ running_ \in BOOLEAN /\ callback_ \in BOOLEAN /\ incoming_render_thread_ \in BOOLEAN
  /\ incoming_frames_ \in Seq(Frames) /\ due \subseteq Frames /\ next_frame \in 1..(MaxFrames + 1)
  /\ deliver_buffer_event_ \in EventTimerType
  /\ app \in {"idle", "stops_timer", "joins_timer", "joins_render"}
  /\ render \in {"none", "waits", "woken", "starts_timer", "renders", "calls", "loops"}
  /\ timer \in {"none", "top", "waits", "timed_out", "loops"}
  /\ timer_stop \in BOOLEAN
  /\ frame_to_render \in Frames \cup {NoFrame} /\ rendered \in Frames \cup {NoFrame}

Init ==
  /\ running_ = FALSE /\ callback_ = FALSE /\ incoming_render_thread_ = FALSE
  /\ incoming_frames_ = <<>> /\ due = {} /\ next_frame = 1
  /\ deliver_buffer_event_ = NewEventTimer
  /\ app = "idle" /\ render = "none" /\ timer = "none"
  /\ timer_stop = FALSE
  /\ frame_to_render = NoFrame /\ rendered = NoFrame

\* stream_critsect_ and thread_critsect_ are held while Stop waits for the timer
\* thread, stream_critsect_ alone while it waits for the render thread; the render
\* thread holds thread_critsect_ while it prepares and makes the callback.
StreamFree == app = "idle"
ThreadFree == app \notin {"stops_timer", "joins_timer"}
              /\ render \notin {"starts_timer", "renders", "calls"}

-----------------------------------------------------------------------------
\* The clock: a frame becomes due.
BecomesDue(f) == /\ f \in Range(incoming_frames_) \ due
                 /\ due' = due \cup {f}
                 /\ UNCHANGED <<running_, callback_, incoming_frames_, next_frame,
                                deliver_buffer_event_, incoming_render_thread_, app, render,
                                timer, timer_stop, frame_to_render, rendered>>

\* RenderFrame sets the event when the frame is the only one in the queue.
SetsEvent(q) == Len(q) = 1

\* RenderFrame, by the decoder.  A frame that is long overdue is dropped when others
\* wait, one that is too far in the future always; a stopped stream takes none.
RenderFrame ==
  /\ next_frame \in Frames /\ StreamFree
  /\ next_frame' = next_frame + 1
  /\ \/ \* accepted, due already or not
        /\ running_
        /\ incoming_frames_' = Append(incoming_frames_, next_frame)
        /\ due' \in {due, due \cup {next_frame}}
        /\ deliver_buffer_event_' = IF SetsEvent(incoming_frames_')
                                    THEN Set(deliver_buffer_event_) ELSE deliver_buffer_event_
     \/ \* refused: not running, too old or too early
        UNCHANGED <<incoming_frames_, due, deliver_buffer_event_>>
  /\ UNCHANGED <<running_, callback_, incoming_render_thread_, app, render, timer,
                 timer_stop, frame_to_render, rendered>>

\* Reset: ReleaseAllFrames.
Reset == /\ incoming_frames_' = <<>>
         /\ UNCHANGED <<running_, callback_, due, next_frame, deliver_buffer_event_,
                        incoming_render_thread_, app, render, timer, timer_stop,
                        frame_to_render, rendered>>

\* Faulty variant: SetRenderCallback and SetExternalCallback without the lock.
SetCallbackUnlocked(set) ==
  /\ callback_' = set
  /\ UNCHANGED <<running_, queue, deliver_buffer_event_, incoming_render_thread_, app, render,
                 timer, timer_stop, frame_to_render, rendered>>

\* SetRenderCallback and SetExternalCallback, by the application.
SetCallback(set) ==
  /\ app = "idle" /\ ThreadFree
  /\ callback_' = set
  /\ UNCHANGED <<running_, queue, deliver_buffer_event_, incoming_render_thread_, app, render,
                 timer, timer_stop, frame_to_render, rendered>>

-----------------------------------------------------------------------------
\* Start: both threads are created.
Start ==
  /\ app = "idle" /\ ThreadFree /\ ~running_
  /\ incoming_render_thread_' = TRUE /\ render' = "waits"
  /\ deliver_buffer_event_' = StartTimer(deliver_buffer_event_)
  /\ timer' = "top" /\ timer_stop' = FALSE
  /\ running_' = TRUE
  /\ UNCHANGED <<callback_, queue, app, frame_to_render, rendered>>

\* Stop takes both locks, marks the shutdown and calls StopTimer, which sets
\* timer_event_ ...
Stop ==
  /\ app = "idle" /\ ThreadFree /\ running_
  /\ incoming_render_thread_' = FALSE
  /\ deliver_buffer_event_' = AnnounceStop(deliver_buffer_event_)
  /\ app' = "stops_timer"
  /\ UNCHANGED <<running_, callback_, queue, render, timer, timer_stop,
                 frame_to_render, rendered>>

\* ... and then stop_event_ of the timer thread, ...
StopTimerThread ==
  /\ app = "stops_timer"
  /\ timer_stop' = TRUE
  /\ app' = "joins_timer"
  /\ UNCHANGED <<running_, callback_, queue, deliver_buffer_event_, incoming_render_thread_,
                 render, timer, frame_to_render, rendered>>

\* Faulty variant: Stop waits for the render thread with thread_critsect_ held.
JoinRenderFirst ==
  /\ app = "joins_timer" /\ timer = "none" /\ render = "none"
  /\ deliver_buffer_event_' = Set(TimerStopped(deliver_buffer_event_))
  /\ app' = "joins_render"
  /\ UNCHANGED <<running_, callback_, queue, incoming_render_thread_, render, timer,
                 timer_stop, frame_to_render, rendered>>

\* ... and waits for it.  Stop then sets the event and leaves thread_critsect_.
JoinTimerThread ==
  /\ app = "joins_timer" /\ timer = "none"
  /\ deliver_buffer_event_' = Set(TimerStopped(deliver_buffer_event_))
  /\ app' = "joins_render"
  /\ UNCHANGED <<running_, callback_, queue, incoming_render_thread_, render, timer,
                 timer_stop, frame_to_render, rendered>>

\* Stop waits for the render thread, with stream_critsect_ held.
JoinRenderThread ==
  /\ app = "joins_render" /\ render = "none"
  /\ running_' = FALSE
  /\ app' = "idle"
  /\ UNCHANGED <<callback_, queue, deliver_buffer_event_, incoming_render_thread_, render,
                 timer, timer_stop, frame_to_render, rendered>>

-----------------------------------------------------------------------------
\* Faulty variant: the render thread waits without a time limit.
NoTimeLimit == FALSE

\* deliver_buffer_event_->Wait(kEventMaxWaitTimeMs) has a time limit.
TimeLimit == TRUE

\* The render thread: the wait ends with the event set or with its time up.
RenderWait ==
  /\ render = "waits"
  /\ deliver_buffer_event_.event_set_ \/ TimeLimit
  /\ deliver_buffer_event_' = WaitSignaled(deliver_buffer_event_)
  /\ render' = "woken"
  /\ UNCHANGED <<running_, callback_, queue, incoming_render_thread_, app, timer, timer_stop,
                 frame_to_render, rendered>>

\* Faulty variant: the frame that is returned stays in the queue.
LeftWithTaken(q, n) == SubSeq(q, IF n = 0 THEN 1 ELSE n, Len(q))

\* FrameToRender takes frames from the front as long as the front one is due, and
\* returns the last one taken.
Taken(q, n) == IF n = 0 THEN NoFrame ELSE q[n]
Left(q, n) == SubSeq(q, n + 1, Len(q))
DuePrefix(q, n) == /\ \A i \in 1..n : q[i] \in due
                   /\ n < Len(q) => q[n + 1] \notin due

\* Faulty variant: the shutdown is not noticed.
GoesOn == TRUE

\* The test after the wait: the stream is not being stopped.
NotTerminating == incoming_render_thread_

\* IncomingVideoStreamProcess after the wait: the thread ends, or takes a frame.
RenderTake ==
  /\ render = "woken" /\ ThreadFree
  /\ \/ /\ ~NotTerminating
        /\ render' = "none"
        /\ UNCHANGED <<incoming_frames_, frame_to_render>>
     \/ /\ NotTerminating
        /\ \E n \in 0..Len(incoming_frames_) :
             /\ DuePrefix(incoming_frames_, n)
             /\ frame_to_render' = Taken(incoming_frames_, n)
             /\ incoming_frames_' = Left(incoming_frames_, n)
        /\ render' = "starts_timer"
  /\ UNCHANGED <<running_, callback_, due, next_frame, deliver_buffer_event_,
                 incoming_render_thread_, app, timer, timer_stop, rendered>>

RenderStartTimer ==
  /\ render = "starts_timer"
  /\ deliver_buffer_event_' = StartTimer(deliver_buffer_event_)
  /\ timer' = IF deliver_buffer_event_.timer_thread_ THEN timer ELSE "top"
  /\ timer_stop' = (deliver_buffer_event_.timer_thread_ /\ timer_stop)
  /\ render' = "renders"
  /\ UNCHANGED <<running_, callback_, queue, incoming_render_thread_, app, frame_to_render,
                 rendered>>

\* The callback gets the frame, or an image if there is none; without a callback
\* the frame is dropped.
RenderCall ==
  /\ render = "renders"
  /\ \/ /\ callback_
        /\ rendered' = IF frame_to_render = NoFrame THEN rendered ELSE frame_to_render
        /\ render' = "calls"
     \/ /\ ~callback_ \/ frame_to_render = NoFrame
        /\ render' = "loops"
        /\ UNCHANGED rendered
  /\ UNCHANGED <<running_, callback_, queue, deliver_buffer_event_, incoming_render_thread_,
                 app, timer, timer_stop, frame_to_render>>

RenderReturn ==
  /\ render = "calls"
  /\ render' = "loops"
  /\ UNCHANGED <<running_, callback_, queue, deliver_buffer_event_, incoming_render_thread_,
                 app, timer, timer_stop, frame_to_render, rendered>>

\* ThreadPosix::Run: the loop ends when Stop has set stop_event_.
RenderLoop ==
  /\ render = "loops"
  /\ render' = IF app = "joins_render" THEN "none" ELSE "waits"
  /\ UNCHANGED <<running_, callback_, queue, deliver_buffer_event_, incoming_render_thread_,
                 app, timer, timer_stop, frame_to_render, rendered>>

-----------------------------------------------------------------------------
\* The timer thread: Process up to the wait, ...
TimerPeriod ==
  /\ timer = "top"
  /\ deliver_buffer_event_' = StartPeriod(deliver_buffer_event_)
  /\ timer' = "waits"
  /\ UNCHANGED <<running_, callback_, queue, incoming_render_thread_, app, render, timer_stop,
                 frame_to_render, rendered>>

\* ... the wait, which ends with timer_event_ set or with its time up, ...
TimerSignaled ==
  /\ timer = "waits" /\ deliver_buffer_event_.timer_event_
  /\ deliver_buffer_event_' = TimerEventTaken(deliver_buffer_event_)
  /\ timer' = "loops"
  /\ UNCHANGED <<running_, callback_, queue, incoming_render_thread_, app, render, timer_stop,
                 frame_to_render, rendered>>

TimerTimesOut ==
  /\ timer = "waits" /\ ~deliver_buffer_event_.timer_event_
  /\ timer' = "timed_out"
  /\ UNCHANGED <<running_, callback_, queue, deliver_buffer_event_, incoming_render_thread_,
                 app, render, timer_stop, frame_to_render, rendered>>

\* ... and the call of Set.  A timer that was started after the time-out but before
\* this step has not fired by it.
TimerFires ==
  /\ timer = "timed_out"
  /\ deliver_buffer_event_' = Fire(deliver_buffer_event_)
  /\ timer' = "loops"
  /\ UNCHANGED <<running_, callback_, queue, incoming_render_thread_, app, render, timer_stop,
                 frame_to_render, rendered>>

\* ThreadPosix::Run, as above.
TimerLoop ==
  /\ timer = "loops"
  /\ timer' = IF timer_stop THEN "none" ELSE "top"
  /\ UNCHANGED <<running_, callback_, queue, deliver_buffer_event_, incoming_render_thread_,
                 app, render, timer_stop, frame_to_render, rendered>>

-----------------------------------------------------------------------------
StopSteps == StopTimerThread \/ JoinTimerThread \/ JoinRenderThread
RenderSteps == RenderWait \/ RenderTake \/ RenderStartTimer \/ RenderCall
               \/ RenderReturn \/ RenderLoop
TimerSteps == TimerPeriod \/ TimerSignaled \/ TimerTimesOut \/ TimerFires \/ TimerLoop

Next == \/ \E f \in Frames : BecomesDue(f)
        \/ RenderFrame \/ Reset
        \/ \E set \in BOOLEAN : SetCallback(set)
        \/ Start \/ Stop \/ StopSteps \/ RenderSteps \/ TimerSteps

Spec == Init /\ [][Next]_vars

\* The three threads run, waits with a time limit end, and the clock moves on; the
\* decoder and the application may do as they like.
FairSpec == /\ Spec
            /\ WF_vars(StopSteps) /\ WF_vars(RenderSteps) /\ WF_vars(TimerSteps)
            /\ \A f \in Frames : WF_vars(BecomesDue(f))

-----------------------------------------------------------------------------
\* The renderer is called only while the stream runs and with a callback that is
\* still set: Stop and SetRenderCallback(nullptr) return only when no call is in
\* progress, so that the application may delete the renderer after either.
CallbackAlive == render = "calls" => running_ /\ callback_

\* The timer thread waits on timer_event_ only while that exists.
TimerEventOutlivesThread == timer # "none" => deliver_buffer_event_.timer_thread_

\* No thread outlives what it uses: StopTimer frees timer_event_ only when the timer
\* thread has ended, and after Stop no thread is left and no timer, so that the
\* stream may be deleted.  The render thread must not start the timer again after
\* StopTimer (incoming_video_stream.cc:165, 221; event_timer_posix.cc:223).
NothingLeftRunning ==
  /\ TimerEventOutlivesThread
  /\ ~running_ => /\ render = "none" /\ timer = "none"
                  /\ ~deliver_buffer_event_.timer_thread_ /\ ~deliver_buffer_event_.timer_event_

\* Frames are rendered in the order of RenderFrame, none of them twice, whatever
\* their render times (video_render_frames.cc:56).
RenderedInOrder == [][render' = "calls" /\ render # "calls" /\ frame_to_render # NoFrame
                        => frame_to_render > rendered]_vars

\* A frame that RenderFrame has accepted leaves the queue, unless the stream is
\* stopped: RenderFrame sets the event only for the first frame of the queue, and
\* the timer may be lost, but the wait has a time limit.
FrameLeaves == \A f \in Frames :
                 f \in Range(incoming_frames_) ~> (f \notin Range(incoming_frames_) \/ ~running_)

\* Stop returns, although it waits for both threads with locks held that these
\* need, and the timer thread may take the signal of StopTimer for a new timer.
StopReturns == app # "idle" ~> app = "idle"

=============================================================================
