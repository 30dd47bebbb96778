------------------------------- MODULE EventTimer -------------------------------
(* EventTimerPosix (system_wrappers/source/event_timer_posix.cc): an          *)
(* auto-reset event with a one-shot timer, as a record and its operations.    *)
(* Each operator is what one hold of mutex_ does; the threads that call them  *)
(* are in IncomingVideoStream.  How long a wait lasts is left open; periodic  *)
(* timers, which only the Mac renderers and tests start, are not modelled.    *)
EXTENDS Integers

\* event_set_; timer_thread_ # nullptr (timer_event_ exists exactly then) and the
\* state of timer_event_; created_at_ # 0; count_, where 2 stands for more than one.
EventTimerType == [event_set_ : BOOLEAN, timer_thread_ : BOOLEAN, timer_event_ : BOOLEAN,
                   created : BOOLEAN, count_ : 0..2]

NewEventTimer == [event_set_ |-> FALSE, timer_thread_ |-> FALSE, timer_event_ |-> FALSE,
                  created |-> FALSE, count_ |-> 0]

\* Set, and Wait when the event is set: it resets the event.
Set(e) == [e EXCEPT !.event_set_ = TRUE]
WaitSignaled(e) == [e EXCEPT !.event_set_ = FALSE]

\* StartTimer(false, time): a new thread, or a new reference time for the thread
\* there is and a signal to it.
StartTimer(e) == IF e.timer_thread_
                 THEN [e EXCEPT !.created = FALSE, !.timer_event_ = TRUE]
                 ELSE [e EXCEPT !.timer_thread_ = TRUE, !.timer_event_ = FALSE]

\* Process up to the wait: a new timer gets its reference time; ++count_.
StartPeriod(e) == [e EXCEPT !.created = TRUE,
                            !.count_ = IF ~e.created \/ @ = 0 THEN 1 ELSE 2]

\* timer_event_->Wait returns kEventSignaled.
TimerEventTaken(e) == [e EXCEPT !.timer_event_ = FALSE]

\* Process after a wait that has timed out: a one-shot timer fires in its first
\* period only.
Fire(e) == IF e.count_ = 1 THEN Set(e) ELSE e

\* StopTimer before it stops the thread, and after.
AnnounceStop(e) == [e EXCEPT !.timer_event_ = TRUE]
TimerStopped(e) == [NewEventTimer EXCEPT !.event_set_ = e.event_set_]
=============================================================================
