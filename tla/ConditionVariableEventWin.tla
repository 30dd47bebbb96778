----------------------- MODULE ConditionVariableEventWin -----------------------
(* The condition variable built from Windows events                           *)
(* (system_wrappers/source/condition_variable_event_win.cc), as a record and  *)
(* the operations on it.  Two manual-reset events take turns for WakeAll, so  *)
(* that a thread that sleeps again cannot be woken twice by the same call;    *)
(* an auto-reset event serves Wake.  The operators are the parts of SleepCS,  *)
(* Wake and WakeAll that run under num_waiters_crit_sect_ or inside one call  *)
(* of the system; the threads that interleave them are in RWLockGeneric.      *)
EXTENDS Integers

\* The indices of the two WakeAll events (WAKEALL_0, WAKEALL_1), and WAKE.
Turns == {0, 1}
WAKE == 2

CondType == [eventID : Turns, num_waiters : [Turns -> Nat], set : SUBSET (Turns \cup {WAKE})]

NewCondition == [eventID |-> 0, num_waiters |-> [e \in Turns |-> 0], set |-> {}]

\* The event the next call of WakeAll will set: the one a thread starts to wait for.
NextTurn(c) == 1 - c.eventID

\* Faulty variant: the thread is counted for the event set last.
CountedLast(c) == [c EXCEPT !.num_waiters[c.eventID] = @ + 1]

\* SleepCS up to LeaveCriticalSection: the thread is counted.
Counted(c) == [c EXCEPT !.num_waiters[NextTurn(c)] = @ + 1]

\* WaitForMultipleObjects returns for a thread that waits for WAKE and for turn e
\* when one of the two is set; WAKE, the first of the two, resets itself.
Signaled(c, e) == c.set \cap {WAKE, e} # {}
WaitResult(c, e) == IF WAKE \in c.set THEN WAKE ELSE e
Returned(c, e) == [c EXCEPT !.set = @ \ {WAKE}]

\* SleepCS after the wait: the thread is no longer counted, and the last one
\* that WakeAll has woken has to reset the event.
Uncounted(c, e) == [c EXCEPT !.num_waiters[e] = @ - 1]
LastWaiter(c, e, result) == result = e /\ c.num_waiters[e] = 1

\* SetEvent and ResetEvent.
SetEvent(c, e) == [c EXCEPT !.set = @ \cup {e}]
ResetEvent(c, e) == [c EXCEPT !.set = @ \ {e}]

\* Wake and WakeAll under num_waiters_crit_sect_: WakeAll takes the next turn.
\* The event is set afterwards, and only if somebody was counted.
HaveWaiters(c) == \E e \in Turns : c.num_waiters[e] > 0
Turned(c) == [c EXCEPT !.eventID = NextTurn(c)]
HaveWaitersOf(c, e) == c.num_waiters[e] > 0
=============================================================================
