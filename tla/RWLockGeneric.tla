----------------------------- MODULE RWLockGeneric -----------------------------
(* The readers-writer lock for systems without a native one                   *)
(* (system_wrappers/source/rw_lock_generic.cc), over the condition variable   *)
(* those systems get (ConditionVariableEventWin).  A step is what a thread    *)
(* does between two points where another thread can come in: everything under *)
(* critical_section_, except that Wake and WakeAll set their event in a step  *)
(* of its own, since a thread inside SleepCS does not hold critical_section_  *)
(* and may run in between.                                                    *)
EXTENDS Integers, FiniteSets, ConditionVariableEventWin

CONSTANT Threads          \* the threads that use the lock

ASSUME ThreadsAssumption == IsFiniteSet(Threads)

None == "none"
Modes == {"shared", "exclusive"}

VARIABLES
  readers_active_, writer_active_, readers_waiting_, writers_waiting_,
  critical_section_,   \* the thread that keeps critical_section_ between two steps, or None
  condition,           \* read_condition_ ("shared") and write_condition_ ("exclusive")
  pc,                  \* where each thread is
  mode,                \* the kind of lock each thread asked for last
  turn,                \* eventID in SleepCS: the WakeAll event the thread waits for
  result               \* the event that ended WaitForMultipleObjects, or the one to be set

counters == <<readers_active_, writer_active_, readers_waiting_, writers_waiting_>>
vars == <<counters, critical_section_, condition, pc, mode, turn, result>>

Places == {"idle", "holds", "asleep", "woken", "reset", "resumes", "wakes"}

TypeOK == /\ readers_active_ \in Nat /\ writer_active_ \in BOOLEAN
          /\ readers_waiting_ \in Nat /\ writers_waiting_ \in Nat
          /\ critical_section_ \in Threads \cup {None}
          /\ condition \in [Modes -> CondType]
          /\ pc \in [Threads -> Places]
          /\ mode \in [Threads -> Modes]
          /\ turn \in [Threads -> Turns]
          /\ result \in [Threads -> Turns \cup {WAKE}]

Init == /\ readers_active_ = 0 /\ writer_active_ = FALSE
        /\ readers_waiting_ = 0 /\ writers_waiting_ = 0
        /\ critical_section_ = None
        /\ condition = [m \in Modes |-> NewCondition]
        /\ pc = [t \in Threads |-> "idle"]
        /\ mode \in [Threads -> Modes]
        /\ turn = [t \in Threads |-> 0]
        /\ result = [t \in Threads |-> WAKE]

-----------------------------------------------------------------------------
\* Faulty variant: a writer waits for a writer only.
BlockedByWriter == writer_active_

\* The conditions under which the two Acquire functions wait.
WriterBlocked == writer_active_ \/ readers_active_ > 0

ReaderBlocked == writer_active_ \/ writers_waiting_ > 0

\* --writers_waiting_ and --readers_waiting_ when the loop ends.
StopWaiting(n) == n - 1

\* SleepCS until critical_section_ is left.
FallAsleep(t, m) == /\ condition' = [condition EXCEPT ![m] = Counted(@)]
                    /\ turn' = [turn EXCEPT ![t] = NextTurn(condition[m])]
                    /\ pc' = [pc EXCEPT ![t] = "asleep"]

\* AcquireLockExclusive and AcquireLockShared by a thread that holds nothing:
\* it takes the lock at once, or counts itself as waiting and goes to sleep.
AcquireLockExclusive(t) ==
  /\ pc[t] = "idle" /\ critical_section_ = None
  /\ mode' = [mode EXCEPT ![t] = "exclusive"]
  /\ \/ /\ ~WriterBlocked
        /\ writer_active_' = TRUE
        /\ pc' = [pc EXCEPT ![t] = "holds"]
        /\ UNCHANGED <<writers_waiting_, condition, turn>>
     \/ /\ WriterBlocked
        /\ writers_waiting_' = writers_waiting_ + 1
        /\ FallAsleep(t, "exclusive")
        /\ UNCHANGED writer_active_
  /\ UNCHANGED <<readers_active_, readers_waiting_, critical_section_, result>>

AcquireLockShared(t) ==
  /\ pc[t] = "idle" /\ critical_section_ = None
  /\ mode' = [mode EXCEPT ![t] = "shared"]
  /\ \/ /\ ~ReaderBlocked
        /\ readers_active_' = readers_active_ + 1
        /\ pc' = [pc EXCEPT ![t] = "holds"]
        /\ UNCHANGED <<readers_waiting_, condition, turn>>
     \/ /\ ReaderBlocked
        /\ readers_waiting_' = readers_waiting_ + 1
        /\ FallAsleep(t, "shared")
        /\ UNCHANGED readers_active_
  /\ UNCHANGED <<writer_active_, writers_waiting_, critical_section_, result>>

\* Inside SleepCS: the wait ends, ...
Awake(t) ==
  /\ pc[t] = "asleep"
  /\ Signaled(condition[mode[t]], turn[t])
  /\ result' = [result EXCEPT ![t] = WaitResult(condition[mode[t]], turn[t])]
  /\ condition' = [condition EXCEPT ![mode[t]] = Returned(@, turn[t])]
  /\ pc' = [pc EXCEPT ![t] = "woken"]
  /\ UNCHANGED <<counters, critical_section_, mode, turn>>

\* ... the thread is no longer counted, ...
LeaveWaiters(t) ==
  /\ pc[t] = "woken"
  /\ condition' = [condition EXCEPT ![mode[t]] = Uncounted(@, turn[t])]
  /\ pc' = [pc EXCEPT ![t] = IF LastWaiter(condition[mode[t]], turn[t], result[t])
                             THEN "reset" ELSE "resumes"]
  /\ UNCHANGED <<counters, critical_section_, mode, turn, result>>

\* ... and the last one resets the event.
ResetWakeAll(t) ==
  /\ pc[t] = "reset"
  /\ condition' = [condition EXCEPT ![mode[t]] = ResetEvent(@, turn[t])]
  /\ pc' = [pc EXCEPT ![t] = "resumes"]
  /\ UNCHANGED <<counters, critical_section_, mode, turn, result>>

\* SleepCS enters critical_section_ again and returns into the loop: the thread
\* has its turn or sleeps once more.
ResumeExclusive(t) ==
  /\ pc[t] = "resumes" /\ mode[t] = "exclusive" /\ critical_section_ = None
  /\ \/ /\ ~WriterBlocked
        /\ writers_waiting_' = StopWaiting(writers_waiting_)
        /\ writer_active_' = TRUE
        /\ pc' = [pc EXCEPT ![t] = "holds"]
        /\ UNCHANGED <<condition, turn>>
     \/ /\ WriterBlocked
        /\ FallAsleep(t, "exclusive")
        /\ UNCHANGED <<writers_waiting_, writer_active_>>
  /\ UNCHANGED <<readers_active_, readers_waiting_, critical_section_, mode, result>>

ResumeShared(t) ==
  /\ pc[t] = "resumes" /\ mode[t] = "shared" /\ critical_section_ = None
  /\ \/ /\ ~ReaderBlocked
        /\ readers_waiting_' = StopWaiting(readers_waiting_)
        /\ readers_active_' = readers_active_ + 1
        /\ pc' = [pc EXCEPT ![t] = "holds"]
        /\ UNCHANGED <<condition, turn>>
     \/ /\ ReaderBlocked
        /\ FallAsleep(t, "shared")
        /\ UNCHANGED <<readers_waiting_, readers_active_>>
  /\ UNCHANGED <<writer_active_, writers_waiting_, critical_section_, mode, result>>

-----------------------------------------------------------------------------
\* The caller of Wake or WakeAll keeps critical_section_ and will set event e;
\* mode[t] now names the condition variable.
WillSet(t, m, e) == /\ critical_section_' = t
                    /\ mode' = [mode EXCEPT ![t] = m]
                    /\ result' = [result EXCEPT ![t] = e]
                    /\ pc' = [pc EXCEPT ![t] = "wakes"]

Returns(t) == /\ pc' = [pc EXCEPT ![t] = "idle"]
              /\ UNCHANGED <<critical_section_, mode, result>>

\* Wake on write_condition_, up to the call of SetEvent.
WakeWriter(t) == /\ IF HaveWaiters(condition["exclusive"])
                    THEN WillSet(t, "exclusive", WAKE) ELSE Returns(t)
                 /\ UNCHANGED condition

\* WakeAll on read_condition_, up to the call of SetEvent.
WakeReaders(t) ==
  /\ condition' = [condition EXCEPT !["shared"] = Turned(@)]
  /\ IF HaveWaitersOf(condition["shared"], NextTurn(condition["shared"]))
     THEN WillSet(t, "shared", NextTurn(condition["shared"])) ELSE Returns(t)

ReleaseLockExclusive(t) ==
  /\ pc[t] = "holds" /\ mode[t] = "exclusive" /\ critical_section_ = None
  /\ writer_active_' = FALSE
  /\ \/ writers_waiting_ > 0 /\ WakeWriter(t)
     \/ writers_waiting_ = 0 /\ readers_waiting_ > 0 /\ WakeReaders(t)
     \/ writers_waiting_ = 0 /\ readers_waiting_ = 0 /\ Returns(t) /\ UNCHANGED condition
  /\ UNCHANGED <<readers_active_, readers_waiting_, writers_waiting_, turn>>

\* Faulty variant: the count is compared before it is decremented.
NoReader(n) == n = 0

\* ReleaseLockShared wakes a writer when this was the last reader.
LastReader(n) == n - 1 = 0

ReleaseLockShared(t) ==
  /\ pc[t] = "holds" /\ mode[t] = "shared" /\ critical_section_ = None
  /\ readers_active_' = readers_active_ - 1
  /\ IF LastReader(readers_active_) /\ writers_waiting_ > 0
     THEN WakeWriter(t)
     ELSE Returns(t) /\ UNCHANGED condition
  /\ UNCHANGED <<writer_active_, readers_waiting_, writers_waiting_, turn>>

\* SetEvent; then critical_section_ is left.
FinishWake(t) ==
  /\ pc[t] = "wakes"
  /\ condition' = [condition EXCEPT ![mode[t]] = SetEvent(@, result[t])]
  /\ critical_section_' = None
  /\ pc' = [pc EXCEPT ![t] = "idle"]
  /\ UNCHANGED <<counters, mode, turn, result>>

-----------------------------------------------------------------------------
\* The steps of a call that has begun, and the release of a lock that is held.
Continue(t) == \/ Awake(t) \/ LeaveWaiters(t) \/ ResetWakeAll(t)
               \/ ResumeExclusive(t) \/ ResumeShared(t)
               \/ ReleaseLockExclusive(t) \/ ReleaseLockShared(t) \/ FinishWake(t)

Next == \E t \in Threads :
          AcquireLockExclusive(t) \/ AcquireLockShared(t) \/ Continue(t)

Spec == Init /\ [][Next]_vars

\* A thread does not stop inside a call or while it holds the lock; whether it
\* ever asks for the lock is its own affair.
FairSpec == Spec /\ \A t \in Threads : WF_vars(Continue(t))

-----------------------------------------------------------------------------
Holders(m) == {t \in Threads : pc[t] = "holds" /\ mode[t] = m}
Waiters(m) == {t \in Threads : pc[t] \in {"asleep", "woken", "reset", "resumes"} /\ mode[t] = m}

\* A thread that will sleep until somebody sets an event for it.
Sleeps(t) == pc[t] = "asleep" /\ ~Signaled(condition[mode[t]], turn[t])

\* The four counters of the lock.
LockCounters == /\ readers_active_ = Cardinality(Holders("shared"))
                /\ writer_active_ <=> Holders("exclusive") # {}
                /\ readers_waiting_ = Cardinality(Waiters("shared"))
                /\ writers_waiting_ = Cardinality(Waiters("exclusive"))

\* num_waiters_: the threads that wait for each event or have just returned from
\* the wait.
Sleepers(m, e) == {t \in Threads : pc[t] \in {"asleep", "woken"} /\ mode[t] = m /\ turn[t] = e}
WaitersCounted == \A m \in Modes, e \in Turns :
                    condition[m].num_waiters[e] = Cardinality(Sleepers(m, e))

\* The counters of the lock and of its two condition variables say who holds the
\* lock, who waits for it and who sleeps, at every point of SleepCS.  The release
\* functions decide by the former whether there is anybody to wake, and Wake and
\* WakeAll by the latter whether to set an event; a thread that sleeps again, for
\* another event, must be counted for that one.
CountersExact == LockCounters /\ WaitersCounted

\* No wake-up of a writer is lost: when all waiting writers sleep, somebody holds
\* the lock, or is about to set the event, and will wake one of them on leaving.
\* A writer that is signaled may find the lock taken again and sleep again, and
\* Wake may be called while the previous wake-up is still pending (rw_lock_generic.cc:50, 73).
WriterHasWaker ==
  (/\ Waiters("exclusive") # {}
   /\ \A t \in Waiters("exclusive") : Sleeps(t))
     => \/ readers_active_ > 0 \/ writer_active_
        \/ \E t \in Threads : pc[t] = "wakes" /\ mode[t] = "exclusive"

\* The lock is a readers-writer lock: every step is a step of ReadersWriters, or
\* one that only concerns waiting.
Abstract == INSTANCE ReadersWriters WITH readers <- Holders("shared"),
                                         writers <- Holders("exclusive")
ImplementsRWLock == Abstract!RWSpec

\* While a writer waits the lock is again and again given to a writer: readers
\* that keep coming cannot shut the writers out (rw_lock_generic.cc:58).
WritersProgress == writers_waiting_ > 0 ~> Holders("exclusive") # {}
=============================================================================
