----------------------------- MODULE RWLockProofs -----------------------------
(* Proofs about RWLockGeneric, for any finite set of threads: the counters    *)
(* are exact, no wake-up of a writer is lost, and the lock implements         *)
(* ReadersWriters.                                                            *)
EXTENDS RWLockGeneric, FiniteSetTheorems, TLAPS

\* The main part of the inductive invariant.  WriterHasWaker rests on WaitersCounted, because Wake
\* sets no event when it finds nobody counted, and on LockCounters, because
\* nobody calls Wake when writers_waiting_ is 0.
Inv == TypeOK /\ LockCounters /\ WaitersCounted /\ WriterHasWaker

\* Its two other parts: a writer is alone, and a thread that is about to wake a
\* writer sets WAKE.
OneWriter == \A t \in Holders("exclusive") : Holders("exclusive") = {t} /\ Holders("shared") = {}
SetsWake == \A t \in Threads : pc[t] = "wakes" /\ mode[t] = "exclusive" => result[t] = WAKE

IInv == Inv /\ OneWriter /\ SetsWake

\* What a step does to the set of holders, as ReadersWriters allows it.
RWStep == [Abstract!RWNext]_Abstract!rwVars

\* Adding a thread to, and removing it from, a set of threads that is counted.
LEMMA CardAdd ==
  ASSUME NEW S \in SUBSET Threads, NEW t \in Threads, t \notin S
  PROVE  Cardinality(S \cup {t}) = Cardinality(S) + 1
<1>1. IsFiniteSet(S)
  BY ThreadsAssumption, FS_Subset
<1> QED
  BY <1>1, FS_AddElement

\* Removing a member takes one from the cardinality of a finite set.
LEMMA CardRemove ==
  ASSUME NEW S \in SUBSET Threads, NEW t \in S
  PROVE  Cardinality(S \ {t}) = Cardinality(S) - 1
<1>1. IsFiniteSet(S)
  BY ThreadsAssumption, FS_Subset
<1> QED
  BY <1>1, FS_RemoveElement

\* The cardinality of a finite set is a natural number.
LEMMA CardNat ==
  ASSUME NEW S \in SUBSET Threads
  PROVE  /\ Cardinality(S) \in Nat
         /\ Cardinality(S) = 0 <=> S = {}
<1>1. IsFiniteSet(S)
  BY ThreadsAssumption, FS_Subset
<1> QED
  BY <1>1, FS_CardinalityType, FS_EmptySet

\* The sets that are counted are sets of threads.
LEMMA CountedSets ==
  ASSUME NEW m, NEW e
  PROVE  /\ Holders(m) \in SUBSET Threads
         /\ Waiters(m) \in SUBSET Threads
         /\ Sleepers(m, e) \in SUBSET Threads
BY DEF Holders, Waiters, Sleepers

\* The operations of the condition variable keep its type.
LEMMA CondTypes ==
  ASSUME NEW c \in CondType, NEW e \in Turns
  PROVE  /\ NextTurn(c) \in Turns
         /\ Counted(c) \in CondType
         /\ Returned(c, e) \in CondType
         /\ WaitResult(c, e) \in Turns \cup {WAKE}
         /\ c.num_waiters[e] > 0 => Uncounted(c, e) \in CondType
         /\ Turned(c) \in CondType
         /\ ResetEvent(c, e) \in CondType
         /\ \A f \in Turns \cup {WAKE} : SetEvent(c, f) \in CondType
<1> USE DEF CondType, Turns, WAKE
<1>1. NextTurn(c) \in Turns
  BY DEF NextTurn
<1>2. Counted(c) \in CondType /\ Turned(c) \in CondType
  BY <1>1 DEF Counted, Turned
<1>3. c.num_waiters[e] > 0 => Uncounted(c, e) \in CondType
  BY DEF Uncounted
<1>4. Returned(c, e) \in CondType /\ ResetEvent(c, e) \in CondType
  BY DEF Returned, ResetEvent
<1>5. \A f \in Turns \cup {WAKE} : SetEvent(c, f) \in CondType
  BY DEF SetEvent
<1> QED
  BY <1>1, <1>2, <1>3, <1>4, <1>5 DEF WaitResult

\* What they do to the counts and to the events.
LEMMA CondFields ==
  ASSUME NEW c \in CondType, NEW e \in Turns
  PROVE  /\ \A f \in Turns : Counted(c).num_waiters[f]
                             = IF f = NextTurn(c) THEN c.num_waiters[f] + 1 ELSE c.num_waiters[f]
         /\ \A f \in Turns : Uncounted(c, e).num_waiters[f]
                             = IF f = e THEN c.num_waiters[f] - 1 ELSE c.num_waiters[f]
         /\ Returned(c, e).num_waiters = c.num_waiters
         /\ Turned(c).num_waiters = c.num_waiters
         /\ ResetEvent(c, e).num_waiters = c.num_waiters
         /\ \A f \in Turns \cup {WAKE} : /\ SetEvent(c, f).num_waiters = c.num_waiters
                                         /\ f \in SetEvent(c, f).set
<1> USE DEF CondType, Turns, WAKE
<1>1. NextTurn(c) \in Turns
  BY DEF NextTurn
<1>2. \A f \in Turns : Counted(c).num_waiters[f]
                       = IF f = NextTurn(c) THEN c.num_waiters[f] + 1 ELSE c.num_waiters[f]
  BY <1>1 DEF Counted
<1>3. \A f \in Turns : Uncounted(c, e).num_waiters[f]
                       = IF f = e THEN c.num_waiters[f] - 1 ELSE c.num_waiters[f]
  BY DEF Uncounted
<1> QED
  BY <1>2, <1>3 DEF Returned, Turned, ResetEvent, SetEvent

\* Holders is all the abstract lock sees.
LEMMA SameHolders ==
  ASSUME Holders("shared")' = Holders("shared"), Holders("exclusive")' = Holders("exclusive")
  PROVE  RWStep
BY DEF RWStep, Abstract!rwVars

-----------------------------------------------------------------------------
\* A new lock satisfies the invariant on the counters.
LEMMA InitInv ==
  Init => Inv
<1> SUFFICES ASSUME Init PROVE Inv
  OBVIOUS
<1>1. \A m \in Modes, e \in Turns : Holders(m) = {} /\ Waiters(m) = {} /\ Sleepers(m, e) = {}
  BY DEF Init, Holders, Waiters, Sleepers
<1>2. Cardinality({}) = 0
  BY FS_EmptySet
<1>3. TypeOK
  BY DEF Init, TypeOK, NewCondition, CondType, Turns, WAKE, Modes, Places
<1>4. LockCounters
  BY <1>1, <1>2 DEF Init, LockCounters, Modes, Turns
<1>5. WaitersCounted
  BY <1>1, <1>2 DEF Init, WaitersCounted, NewCondition, Modes, Turns
<1>6. WriterHasWaker
  BY <1>1 DEF WriterHasWaker, Modes, Turns
<1> QED
  BY <1>3, <1>4, <1>5, <1>6 DEF Inv

-----------------------------------------------------------------------------
(* One lemma per action.  Each says how the counted sets change, and draws    *)
(* from that the parts of the invariant the action can disturb.               *)

\* A thread that falls asleep is counted for the turn it waits for.
LEMMA FallAsleepCounts ==
  ASSUME TypeOK, WaitersCounted, NEW t \in Threads, NEW m \in Modes, FallAsleep(t, m),
         pc[t] \notin {"asleep", "woken"},
         mode' = [mode EXCEPT ![t] = m]
  PROVE  /\ WaitersCounted'
         /\ condition' \in [Modes -> CondType]
         /\ pc' \in [Threads -> Places] /\ turn' \in [Threads -> Turns]
         /\ mode' \in [Threads -> Modes]
<1>1. condition[m] \in CondType
  BY DEF TypeOK
<1>2. PICK e \in Turns : e = NextTurn(condition[m])
  BY <1>1, CondTypes DEF Turns
<1>3. Sleepers(m, e)' = Sleepers(m, e) \cup {t} /\ t \notin Sleepers(m, e)
  BY <1>2 DEF Sleepers, FallAsleep, TypeOK
<1>4. \A n \in Modes, f \in Turns : n # m \/ f # e => Sleepers(n, f)' = Sleepers(n, f)
  BY <1>2 DEF Sleepers, FallAsleep, TypeOK
<1>5. Cardinality(Sleepers(m, e)') = Cardinality(Sleepers(m, e)) + 1
  BY <1>3, CardAdd, CountedSets
<1>6. ASSUME NEW n \in Modes, NEW f \in Turns
      PROVE  condition'[n].num_waiters[f] = Cardinality(Sleepers(n, f)')
  <2> condition'[m] = Counted(condition[m])
    BY DEF FallAsleep, TypeOK
  <2>1. CASE n = m /\ f = e
    BY <1>1, <1>2, <1>5, <2>1, CondFields DEF WaitersCounted
  <2>2. CASE n = m /\ f # e
    BY <1>1, <1>2, <1>4, <2>2, CondFields DEF WaitersCounted
  <2>3. CASE n # m
    BY <1>4, <2>3 DEF FallAsleep, TypeOK, WaitersCounted
  <2> QED
    BY <2>1, <2>2, <2>3
<1>7. condition' \in [Modes -> CondType]
  BY <1>1, CondTypes DEF FallAsleep, TypeOK, Turns
<1> QED
  BY <1>2, <1>6, <1>7 DEF FallAsleep, TypeOK, WaitersCounted, Places

\* A step that moves no thread into or out of the waits, and changes no count.
LEMMA SameCounts ==
  ASSUME TypeOK, WaitersCounted, NEW t \in Threads, NEW place \in Places, NEW m \in Modes,
         pc' = [pc EXCEPT ![t] = place], mode' = [mode EXCEPT ![t] = m], UNCHANGED turn,
         \/ pc[t] \notin {"asleep", "woken"} /\ place \notin {"asleep", "woken"}
         \/ pc[t] = "asleep" /\ place = "woken" /\ m = mode[t],
         \A n \in Modes : condition'[n].num_waiters = condition[n].num_waiters
  PROVE  WaitersCounted'
<1>1. \A n \in Modes, f \in Turns : Sleepers(n, f)' = Sleepers(n, f)
  BY DEF Sleepers, TypeOK
<1> QED
  BY <1>1 DEF WaitersCounted

\* AcquireLockExclusive: the writer gets the lock, or is counted and sleeps.
LEMMA AcquireLockExclusiveInv ==
  ASSUME Inv, NEW t \in Threads, AcquireLockExclusive(t)
  PROVE  Inv' /\ RWStep
<1> USE DEF Inv
<1>1. CASE ~WriterBlocked /\ writer_active_' = TRUE /\ pc' = [pc EXCEPT ![t] = "holds"]
           /\ UNCHANGED <<writers_waiting_, condition, turn>>
  <2> USE <1>1 DEF AcquireLockExclusive
  <2> readers_active_ = 0 /\ ~writer_active_
    BY DEF WriterBlocked, TypeOK
  <2>1. Holders("exclusive") = {} /\ Holders("shared") = {}
    BY CardNat, CountedSets DEF LockCounters
  <2>2. Holders("exclusive")' = {t} /\ Holders("shared")' = Holders("shared")
    BY <2>1 DEF Holders, TypeOK, Modes
  <2>3. \A m \in Modes : Waiters(m)' = Waiters(m)
    BY DEF Waiters, TypeOK
  <2>4. TypeOK'
    BY DEF TypeOK, Places, Modes
  <2>5. LockCounters'
    BY <2>2, <2>3 DEF LockCounters, Modes
  <2>6. WaitersCounted'
    BY SameCounts DEF Places, Modes
  <2>7. WriterHasWaker'
    BY DEF WriterHasWaker
  <2>8. RWStep
    BY <2>1, <2>2 DEF RWStep, Abstract!RWNext, Abstract!Seize
  <2> QED
    BY <2>4, <2>5, <2>6, <2>7, <2>8
<1>2. CASE WriterBlocked /\ writers_waiting_' = writers_waiting_ + 1
           /\ FallAsleep(t, "exclusive") /\ UNCHANGED writer_active_
  <2> USE <1>2 DEF AcquireLockExclusive
  <2>1. \A m \in Modes : Holders(m)' = Holders(m)
    BY DEF Holders, FallAsleep, TypeOK
  <2>2. /\ Waiters("exclusive")' = Waiters("exclusive") \cup {t}
        /\ t \notin Waiters("exclusive")
        /\ Waiters("shared")' = Waiters("shared")
    BY DEF Waiters, FallAsleep, TypeOK
  <2>3. LockCounters'
    BY <2>1, <2>2, CardAdd, CountedSets DEF LockCounters, Modes
  <2> "exclusive" \in Modes /\ pc[t] \notin {"asleep", "woken"} /\ writers_waiting_' \in Nat
    BY DEF Modes, TypeOK
  <2>4. TypeOK' /\ WaitersCounted'
    BY FallAsleepCounts DEF TypeOK
  <2>5. WriterHasWaker'
    BY DEF WriterHasWaker, WriterBlocked
  <2> QED
    BY <2>1, <2>3, <2>4, <2>5, SameHolders DEF Modes
<1> QED
  BY <1>1, <1>2 DEF AcquireLockExclusive

\* AcquireLockShared: the reader gets the lock, or is counted and sleeps.
LEMMA AcquireLockSharedInv ==
  ASSUME Inv, NEW t \in Threads, AcquireLockShared(t)
  PROVE  Inv' /\ RWStep
<1> USE DEF Inv
<1>1. CASE ~ReaderBlocked /\ readers_active_' = readers_active_ + 1
           /\ pc' = [pc EXCEPT ![t] = "holds"]
           /\ UNCHANGED <<readers_waiting_, condition, turn>>
  <2> USE <1>1 DEF AcquireLockShared
  <2> ~writer_active_
    BY DEF ReaderBlocked
  <2>1. Holders("exclusive") = {}
    BY DEF LockCounters
  <2>2. /\ Holders("shared")' = Holders("shared") \cup {t}
        /\ t \notin Holders("shared")
        /\ Holders("exclusive")' = Holders("exclusive")
    BY DEF Holders, TypeOK, Modes
  <2>3. \A m \in Modes : Waiters(m)' = Waiters(m)
    BY DEF Waiters, TypeOK
  <2>4. TypeOK'
    BY DEF TypeOK, Places, Modes
  <2>5. LockCounters'
    BY <2>2, <2>3, CardAdd, CountedSets DEF LockCounters, Modes
  <2>6. WaitersCounted'
    BY SameCounts DEF Places, Modes
  <2> readers_active_' > 0
    BY DEF TypeOK
  <2>7. WriterHasWaker'
    BY DEF WriterHasWaker
  <2>8. RWStep
    BY <2>1, <2>2 DEF RWStep, Abstract!RWNext, Abstract!Share
  <2> QED
    BY <2>4, <2>5, <2>6, <2>7, <2>8
<1>2. CASE ReaderBlocked /\ readers_waiting_' = readers_waiting_ + 1
           /\ FallAsleep(t, "shared") /\ UNCHANGED readers_active_
  <2> USE <1>2 DEF AcquireLockShared
  <2>1. \A m \in Modes : Holders(m)' = Holders(m)
    BY DEF Holders, FallAsleep, TypeOK
  <2>2. /\ Waiters("shared")' = Waiters("shared") \cup {t}
        /\ t \notin Waiters("shared")
        /\ Waiters("exclusive")' = Waiters("exclusive")
    BY DEF Waiters, FallAsleep, TypeOK
  <2>3. LockCounters'
    BY <2>1, <2>2, CardAdd, CountedSets DEF LockCounters, Modes
  <2> "shared" \in Modes /\ pc[t] \notin {"asleep", "woken"} /\ readers_waiting_' \in Nat
    BY DEF Modes, TypeOK
  <2>4. TypeOK' /\ WaitersCounted'
    BY FallAsleepCounts DEF TypeOK
  <2>5. \A u \in Waiters("exclusive") : Sleeps(u)' <=> Sleeps(u)
    BY DEF Waiters, Sleeps, FallAsleep, TypeOK, Modes
  <2>6. \A u \in Threads : pc[u] = "wakes" /\ mode[u] = "exclusive"
                          => pc'[u] = "wakes" /\ mode'[u] = "exclusive"
    BY DEF FallAsleep, TypeOK
  <2>7. WriterHasWaker'
    BY <2>2, <2>5, <2>6 DEF WriterHasWaker
  <2> QED
    BY <2>1, <2>3, <2>4, <2>7, SameHolders DEF Modes
<1> QED
  BY <1>1, <1>2 DEF AcquireLockShared

\* The steps inside SleepCS change neither the holders nor the waiters.
LEMMA InsideSleep ==
  ASSUME Inv, NEW t \in Threads, NEW place \in {"woken", "reset", "resumes"},
         pc[t] \in {"asleep", "woken", "reset"}, pc' = [pc EXCEPT ![t] = place],
         UNCHANGED <<counters, mode, turn>>,
         \A m \in Modes : m # mode[t] => condition'[m] = condition[m]
  PROVE  LockCounters' /\ WriterHasWaker' /\ RWStep
<1> USE DEF Inv
<1>1. \A m \in Modes : Holders(m)' = Holders(m) /\ Waiters(m)' = Waiters(m)
  BY DEF Holders, Waiters, TypeOK
<1>2. LockCounters'
  BY <1>1 DEF LockCounters, counters, Modes
<1>3. WriterHasWaker'
  <2>1. CASE mode[t] = "exclusive"
    <3>1. t \in Waiters("exclusive")' /\ ~Sleeps(t)'
      BY <2>1 DEF Waiters, Sleeps, TypeOK
    <3> QED
      BY <3>1 DEF WriterHasWaker
  <2>2. CASE mode[t] = "shared"
    <3>1. \A u \in Waiters("exclusive") : Sleeps(u)' <=> Sleeps(u)
      BY <2>2 DEF Waiters, Sleeps, TypeOK, Modes
    <3>2. \A u \in Threads : pc[u] = "wakes" => pc'[u] = "wakes"
      BY DEF TypeOK
    <3> QED
      BY <1>1, <3>1, <3>2 DEF WriterHasWaker, counters, Modes
  <2> QED
    BY <2>1, <2>2 DEF TypeOK, Modes
<1> QED
  BY <1>1, <1>2, <1>3, SameHolders DEF Modes

\* The wait in SleepCS ends: the thread is still counted.
LEMMA AwakeInv ==
  ASSUME Inv, NEW t \in Threads, Awake(t)
  PROVE  Inv' /\ RWStep
<1> USE DEF Inv, Awake
<1>1. condition[mode[t]] \in CondType /\ mode[t] \in Modes /\ turn[t] \in Turns
  BY DEF TypeOK
<1>2. condition'[mode[t]] = Returned(condition[mode[t]], turn[t])
      /\ \A m \in Modes : m # mode[t] => condition'[m] = condition[m]
  BY <1>1 DEF TypeOK
<1>3. LockCounters' /\ WriterHasWaker' /\ RWStep
  BY <1>2, InsideSleep
<1>4. \A m \in Modes : condition'[m].num_waiters = condition[m].num_waiters
  BY <1>1, <1>2, CondFields
<1> mode' = [mode EXCEPT ![t] = mode[t]] /\ UNCHANGED turn
  BY DEF TypeOK
<1>5. WaitersCounted'
  BY <1>1, <1>4, SameCounts DEF Places
<1>6. condition' \in [Modes -> CondType] /\ result' \in [Threads -> Turns \cup {WAKE}]
  BY <1>1, CondTypes DEF TypeOK
<1>7. TypeOK'
  BY <1>6 DEF TypeOK, counters, Places
<1> QED
  BY <1>3, <1>5, <1>7

\* SleepCS takes the thread out of num_waiters_.
LEMMA LeaveWaitersInv ==
  ASSUME Inv, NEW t \in Threads, LeaveWaiters(t)
  PROVE  Inv' /\ RWStep
<1> USE DEF Inv, LeaveWaiters
<1>1. PICK m \in Modes, e \in Turns : m = mode[t] /\ e = turn[t]
  BY DEF TypeOK
<1>2. condition[m] \in CondType
  BY DEF TypeOK
<1>3. condition'[m] = Uncounted(condition[m], e)
      /\ \A n \in Modes : n # m => condition'[n] = condition[n]
  BY <1>1 DEF TypeOK
<1>4. PICK place \in {"reset", "resumes"} : pc' = [pc EXCEPT ![t] = place]
  OBVIOUS
<1>5. LockCounters' /\ WriterHasWaker' /\ RWStep
  BY <1>1, <1>3, <1>4, InsideSleep
<1>6. Sleepers(m, e)' = Sleepers(m, e) \ {t} /\ t \in Sleepers(m, e)
  BY <1>1, <1>4 DEF Sleepers, TypeOK
<1>7. \A n \in Modes, f \in Turns : n # m \/ f # e => Sleepers(n, f)' = Sleepers(n, f)
  BY <1>1, <1>4 DEF Sleepers, TypeOK
<1>8. Cardinality(Sleepers(m, e)') = Cardinality(Sleepers(m, e)) - 1
  BY <1>6, CardRemove, CountedSets
<1>9. condition[m].num_waiters[e] > 0
  BY <1>6, CardNat, CountedSets DEF WaitersCounted
<1>10. WaitersCounted'
  <2> SUFFICES ASSUME NEW n \in Modes, NEW f \in Turns
               PROVE  condition'[n].num_waiters[f] = Cardinality(Sleepers(n, f)')
    BY DEF WaitersCounted
  <2>1. CASE n = m /\ f = e
    BY <1>2, <1>3, <1>8, <2>1, CondFields DEF WaitersCounted
  <2>2. CASE n = m /\ f # e
    BY <1>2, <1>3, <1>7, <2>2, CondFields DEF WaitersCounted
  <2>3. CASE n # m
    BY <1>3, <1>7, <2>3 DEF WaitersCounted
  <2> QED
    BY <2>1, <2>2, <2>3
<1>11. condition' \in [Modes -> CondType]
  BY <1>1, <1>2, <1>9, CondTypes DEF TypeOK
<1>12. TypeOK'
  BY <1>4, <1>11 DEF TypeOK, counters, Places
<1> QED
  BY <1>5, <1>10, <1>12

\* SleepCS resets the event of WakeAll: no counter changes.
LEMMA ResetWakeAllInv ==
  ASSUME Inv, NEW t \in Threads, ResetWakeAll(t)
  PROVE  Inv' /\ RWStep
<1> USE DEF Inv, ResetWakeAll
<1>1. condition[mode[t]] \in CondType /\ mode[t] \in Modes /\ turn[t] \in Turns
  BY DEF TypeOK
<1>2. condition'[mode[t]] = ResetEvent(condition[mode[t]], turn[t])
      /\ \A m \in Modes : m # mode[t] => condition'[m] = condition[m]
  BY <1>1 DEF TypeOK
<1>3. LockCounters' /\ WriterHasWaker' /\ RWStep
  BY <1>2, InsideSleep
<1>4. \A m \in Modes : condition'[m].num_waiters = condition[m].num_waiters
  BY <1>1, <1>2, CondFields
<1> mode' = [mode EXCEPT ![t] = mode[t]] /\ UNCHANGED turn
  BY DEF TypeOK
<1>5. WaitersCounted'
  BY <1>1, <1>4, SameCounts DEF Places
<1>6. condition' \in [Modes -> CondType]
  BY <1>1, CondTypes DEF TypeOK
<1>7. TypeOK'
  BY <1>6 DEF TypeOK, counters, Places
<1> QED
  BY <1>3, <1>5, <1>7

\* A writer returns into its loop: it has the lock, or sleeps again.
LEMMA ResumeExclusiveInv ==
  ASSUME Inv, NEW t \in Threads, ResumeExclusive(t)
  PROVE  Inv' /\ RWStep
<1> USE DEF Inv
<1> t \in Waiters("exclusive") /\ mode' = [mode EXCEPT ![t] = "exclusive"]
  BY DEF Waiters, ResumeExclusive, TypeOK
<1>1. CASE ~WriterBlocked /\ writers_waiting_' = StopWaiting(writers_waiting_)
           /\ writer_active_' = TRUE /\ pc' = [pc EXCEPT ![t] = "holds"]
           /\ UNCHANGED <<condition, turn>>
  <2> USE <1>1 DEF ResumeExclusive
  <2> readers_active_ = 0 /\ ~writer_active_
    BY DEF WriterBlocked, TypeOK
  <2>1. Holders("exclusive") = {} /\ Holders("shared") = {}
    BY CardNat, CountedSets DEF LockCounters
  <2>2. Holders("exclusive")' = {t} /\ Holders("shared")' = Holders("shared")
    BY <2>1 DEF Holders, TypeOK, Modes
  <2>3. Waiters("exclusive")' = Waiters("exclusive") \ {t} /\ Waiters("shared")' = Waiters("shared")
    BY DEF Waiters, TypeOK
  <2>c. Cardinality(Waiters("exclusive") \ {t}) = Cardinality(Waiters("exclusive")) - 1
    BY CardRemove, CountedSets
  <2>4. LockCounters'
    BY <2>2, <2>3, <2>c DEF LockCounters, StopWaiting
  <2>5. writers_waiting_' \in Nat
    <3>1. Cardinality(Waiters("exclusive") \ {t}) \in Nat
      BY CardNat, CountedSets
    <3> QED
      BY <2>3, <2>4, <3>1 DEF LockCounters
  <2>6. TypeOK'
    BY <2>5 DEF TypeOK, Places, Modes
  <2>7. WaitersCounted'
    BY SameCounts DEF Places, Modes
  <2>8. WriterHasWaker'
    BY DEF WriterHasWaker
  <2>9. RWStep
    BY <2>1, <2>2 DEF RWStep, Abstract!RWNext, Abstract!Seize
  <2> QED
    BY <2>4, <2>6, <2>7, <2>8, <2>9
<1>2. CASE WriterBlocked /\ FallAsleep(t, "exclusive")
           /\ UNCHANGED <<writers_waiting_, writer_active_>>
  <2> USE <1>2 DEF ResumeExclusive
  <2>1. \A m \in Modes : Holders(m)' = Holders(m) /\ Waiters(m)' = Waiters(m)
    BY DEF Holders, Waiters, FallAsleep, TypeOK
  <2>2. LockCounters'
    BY <2>1 DEF LockCounters, Modes
  <2> "exclusive" \in Modes /\ pc[t] \notin {"asleep", "woken"}
    BY DEF Modes, TypeOK
  <2>3. TypeOK' /\ WaitersCounted'
    BY FallAsleepCounts DEF TypeOK
  <2>4. WriterHasWaker'
    BY DEF WriterHasWaker, WriterBlocked
  <2> QED
    BY <2>1, <2>2, <2>3, <2>4, SameHolders DEF Modes
<1> QED
  BY <1>1, <1>2 DEF ResumeExclusive

\* A reader returns into its loop: it has the lock, or sleeps again.
LEMMA ResumeSharedInv ==
  ASSUME Inv, NEW t \in Threads, ResumeShared(t)
  PROVE  Inv' /\ RWStep
<1> USE DEF Inv
<1> t \in Waiters("shared") /\ mode' = [mode EXCEPT ![t] = "shared"]
  BY DEF Waiters, ResumeShared, TypeOK
<1>1. CASE ~ReaderBlocked /\ readers_waiting_' = StopWaiting(readers_waiting_)
           /\ readers_active_' = readers_active_ + 1 /\ pc' = [pc EXCEPT ![t] = "holds"]
           /\ UNCHANGED <<condition, turn>>
  <2> USE <1>1 DEF ResumeShared
  <2> ~writer_active_
    BY DEF ReaderBlocked
  <2>1. Holders("exclusive") = {}
    BY DEF LockCounters
  <2>2. /\ Holders("shared")' = Holders("shared") \cup {t}
        /\ t \notin Holders("shared")
        /\ Holders("exclusive")' = Holders("exclusive")
    BY DEF Holders, TypeOK, Modes
  <2>3. Waiters("shared")' = Waiters("shared") \ {t} /\ Waiters("exclusive")' = Waiters("exclusive")
    BY DEF Waiters, TypeOK
  <2>c. /\ Cardinality(Waiters("shared") \ {t}) = Cardinality(Waiters("shared")) - 1
        /\ Cardinality(Holders("shared") \cup {t}) = Cardinality(Holders("shared")) + 1
    BY <2>2, CardAdd, CardRemove, CountedSets
  <2>4. LockCounters'
    BY <2>2, <2>3, <2>c DEF LockCounters, StopWaiting
  <2>5. readers_waiting_' \in Nat /\ readers_active_' \in Nat /\ readers_active_' > 0
    <3>1. Cardinality(Waiters("shared") \ {t}) \in Nat
      BY CardNat, CountedSets
    <3>2. readers_waiting_' \in Nat
      BY <2>3, <2>4, <3>1 DEF LockCounters
    <3> QED
      BY <3>2 DEF TypeOK
  <2>6. TypeOK'
    BY <2>5 DEF TypeOK, Places, Modes
  <2>7. WaitersCounted'
    BY SameCounts DEF Places, Modes
  <2>8. WriterHasWaker'
    BY <2>5 DEF WriterHasWaker
  <2>9. RWStep
    BY <2>1, <2>2 DEF RWStep, Abstract!RWNext, Abstract!Share
  <2> QED
    BY <2>4, <2>6, <2>7, <2>8, <2>9
<1>2. CASE ReaderBlocked /\ FallAsleep(t, "shared")
           /\ UNCHANGED <<readers_waiting_, readers_active_>>
  <2> USE <1>2 DEF ResumeShared
  <2>1. \A m \in Modes : Holders(m)' = Holders(m) /\ Waiters(m)' = Waiters(m)
    BY DEF Holders, Waiters, FallAsleep, TypeOK
  <2>2. LockCounters'
    BY <2>1 DEF LockCounters, Modes
  <2> "shared" \in Modes /\ pc[t] \notin {"asleep", "woken"}
    BY DEF Modes, TypeOK
  <2>3. TypeOK' /\ WaitersCounted'
    BY FallAsleepCounts DEF TypeOK
  <2>4. \A u \in Waiters("exclusive") : Sleeps(u)' <=> Sleeps(u)
    BY DEF Waiters, Sleeps, FallAsleep, TypeOK, Modes
  <2>5. \A u \in Threads : pc[u] = "wakes" /\ mode[u] = "exclusive"
                          => pc'[u] = "wakes" /\ mode'[u] = "exclusive"
    BY DEF FallAsleep, TypeOK
  <2>6. WriterHasWaker'
    BY <2>1, <2>4, <2>5 DEF WriterHasWaker, Modes
  <2> QED
    BY <2>1, <2>2, <2>3, <2>6, SameHolders DEF Modes
<1> QED
  BY <1>1, <1>2 DEF ResumeShared

-----------------------------------------------------------------------------
\* When Wake is called on write_condition_ while a writer waits, the caller goes on
\* to set the event, or some waiting writer is awake.
LEMMA WakeWriterWakes ==
  ASSUME Inv, NEW t \in Threads, pc[t] = "holds", WakeWriter(t), UNCHANGED turn,
         Waiters("exclusive") # {}
  PROVE  WriterHasWaker'
<1> USE DEF Inv
<1>1. CASE HaveWaiters(condition["exclusive"])
  <2>1. pc'[t] = "wakes" /\ mode'[t] = "exclusive"
    BY <1>1 DEF WakeWriter, WillSet, TypeOK
  <2> QED
    BY <2>1 DEF WriterHasWaker
<1>2. CASE ~HaveWaiters(condition["exclusive"])
  <2>1. \A e \in Turns : Sleepers("exclusive", e) = {}
    <3> SUFFICES ASSUME NEW e \in Turns PROVE Sleepers("exclusive", e) = {}
      OBVIOUS
    <3>1. condition["exclusive"].num_waiters[e] = Cardinality(Sleepers("exclusive", e))
      BY DEF WaitersCounted, Modes
    <3> QED
      BY <1>2, <3>1, CardNat, CountedSets DEF HaveWaiters
  <2>2. Waiters("exclusive")' = Waiters("exclusive") /\ pc' = [pc EXCEPT ![t] = "idle"]
    BY <1>2 DEF WakeWriter, Returns, Waiters, TypeOK
  <2>3. \A u \in Waiters("exclusive") : ~Sleeps(u)'
    BY <2>1, <2>2 DEF Waiters, Sleepers, Sleeps, TypeOK
  <2> QED
    BY <2>2, <2>3 DEF WriterHasWaker
<1> QED
  BY <1>1, <1>2

\* What a release does besides its counters: the thread is no longer a holder.
LEMMA ReleaseCounts ==
  ASSUME Inv, NEW t \in Threads, pc[t] = "holds", UNCHANGED turn,
         NEW place \in {"idle", "wakes"}, NEW m \in Modes,
         pc' = [pc EXCEPT ![t] = place], mode' = [mode EXCEPT ![t] = m],
         \A n \in Modes : condition'[n].num_waiters = condition[n].num_waiters
  PROVE  /\ WaitersCounted'
         /\ \A n \in Modes : Waiters(n)' = Waiters(n)
         /\ t \in Holders(mode[t])
         /\ \A n \in Modes : Holders(n)' = Holders(n) \ {t}
<1> USE DEF Inv
<1>1. WaitersCounted'
  BY SameCounts DEF Places
<1>2. \A n \in Modes : Waiters(n)' = Waiters(n)
  BY DEF Waiters, TypeOK
<1>3. t \in Holders(mode[t]) /\ \A n \in Modes : Holders(n)' = Holders(n) \ {t}
  BY DEF Holders, TypeOK
<1> QED
  BY <1>1, <1>2, <1>3

\* ReleaseLockExclusive, up to the call of SetEvent.
LEMMA ReleaseLockExclusiveInv ==
  ASSUME Inv, OneWriter, NEW t \in Threads, ReleaseLockExclusive(t)
  PROVE  Inv' /\ RWStep
<1> USE DEF Inv, ReleaseLockExclusive
<1>1. condition["shared"] \in CondType /\ condition["exclusive"] \in CondType
  BY DEF TypeOK, Modes
<1>2. NextTurn(condition["shared"]) \in Turns
  BY <1>1, CondTypes DEF Turns
<1>3. /\ \E place \in {"idle", "wakes"} : pc' = [pc EXCEPT ![t] = place]
      /\ \E m \in Modes : mode' = [mode EXCEPT ![t] = m]
      /\ result' \in [Threads -> Turns \cup {WAKE}]
      /\ critical_section_' \in Threads \cup {None}
  <2> mode = [mode EXCEPT ![t] = mode[t]] /\ mode[t] \in Modes
    BY DEF TypeOK
  <2>1. CASE writers_waiting_ > 0 /\ WakeWriter(t)
    BY <2>1 DEF WakeWriter, WillSet, Returns, TypeOK, Modes
  <2>2. CASE writers_waiting_ = 0 /\ WakeReaders(t)
    BY <1>2, <2>2 DEF WakeReaders, WillSet, Returns, TypeOK, Modes
  <2>3. CASE Returns(t)
    BY <2>3 DEF Returns, TypeOK
  <2> QED
    BY <2>1, <2>2, <2>3
<1>4. condition' = [condition EXCEPT !["shared"] = Turned(@)] \/ condition' = condition
  BY DEF WakeWriter, WakeReaders
<1>5. /\ condition' \in [Modes -> CondType]
      /\ \A n \in Modes : condition'[n].num_waiters = condition[n].num_waiters
  <2>1. /\ Turned(condition["shared"]) \in CondType
        /\ Turned(condition["shared"]).num_waiters = condition["shared"].num_waiters
    BY <1>1, <1>2, CondTypes, CondFields
  <2> QED
    BY <1>4, <2>1 DEF TypeOK, Modes
<1>6. /\ WaitersCounted'
      /\ \A n \in Modes : Waiters(n)' = Waiters(n)
      /\ t \in Holders("exclusive")
      /\ \A n \in Modes : Holders(n)' = Holders(n) \ {t}
  BY <1>3, <1>5, ReleaseCounts
<1>7. Holders("exclusive") = {t} /\ Holders("shared") = {}
  BY <1>6 DEF OneWriter
<1>8. LockCounters'
  BY <1>6, <1>7 DEF LockCounters, Modes
<1>9. TypeOK'
  <2>1. pc' \in [Threads -> Places] /\ mode' \in [Threads -> Modes]
    BY <1>3 DEF TypeOK, Places
  <2>2. /\ readers_active_' \in Nat /\ writer_active_' \in BOOLEAN
        /\ readers_waiting_' \in Nat /\ writers_waiting_' \in Nat
        /\ turn' \in [Threads -> Turns]
    BY DEF TypeOK
  <2> QED
    BY <1>3, <1>5, <2>1, <2>2 DEF TypeOK
<1>10. WriterHasWaker'
  <2>1. CASE Waiters("exclusive") = {}
    BY <1>6, <2>1 DEF WriterHasWaker, Modes
  <2>2. CASE Waiters("exclusive") # {}
    <3>1. writers_waiting_ > 0
      BY <2>2, CardNat, CountedSets DEF LockCounters
    <3> QED
      BY <2>2, <3>1, WakeWriterWakes
  <2> QED
    BY <2>1, <2>2
<1>11. RWStep
  BY <1>6, <1>7 DEF RWStep, Abstract!RWNext, Abstract!LeaveExclusive, Modes
<1> QED
  BY <1>6, <1>8, <1>9, <1>10, <1>11

\* ReleaseLockShared, up to the call of SetEvent.
LEMMA ReleaseLockSharedInv ==
  ASSUME Inv, NEW t \in Threads, ReleaseLockShared(t)
  PROVE  Inv' /\ RWStep
<1> USE DEF Inv, ReleaseLockShared
<1>1. UNCHANGED condition
  BY DEF WakeWriter
<1>2. /\ \E place \in {"idle", "wakes"} : pc' = [pc EXCEPT ![t] = place]
      /\ \E m \in Modes : mode' = [mode EXCEPT ![t] = m]
      /\ result' \in [Threads -> Turns \cup {WAKE}]
      /\ critical_section_' \in Threads \cup {None}
  <2> mode = [mode EXCEPT ![t] = mode[t]] /\ mode[t] \in Modes
    BY DEF TypeOK
  <2>1. CASE WakeWriter(t)
    BY <2>1 DEF WakeWriter, WillSet, Returns, TypeOK, Modes
  <2>2. CASE Returns(t)
    BY <2>2 DEF Returns, TypeOK
  <2> QED
    BY <2>1, <2>2
<1>3. /\ WaitersCounted'
      /\ \A n \in Modes : Waiters(n)' = Waiters(n)
      /\ t \in Holders("shared")
      /\ \A n \in Modes : Holders(n)' = Holders(n) \ {t}
  BY <1>1, <1>2, ReleaseCounts
<1>4. Holders("exclusive")' = Holders("exclusive")
  BY <1>3 DEF Holders, Modes
<1>5. /\ Cardinality(Holders("shared") \ {t}) = Cardinality(Holders("shared")) - 1
      /\ Cardinality(Holders("shared") \ {t}) \in Nat
  BY <1>3, CardRemove, CardNat, CountedSets
<1>6. LockCounters'
  BY <1>3, <1>4, <1>5 DEF LockCounters, Modes
<1>7. TypeOK'
  <2>1. readers_active_' \in Nat
    BY <1>5 DEF LockCounters
  <2> QED
    BY <1>1, <1>2, <2>1 DEF TypeOK, Places
<1>8. WriterHasWaker'
  <2>1. CASE Waiters("exclusive") = {}
    BY <1>3, <2>1 DEF WriterHasWaker, Modes
  <2>2. CASE Waiters("exclusive") # {}
    <3>1. writers_waiting_ > 0
      BY <2>2, CardNat, CountedSets DEF LockCounters
    <3>2. CASE LastReader(readers_active_)
      BY <2>2, <3>1, <3>2, WakeWriterWakes
    <3>3. CASE ~LastReader(readers_active_)
      <4>1. readers_active_' > 0
        BY <1>5, <3>3 DEF LastReader, LockCounters, TypeOK
      <4> QED
        BY <4>1 DEF WriterHasWaker
    <3> QED
      BY <3>2, <3>3
  <2> QED
    BY <2>1, <2>2
<1>9. RWStep
  BY <1>3, <1>4 DEF RWStep, Abstract!RWNext, Abstract!LeaveShared, Modes
<1> QED
  BY <1>3, <1>6, <1>7, <1>8, <1>9

\* SetEvent at the end of Wake and WakeAll: no counter changes.
LEMMA FinishWakeInv ==
  ASSUME Inv, SetsWake, NEW t \in Threads, FinishWake(t)
  PROVE  Inv' /\ RWStep
<1> USE DEF Inv, FinishWake
<1>1. condition[mode[t]] \in CondType /\ mode[t] \in Modes /\ result[t] \in Turns \cup {WAKE}
  BY DEF TypeOK
<1>2. condition'[mode[t]] = SetEvent(condition[mode[t]], result[t])
      /\ \A m \in Modes : m # mode[t] => condition'[m] = condition[m]
  BY <1>1 DEF TypeOK
<1>3. \A m \in Modes : condition'[m].num_waiters = condition[m].num_waiters
  BY <1>1, <1>2, CondFields DEF Turns
<1> mode' = [mode EXCEPT ![t] = mode[t]] /\ UNCHANGED turn
  BY DEF TypeOK
<1>4. WaitersCounted'
  BY <1>1, <1>3, SameCounts DEF Places
<1>5. \A m \in Modes : Holders(m)' = Holders(m) /\ Waiters(m)' = Waiters(m)
  BY DEF Holders, Waiters, TypeOK
<1>6. LockCounters'
  BY <1>5 DEF LockCounters, counters, Modes
<1>7. condition' \in [Modes -> CondType]
  BY <1>1, CondTypes DEF TypeOK, Turns
<1>8. TypeOK'
  BY <1>7 DEF TypeOK, counters, Places
<1>9. WriterHasWaker'
  <2>1. CASE mode[t] = "exclusive"
    <3>1. result[t] = WAKE
      BY <2>1 DEF SetsWake
    <3>2. WAKE \in condition'["exclusive"].set
      BY <1>1, <1>2, <2>1, <3>1, CondFields DEF Turns
    <3>3. \A u \in Waiters("exclusive") : ~Sleeps(u)'
      BY <3>2 DEF Waiters, Sleeps, Signaled
    <3> QED
      BY <1>5, <3>3 DEF WriterHasWaker, Modes
  <2>2. CASE mode[t] = "shared"
    <3>1. \A u \in Waiters("exclusive") : Sleeps(u)' <=> Sleeps(u)
      BY <1>2, <2>2 DEF Waiters, Sleeps, TypeOK, Modes
    <3>2. \A u \in Threads : pc[u] = "wakes" /\ mode[u] = "exclusive" => pc'[u] = "wakes"
      BY <2>2 DEF TypeOK
    <3> QED
      BY <1>5, <3>1, <3>2 DEF WriterHasWaker, counters, Modes
  <2> QED
    BY <1>1, <2>1, <2>2 DEF Modes
<1> QED
  BY <1>4, <1>5, <1>6, <1>8, <1>9, SameHolders DEF Modes

-----------------------------------------------------------------------------
\* A step of ReadersWriters keeps the writer alone.
LEMMA RWStepOneWriter ==
  ASSUME OneWriter, RWStep
  PROVE  OneWriter'
<1>1. CASE Abstract!RWNext
  BY <1>1 DEF OneWriter, Abstract!RWNext, Abstract!Share, Abstract!Seize,
              Abstract!LeaveShared, Abstract!LeaveExclusive
<1>2. CASE UNCHANGED Abstract!rwVars
  BY <1>2 DEF OneWriter, Abstract!rwVars
<1> QED
  BY <1>1, <1>2 DEF RWStep

\* SetsWake is kept: only WakeWriter sends a thread to set an event of write_condition_.
LEMMA NextSetsWake ==
  ASSUME TypeOK, SetsWake, NEW t \in Threads,
         AcquireLockExclusive(t) \/ AcquireLockShared(t) \/ Continue(t)
  PROVE  SetsWake'
<1> USE DEF SetsWake
<1>1. ASSUME NEW place \in Places \ {"wakes"}, pc' = [pc EXCEPT ![t] = place],
             \A u \in Threads \ {t} : mode'[u] = mode[u] /\ result'[u] = result[u]
      PROVE  SetsWake'
  BY <1>1 DEF TypeOK
<1>2. CASE AcquireLockExclusive(t) \/ AcquireLockShared(t)
  BY <1>1, <1>2 DEF AcquireLockExclusive, AcquireLockShared, FallAsleep, TypeOK, Places
<1>3. CASE Awake(t) \/ LeaveWaiters(t) \/ ResetWakeAll(t) \/ FinishWake(t)
  BY <1>1, <1>3 DEF Awake, LeaveWaiters, ResetWakeAll, FinishWake, TypeOK, Places
<1>4. CASE ResumeExclusive(t) \/ ResumeShared(t)
  BY <1>1, <1>4 DEF ResumeExclusive, ResumeShared, FallAsleep, TypeOK, Places
<1>5. CASE ReleaseLockExclusive(t) \/ ReleaseLockShared(t)
  <2>1. CASE Returns(t)
    BY <1>1, <2>1 DEF Returns, TypeOK, Places
  <2>2. CASE WillSet(t, "exclusive", WAKE)
    BY <2>2 DEF WillSet, TypeOK
  <2>3. CASE WillSet(t, "shared", NextTurn(condition["shared"]))
    BY <2>3 DEF WillSet, TypeOK
  <2> QED
    BY <1>5, <2>1, <2>2, <2>3
       DEF ReleaseLockExclusive, ReleaseLockShared, WakeWriter, WakeReaders
<1> QED
  BY <1>2, <1>3, <1>4, <1>5 DEF Continue

\* Every step preserves the invariant on the counters.
LEMMA NextInv ==
  IInv /\ [Next]_vars => IInv' /\ RWStep
<1> SUFFICES ASSUME IInv, [Next]_vars PROVE IInv' /\ RWStep
  OBVIOUS
<1> USE DEF IInv
<1>1. CASE UNCHANGED vars
  <2>1. Inv' /\ SetsWake' /\ \A m \in Modes : Holders(m)' = Holders(m)
    BY <1>1 DEF vars, counters, Inv, TypeOK, LockCounters, WaitersCounted, WriterHasWaker,
                Holders, Waiters, Sleepers, Sleeps, SetsWake
  <2>2. RWStep
    BY <2>1, SameHolders DEF Modes
  <2> QED
    BY <2>1, <2>2, RWStepOneWriter
<1>2. CASE Next
  <2>1. PICK t \in Threads : AcquireLockExclusive(t) \/ AcquireLockShared(t) \/ Continue(t)
    BY <1>2 DEF Next
  <2>2. Inv' /\ RWStep
    BY <2>1, AcquireLockExclusiveInv, AcquireLockSharedInv, AwakeInv, LeaveWaitersInv,
       ResetWakeAllInv, ResumeExclusiveInv, ResumeSharedInv, ReleaseLockExclusiveInv,
       ReleaseLockSharedInv, FinishWakeInv DEF Continue
  <2>3. SetsWake'
    BY <2>1, NextSetsWake DEF Inv
  <2> QED
    BY <2>2, <2>3, RWStepOneWriter
<1> QED
  BY <1>1, <1>2

\* A new lock has no waiting writer.
LEMMA InitIInv ==
  Init => IInv
<1> SUFFICES ASSUME Init PROVE IInv
  OBVIOUS
<1>1. Holders("exclusive") = {} /\ SetsWake
  BY DEF Init, Holders, SetsWake
<1> QED
  BY <1>1, InitInv DEF IInv, OneWriter

\* The counters of RWLockGeneric and of its condition variables are exact in every
\* reachable state, for any number of threads: the release functions, Wake and
\* WakeAll never miss a waiting thread.
THEOREM CountersCorrect == Spec => []CountersExact
<1>1. IInv => CountersExact
  BY DEF IInv, Inv, CountersExact
<1> QED
  BY <1>1, InitIInv, NextInv, PTL DEF Spec

\* No wake-up of a writer is lost, for any number of threads, although the
\* condition variable merges wake-ups and lets other threads overtake.
THEOREM NoWriterForgotten == Spec => []WriterHasWaker
<1>1. IInv => WriterHasWaker
  BY DEF IInv, Inv
<1> QED
  BY <1>1, InitIInv, NextInv, PTL DEF Spec

\* RWLockGeneric implements ReadersWriters, so that no thread holds the lock while
\* a writer does, for any number of threads.
THEOREM Implementation == Spec => ImplementsRWLock
<1>1. Init => Abstract!RWInit
  BY DEF Init, Abstract!RWInit, Holders
<1> QED
  BY <1>1, InitIInv, NextInv, PTL DEF Spec, ImplementsRWLock, Abstract!RWSpec, RWStep
=============================================================================
