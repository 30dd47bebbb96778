---------------------------- MODULE ReadersWriters ----------------------------
(* What a readers-writer lock promises (system_wrappers/interface/            *)
(* rw_lock_wrapper.h): any number of threads hold it shared, or one thread    *)
(* holds it exclusively.  Nothing is said here of how a thread waits for it.  *)
EXTENDS Integers

CONSTANT Threads

VARIABLES readers, writers     \* the threads that hold the lock, shared and exclusively

rwVars == <<readers, writers>>

RWInit == readers = {} /\ writers = {}

Share(t) == /\ writers = {}
            /\ t \notin readers
            /\ readers' = readers \cup {t}
            /\ UNCHANGED writers

Seize(t) == /\ writers = {} /\ readers = {}
            /\ writers' = {t}
            /\ UNCHANGED readers

LeaveShared(t) == /\ t \in readers
                  /\ readers' = readers \ {t}
                  /\ UNCHANGED writers

LeaveExclusive(t) == /\ t \in writers
                     /\ writers' = writers \ {t}
                     /\ UNCHANGED readers

RWNext == \E t \in Threads : Share(t) \/ Seize(t) \/ LeaveShared(t) \/ LeaveExclusive(t)

RWSpec == RWInit /\ [][RWNext]_rwVars
=============================================================================
