------------------------------ MODULE TimestampMap ------------------------------
(* VCMTimestampMap (video_coding/main/source/timestamp_map.cc): a ring of     *)
(* timestamps with a pointer each, as a record and its operations.  It is     *)
(* full with one entry less than its length, and then forgets its oldest one. *)
EXTENDS Integers

CONSTANTS kDecoderFrameMemoryLength,    \* _length of the ring, and of _frameInfos
          TsRange                       \* number of RTP timestamps, 2^32 in the code

ASSUME MemoryLengthAssumption == kDecoderFrameMemoryLength \in Nat /\ kDecoderFrameMemoryLength >= 2
ASSUME TsRangeAssumption == TsRange \in Nat \ {0}

Indices == 0..(kDecoderFrameMemoryLength - 1)
Timestamps == 0..(TsRange - 1)
NULL == [decoder |-> "none", slot |-> 0]

\* A pointer to an element of _frameInfos, of the present decoder or of one that
\* has been deleted.
Pointers == [decoder : {"none", "present", "deleted"}, slot : Indices]

MapType == [map : [Indices -> [timestamp : Timestamps, data : Pointers]],
            nextAddIx : Indices, nextPopIx : Indices]

NewMap == [map |-> [i \in Indices |-> [timestamp |-> 0, data |-> NULL]],
           nextAddIx |-> 0, nextPopIx |-> 0]

NextIx(i) == (i + 1) % kDecoderFrameMemoryLength

\* The number of entries, and the index that is k places after the oldest one.
Entries(m) == IF m.nextAddIx >= m.nextPopIx THEN m.nextAddIx - m.nextPopIx
              ELSE m.nextAddIx - m.nextPopIx + kDecoderFrameMemoryLength
Place(m, k) == (m.nextPopIx + k) % kDecoderFrameMemoryLength

\* Add.
Add(m, timestamp, data) ==
  [m EXCEPT !.map[m.nextAddIx] = [timestamp |-> timestamp, data |-> data],
            !.nextAddIx = NextIx(m.nextAddIx),
            !.nextPopIx = IF NextIx(m.nextAddIx) = @ THEN NextIx(@) ELSE @]

\* Pop forgets k entries with a smaller timestamp and stops at the first one that
\* is not smaller, or at the end.  The comparison takes no account of the wrap.
StopsAt(m, timestamp, k) ==
  /\ k \in 0..Entries(m)
  /\ \A j \in 0..(k - 1) : m.map[Place(m, j)].timestamp < timestamp
  /\ k < Entries(m) => m.map[Place(m, k)].timestamp >= timestamp

\* Pop found the timestamp k places after the oldest entry.
Found(m, timestamp, k) == k < Entries(m) /\ m.map[Place(m, k)].timestamp = timestamp

\* What Pop returns, and the ring it leaves.
PopData(m, timestamp, k) == IF Found(m, timestamp, k) THEN m.map[Place(m, k)].data ELSE NULL
Popped(m, timestamp, k) ==
  IF Found(m, timestamp, k)
  THEN [m EXCEPT !.map[Place(m, k)].data = NULL, !.nextPopIx = NextIx(Place(m, k))]
  ELSE [m EXCEPT !.nextPopIx = Place(m, k)]
=============================================================================
