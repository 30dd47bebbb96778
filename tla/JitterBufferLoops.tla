-------------------------- MODULE JitterBufferLoops --------------------------
(***************************************************************************)
(* The loops of jitter_buffer.cc, one recursive call per iteration.        *)
(* Module JitterBuffer describes what these loops leave behind without     *)
(* running them; this module runs them, and states that the two agree in   *)
(* every reachable state of the receiver.                                  *)
(***************************************************************************)
EXTENDS MCVideoReceiver

RECURSIVE TooLargeLoop(_, _), TooOldLoop(_, _, _), CleanUpLoop(_, _)

\* while (TooLargeNackList()) key_frame_found = RecycleFramesUntilKeyFrame();
TooLargeLoop(b, found) ==
  IF ~TooLargeNackList(b.missing) THEN [jb |-> b, found |-> found]
  ELSE LET r == RecycleFramesUntilKeyFrame(b) IN TooLargeLoop(r.jb, r.found)

TooOldLoop(b, seq, found) ==
  IF ~MissingTooOldPacket(b.missing, seq) THEN [jb |-> b, found |-> found]
  ELSE LET r == RecycleFramesUntilKeyFrame(b) IN TooOldLoop(r.jb, seq, r.found)

\* FrameList::CleanUpOldOrEmptyFrames, from the front and one by one.
CleanUpLoop(list, ds) ==
  IF IsEmptyList(list) THEN [list |-> list, last |-> ds]
  ELSE LET f    == Front(list)
           drop == f.state = "kStateEmpty" /\ Cardinality(DOMAIN list) > 1
           rest == Without(list, {f.ts})
       IN  IF drop /\ CanDropEmpty(ds, f)
             THEN CleanUpLoop(rest, AfterEmpty(ds, f))
           ELSE IF ~drop /\ IsOld(ds, f.ts) THEN CleanUpLoop(rest, ds)
           ELSE [list |-> list, last |-> ds]

\* The jitter buffer as UpdateNackList has it when the loops start.
Grown(seq) ==
  [jb EXCEPT !.missing = @ \cup SeqNumsBetween(jb.latest, seq)]

ArrivingSeqs ==
  {p.seq : p \in {q \in Stream : IsNewerSequenceNumber(q.seq, jb.latest)}}

\* HandleTooLargeNackList and HandleTooOldPackets drop exactly the frames, and
\* exactly the sequence numbers, that recycling one key frame at a time drops,
\* and find a key frame when that does.
RecyclingIsTheLoop ==
  \A seq \in ArrivingSeqs :
    LET b == Grown(seq)
    IN  /\ TooLargeNackList(b.missing)
             => HandleTooLargeNackList(b) = TooLargeLoop(b, FALSE)
        /\ MissingTooOldPacket(b.missing, seq)
             => HandleTooOldPackets(b, seq) = TooOldLoop(b, seq, FALSE)

\* The clean-up drops exactly the frames, and ends in exactly the decoding
\* state, that dropping frames from the front one at a time does.
CleanUpIsTheLoop ==
  \A list \in {jb.decodable, jb.incomplete} :
    CleanUpLoop(list, jb.last) =
      [list |-> Without(list, CleanedUp(list, jb.last)),
       last |-> LastAfterCleanUp(list, jb.last)]
=============================================================================
