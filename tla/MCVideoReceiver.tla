-------------------------- MODULE MCVideoReceiver --------------------------
(***************************************************************************)
(* Packet streams for TLC.  Sequence numbers and timestamps are on circles *)
(* of 16 and start just below the wrap, so that every run crosses it.      *)
(***************************************************************************)
EXTENDS VideoReceiver

Pkt(seq, ts, type, first, marker) ==
  [seq |-> seq, ts |-> ts, type |-> type, first |-> first, marker |-> marker,
   size |-> IF type = "empty" THEN 0 ELSE 1, pid |-> kNoPictureId,
   tid |-> kNoTemporalIdx, tl0 |-> kNoTl0PicIdx, sync |-> FALSE]

Whole(seq, ts, type) == Pkt(seq, ts, type, TRUE, TRUE)
First(seq, ts, type) == Pkt(seq, ts, type, TRUE, FALSE)
Last(seq, ts, type)  == Pkt(seq, ts, type, FALSE, TRUE)
Padding(seq, ts)     == Pkt(seq, ts, "empty", FALSE, FALSE)

\* A key frame, a delta frame followed by padding with its timestamp, a key frame
\* of two packets and a delta frame, with a number missing before each of the last
\* two.  With the second key frame incomplete, recycling can reset the decoding
\* state while the first delta frame is still waiting.
StreamMixed ==
  {Whole(13, 14, "key"), Whole(14, 15, "delta"), Padding(15, 15),
   First(1, 1, "key"), Last(2, 1, "key"), Whole(4, 2, "delta")}

\* A short stream: a key frame and a delta frame of two packets.
StreamShort ==
  {Whole(14, 14, "key"), First(15, 15, "delta"), Last(0, 15, "delta")}

\* The same with padding behind the key frame, with its timestamp.
StreamTrailing ==
  {Whole(14, 14, "key"), Padding(15, 14), First(0, 15, "delta"), Last(1, 15, "delta")}

\* Frames of one packet each, with padding of its own timestamp between them.
\* (Sequence numbers on a circle of 32.)
StreamOvertaken ==
  {Whole(26, 1, "key"), Whole(27, 2, "delta"), Padding(28, 3),
   Whole(29, 4, "delta"), Whole(30, 5, "delta")}

\* Every stream above is one that the theorems on the NACK list and on the order
\* of decoding speak of: in one half of either circle, its timestamps in the order
\* of its sequence numbers.
ASSUME StreamAssumptionMC == StreamOrdered
=============================================================================
