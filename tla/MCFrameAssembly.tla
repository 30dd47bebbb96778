-------------------------- MODULE MCFrameAssembly --------------------------
(***************************************************************************)
(* Frames for TLC, with sequence numbers that wrap inside the frame.       *)
(***************************************************************************)
EXTENDS FrameAssembly

Pkt(seq, type, first, marker) ==
  [seq |-> seq, ts |-> 3, type |-> type, first |-> first, marker |-> marker,
   size |-> IF type = "empty" THEN 0 ELSE 1, pid |-> kNoPictureId,
   tid |-> kNoTemporalIdx, tl0 |-> kNoTl0PicIdx, sync |-> FALSE]

\* Six packets of media followed by two of padding.
StreamVP8 ==
  {Pkt(12, "delta", TRUE, FALSE), Pkt(13, "delta", FALSE, FALSE),
   Pkt(14, "delta", FALSE, FALSE), Pkt(15, "delta", FALSE, FALSE),
   Pkt(0, "delta", FALSE, FALSE), Pkt(1, "delta", FALSE, TRUE),
   Pkt(2, "empty", FALSE, FALSE), Pkt(3, "empty", FALSE, FALSE)}

\* An H.264 key frame: parameter sets and the start of the picture are each
\* flagged as a first packet, which is what VCMSessionInfo allows for.
StreamH264 ==
  {Pkt(14, "key", TRUE, FALSE), Pkt(15, "key", TRUE, FALSE),
   Pkt(0, "key", TRUE, FALSE), Pkt(1, "key", FALSE, TRUE)}

\* Of the two, the first is a frame as the theorems assume it.
ASSUME Codec = "VP8" => OneFrame
=============================================================================
