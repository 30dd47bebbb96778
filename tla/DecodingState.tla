--------------------------- MODULE DecodingState ---------------------------
(***************************************************************************)
(* VCMDecodingState (video_coding/main/source/decoding_state.cc): what the *)
(* jitter buffer remembers of the frame it decoded last, and the test      *)
(* whether another frame can follow it.                                    *)
(***************************************************************************)
EXTENDS FrameBuffer

DecodingStates ==
  [seq : SeqNums, ts : Timestamps, pid : Int, tid : Nat, tl0 : Int,
   sync : BOOLEAN, initial : BOOLEAN]

InitialState ==
  [seq |-> 0, ts |-> 0, pid |-> kNoPictureId, tid |-> kNoTemporalIdx,
   tl0 |-> kNoTl0PicIdx, sync |-> TRUE, initial |-> TRUE]

\* Faulty variant: a packet of the last decoded frame is not old.
IsOlder(ds, ts) == ~ds.initial /\ IsNewerTimestamp(ds.ts, ts)

\* IsOldFrame and IsOldPacket.
IsOld(ds, ts) == ~ds.initial /\ ~IsNewerTimestamp(ts, ds.ts)

-----------------------------------------------------------------------------
ContinuousSeqNum(ds, seq) == seq = NextSeq(ds.seq)

\* Picture ids are 7 or 15 bits wide; the last one seen tells which.
ContinuousPictureId(ds, pid) ==
  LET next == ds.pid + 1
  IN  IF pid < ds.pid
        THEN pid = next % (IF ds.pid >= 128 THEN 32768 ELSE 128)
        ELSE pid = next

ContinuousLayer(ds, tid, tl0) ==
  /\ tid # kNoTemporalIdx
  /\ tl0 # kNoTl0PicIdx
  /\ tid = 0
  /\ \/ ds.tl0 = kNoTl0PicIdx /\ ds.tid = kNoTemporalIdx
     \/ tl0 = (ds.tl0 + 1) % 256

UsingPictureId(ds, f) == PictureId(f) # kNoPictureId /\ ds.pid # kNoPictureId

ContinuousPicture(ds, f) ==
  IF UsingPictureId(ds, f)
    THEN ContinuousPictureId(ds, PictureId(f))
    ELSE ContinuousSeqNum(ds, LowSeq(f))

ContinuousFrame(ds, f) ==
  \/ f.type = "key"
  \/ /\ ~ds.initial
     /\ \/ ContinuousLayer(ds, TemporalId(f), Tl0PicId(f))
        \/ /\ Tl0PicId(f) = ds.tl0
           /\ ds.sync \/ LayerSync(f)
           /\ ContinuousPicture(ds, f)

-----------------------------------------------------------------------------
\* UpdateSyncState: are all temporal layers still decodable after this frame?
SyncAfter(ds, f) ==
  IF ds.initial THEN ds.sync
  ELSE \/ TemporalId(f) = kNoTemporalIdx
       \/ Tl0PicId(f) = kNoTl0PicIdx
       \/ f.type = "key"
       \/ LayerSync(f)
       \/ /\ ds.sync
          /\ UsingPictureId(ds, f) => Tl0PicId(f) - ds.tl0 <= 1
          /\ ContinuousPicture(ds, f)

SetState(ds, f) ==
  [seq |-> HighSeq(f), ts |-> f.ts, pid |-> PictureId(f),
   tid |-> TemporalId(f), tl0 |-> Tl0PicId(f), sync |-> SyncAfter(ds, f),
   initial |-> FALSE]

\* UpdateEmptyFrame: may a frame without media be dropped, and what is then
\* remembered of it?
OnePacket(f) == HighSeq(f) = LowSeq(f)

CanDropEmpty(ds, f) ==
  \/ OnePacket(f) /\ (ds.initial \/ ContinuousSeqNum(ds, HighSeq(f)))
  \/ ContinuousFrame(ds, f)

AfterEmpty(ds, f) ==
  IF ds.initial /\ OnePacket(f)
    THEN ds
    ELSE [ds EXCEPT !.seq = HighSeq(f), !.ts = f.ts]

UpdateOldPacket(ds, p) ==
  IF p.ts = ds.ts
    THEN [ds EXCEPT !.seq = LatestSequenceNumber(p.seq, @)]
    ELSE ds
=============================================================================
