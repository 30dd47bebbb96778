---------------------------- MODULE JitterBuffer ----------------------------
(***************************************************************************)
(* VCMJitterBuffer (video_coding/main/source/jitter_buffer.cc).  The state *)
(* under crit_sect_ is a record jb, and every method that runs inside one  *)
(* hold of the lock is an operator from records to records, so that the    *)
(* threads of module VideoReceiver can call it as one step.                *)
(*                                                                         *)
(*   free        how many buffers free_frames_ holds                       *)
(*   allocated   max_number_of_frames_, the buffers allocated so far       *)
(*   decodable   decodable_frames_, a map from timestamps to frames        *)
(*   incomplete  incomplete_frames_, likewise                              *)
(*   last        last_decoded_state_                                       *)
(*   missing     missing_sequence_numbers_, the NACK list                  *)
(*   latest      latest_received_sequence_number_                          *)
(*   fresh       first_packet_since_reset_                                 *)
(*   old         num_consecutive_old_packets_                              *)
(*   running     running_                                                  *)
(*   nack_mode   nack_mode_                                                *)
(*   error_mode  decode_error_mode_                                        *)
(*                                                                         *)
(* Buffers are interchangeable (a buffer is Reset before it is used), so   *)
(* the free list is counted and not enumerated.  Jitter estimation and     *)
(* statistics are left out.                                                *)
(***************************************************************************)
EXTENDS DecodingState

CONSTANTS
  kStartNumberOfFrames,       \* 6 in the code
  kMaxNumberOfFrames,         \* 300 in the code
  kMaxConsecutiveOldPackets,  \* 300 in the code
  NackModes,                  \* the modes an application selects, out of
  DecodeErrorModes,           \* VCMNackMode and VCMDecodeErrorMode
  MaxNackListSize,            \* max_nack_list_size_
  MaxPacketAgeToNack,         \* max_packet_age_to_nack_
  MaxIncompleteDuration       \* 90 * max_incomplete_time_ms_; 0 turns it off

ASSUME JitterBufferAssumption ==
  /\ kStartNumberOfFrames \in Nat
  /\ kMaxNumberOfFrames \in Nat
  /\ kStartNumberOfFrames <= kMaxNumberOfFrames
  /\ kMaxNumberOfFrames >= 2
  /\ kMaxConsecutiveOldPackets \in Nat
  /\ NackModes \subseteq {"kNack", "kNoNack"}
  /\ DecodeErrorModes \subseteq {"kNoErrors", "kSelectiveErrors", "kWithErrors"}
  /\ MaxNackListSize \in Nat
  /\ MaxPacketAgeToNack \in Nat
  /\ MaxIncompleteDuration \in Nat

EmptyList == [t \in {} |-> ResetFrame]

InitJitterBuffer(nack_mode, error_mode) ==
  [free |-> kStartNumberOfFrames, allocated |-> kStartNumberOfFrames,
   decodable |-> EmptyList, incomplete |-> EmptyList, last |-> InitialState,
   missing |-> {}, latest |-> 0, fresh |-> TRUE, old |-> 0, running |-> FALSE,
   nack_mode |-> nack_mode, error_mode |-> error_mode]

Fields == {"free", "allocated", "decodable", "incomplete", "last", "missing",
           "latest", "fresh", "old", "running", "nack_mode", "error_mode"}

\* A frame list holds every frame under its timestamp, and no frame that has
\* not received a packet.
IsFrameList(list) ==
  /\ DOMAIN list \subseteq Timestamps
  /\ \A t \in DOMAIN list :
       list[t] \in Frame /\ list[t].ts = t /\ HasPacket(list[t])

IsJitterBuffer(jb) ==
  /\ DOMAIN jb = Fields
  /\ jb.free \in Nat
  /\ jb.allocated \in Nat
  /\ IsFrameList(jb.decodable)
  /\ IsFrameList(jb.incomplete)
  /\ DOMAIN jb.decodable \cap DOMAIN jb.incomplete = {}
  /\ jb.last \in DecodingStates
  /\ jb.missing \subseteq SeqNums
  /\ jb.latest \in SeqNums
  /\ jb.fresh \in BOOLEAN
  /\ jb.old \in Nat
  /\ jb.running \in BOOLEAN
  /\ jb.nack_mode \in NackModes
  /\ jb.error_mode \in DecodeErrorModes

\* The buffers the jitter buffer has at its disposal.
Buffers(jb) ==
  jb.free + Cardinality(DOMAIN jb.decodable)
          + Cardinality(DOMAIN jb.incomplete)

-----------------------------------------------------------------------------
(* FrameList: a std::map, so inserting under a key that is taken does      *)
(* nothing (and would lose the buffer).                                    *)
Keep(list, S) == [t \in DOMAIN list \cap S |-> list[t]]

Without(list, S) == Keep(list, DOMAIN list \ S)

InsertFrame(list, f) ==
  [t \in DOMAIN list \cup {f.ts} |->
     IF t \in DOMAIN list THEN list[t] ELSE f]

Front(list) == list[OldestTs(DOMAIN list)]
Back(list)  == list[NewestTs(DOMAIN list)]

IsEmptyList(list) == DOMAIN list = {}

\* The timestamps of a set in the order the map iterates over them.
InOrder(S) ==
  [i \in 1 .. Cardinality(S) |->
     CHOOSE t \in S : Cardinality({u \in S : IsNewerTimestamp(t, u)}) = i - 1]

-----------------------------------------------------------------------------
(* NACK list helpers. *)
DropPacketsFromNackList(missing, seq) ==
  {m \in missing : IsNewerSequenceNumber(m, seq)}

TooLargeNackList(missing) == Cardinality(missing) > MaxNackListSize

OldestMissing(missing) ==
  CHOOSE m \in missing : \A n \in missing : ~IsNewerSequenceNumber(m, n)

MissingTooOldPacket(missing, seq) ==
  /\ missing # {}
  /\ Distance(seq, OldestMissing(missing), SeqHalf) > MaxPacketAgeToNack

EstimatedLowSequenceNumber(f) ==
  IF HaveFirstPacket(f) THEN LowSeq(f) ELSE PrevSeq(LowSeq(f))

-----------------------------------------------------------------------------
(* Recycling.  FrameList::RecycleFramesUntilKeyFrame throws at least one   *)
(* frame, begin(), and stops in front of the next key frame.               *)
Later(list) == {t \in DOMAIN list : t # OldestTs(DOMAIN list)}

LaterKeys(list) == {t \in Later(list) : list[t].type = "key"}

FromKey(list, key) == {t \in Later(list) : ~IsNewerTimestamp(key, t)}

\* Faulty variant: a key frame at the front is not thrown.
RecycledRestFromFront(list) ==
  LET keys == {t \in DOMAIN list : list[t].type = "key"}
  IN  Keep(list, {t \in DOMAIN list : \E k \in keys : ~IsNewerTimestamp(k, t)})

RecycledRest(list) ==
  IF LaterKeys(list) = {}
    THEN EmptyList
    ELSE Keep(list, FromKey(list, OldestTs(LaterKeys(list))))

\* VCMJitterBuffer::RecycleFramesUntilKeyFrame: [jb, found].
RecycleFramesUntilKeyFrame(jb) ==
  LET fromIncomplete == ~IsEmptyList(jb.incomplete)
      list  == IF fromIncomplete THEN jb.incomplete ELSE jb.decodable
      rest  == RecycledRest(list)
      found == ~IsEmptyList(rest)
      dec   == IF fromIncomplete THEN jb.decodable ELSE rest
      fresh == found \/ IsEmptyList(dec)
  IN  [found |-> found,
       jb |-> [jb EXCEPT
         !.incomplete = IF fromIncomplete THEN rest ELSE @,
         !.decodable  = dec,
         !.free       = @ + Cardinality(DOMAIN list)
                          - Cardinality(DOMAIN rest),
         !.last       = IF fresh THEN InitialState ELSE @,
         !.missing    = IF found
                          THEN DropPacketsFromNackList(@,
                                 EstimatedLowSequenceNumber(Front(rest)))
                        ELSE IF fresh THEN {} ELSE @]]

\* Faulty variant: sequence numbers of dropped frames stay in the NACK list.
MissingKept(list, missing, key) == missing

\* The NACK list once recycling has walked from the front of a list to one of
\* its later key frames.
MissingAt(list, missing, key) ==
  {m \in missing : \A k \in LaterKeys(list) :
     IsNewerTimestamp(k, key)
       \/ IsNewerSequenceNumber(m, EstimatedLowSequenceNumber(list[k]))}

MissingAfter(list, missing) ==
  {m \in missing : \A k \in LaterKeys(list) :
     IsNewerSequenceNumber(m, EstimatedLowSequenceNumber(list[k]))}

\* The loops of HandleTooLargeNackList and HandleTooOldPackets: recycle as long
\* as Bad holds of the NACK list.  Each round stops at the next key frame,
\* first of the incomplete list and then of the decodable one; when both are
\* used up the NACK list is emptied, which ends the loop.
RecycleWhile(jb, Bad(_)) ==
  LET inc     == jb.incomplete
      dec     == jb.decodable
      goodInc == {k \in LaterKeys(inc) : ~Bad(MissingAt(inc, jb.missing, k))}
      passed  == MissingAfter(inc, jb.missing)
      goodDec == {k \in LaterKeys(dec) : ~Bad(MissingAt(dec, passed, k))}
      keyInc  == OldestTs(goodInc)
      keyDec  == OldestTs(goodDec)
      restInc == IF goodInc # {} THEN Keep(inc, FromKey(inc, keyInc))
                                 ELSE EmptyList
      restDec == IF goodInc # {} THEN dec
                 ELSE IF goodDec # {} THEN Keep(dec, FromKey(dec, keyDec))
                 ELSE EmptyList
  IN  [found |-> goodInc # {} \/ goodDec # {},
       jb |-> [jb EXCEPT
         !.incomplete = restInc,
         !.decodable  = restDec,
         !.free = @ + Cardinality(DOMAIN inc) - Cardinality(DOMAIN restInc)
                    + Cardinality(DOMAIN dec) - Cardinality(DOMAIN restDec),
         !.last = InitialState,
         !.missing = IF goodInc # {} THEN MissingAt(inc, @, keyInc)
                     ELSE IF goodDec # {} THEN MissingAt(dec, passed, keyDec)
                     ELSE {}]]

HandleTooLargeNackList(jb) == RecycleWhile(jb, TooLargeNackList)

HandleTooOldPackets(jb, seq) ==
  RecycleWhile(jb, LAMBDA missing : MissingTooOldPacket(missing, seq))

-----------------------------------------------------------------------------
(* VCMJitterBuffer::UpdateNackList: [jb, ok]. *)
SeqNumsBetween(low, high) ==
  {s \in SeqNums : IsNewerSequenceNumber(s, low)
                     /\ IsNewerSequenceNumber(high, s)}

\* Faulty variant: the age of the oldest packet is not looked at.
ShrinkNackListBySize(jb, seq) ==
  IF TooLargeNackList(jb.missing)
    THEN HandleTooLargeNackList(jb) ELSE [jb |-> jb, found |-> TRUE]

ShrinkNackList(jb, seq) ==
  LET a == IF TooLargeNackList(jb.missing)
             THEN HandleTooLargeNackList(jb) ELSE [jb |-> jb, found |-> TRUE]
  IN  IF a.found /\ MissingTooOldPacket(a.jb.missing, seq)
        THEN HandleTooOldPackets(a.jb, seq)
        ELSE a

UpdateNackList(jb, seq) ==
  LET latest == IF jb.last.initial
                  THEN jb.latest
                  ELSE LatestSequenceNumber(jb.latest, jb.last.seq)
      newer  == IsNewerSequenceNumber(seq, latest)
      grown  == [jb EXCEPT !.latest = latest,
                           !.missing = @ \cup SeqNumsBetween(latest, seq)]
      erased == [jb EXCEPT !.latest = latest, !.missing = @ \ {seq}]
  IN  IF jb.nack_mode = "kNoNack" THEN [jb |-> jb, found |-> TRUE]
      ELSE IF newer THEN ShrinkNackList(grown, seq)
      ELSE [jb |-> erased, found |-> TRUE]

-----------------------------------------------------------------------------
(* Continuity of frames across the two lists. *)
IsContinuousInState(mode, f, ds) ==
  \/ mode = "kWithErrors"
  \/ /\ f.state \in {"kStateComplete", "kStateDecodable"}
     /\ ContinuousFrame(ds, f)

\* last_decoded_state_ moved forward over the decodable frames up to f.
IsContinuous(jb, f) ==
  LET prior == InOrder({t \in DOMAIN jb.decodable :
                          ~IsNewerTimestamp(t, f.ts)})
      ds[i \in 0 .. Len(prior)] ==
        IF i = 0 THEN jb.last ELSE SetState(ds[i - 1], jb.decodable[prior[i]])
  IN  \E i \in 0 .. Len(prior) : IsContinuousInState(jb.error_mode, f, ds[i])

\* The scan over the incomplete frames: which of them become decodable?  The
\* decoding state moves forward over these, and a base layer frame that is not
\* continuous ends the scan.
ContinuousScan(jb, start) ==
  LET order == InOrder(DOMAIN jb.incomplete)
      joins(t, at) == /\ ~at.stop
                      /\ ~IsNewerTimestamp(start.ts, t)
                      /\ IsContinuousInState(jb.error_mode, jb.incomplete[t], at.ds)
      at[i \in 0 .. Len(order)] ==
        IF i = 0 THEN [ds |-> start, stop |-> FALSE]
        ELSE LET t == order[i]
                 f == jb.incomplete[t]
             IN  IF joins(t, at[i - 1])
                   THEN [at[i - 1] EXCEPT !.ds = SetState(@, f)]
                 ELSE IF IsNewerTimestamp(start.ts, t) THEN at[i - 1]
                 ELSE [at[i - 1] EXCEPT !.stop = @ \/ TemporalId(f) <= 0]
  IN  {t \in DOMAIN jb.incomplete :
         \E i \in 1 .. Len(order) : t = order[i] /\ joins(t, at[i - 1])}

FindAndInsertContinuousFramesWithState(jb, ds) ==
  LET moved == ContinuousScan(jb, ds)
  IN  [jb EXCEPT
         !.incomplete = Without(@, moved),
         !.decodable  = [t \in DOMAIN @ \cup moved |->
                           IF t \in DOMAIN @ THEN @[t] ELSE jb.incomplete[t]]]

FindAndInsertContinuousFrames(jb, f) ==
  FindAndInsertContinuousFramesWithState(jb, SetState(jb.last, f))

-----------------------------------------------------------------------------
(* CleanUpOldOrEmptyFrames: frames leave from the front of a list, empty   *)
(* ones when last_decoded_state_ can be moved over them (UpdateEmptyFrame) *)
(* and the others, as well as an empty frame that is alone, when old.      *)
EmptyBefore(list, t) ==
  {u \in DOMAIN list : IsNewerTimestamp(t, u) /\ list[u].state = "kStateEmpty"}

\* last_decoded_state_ after the empty frames E have been dropped.  In the
\* initial state dropping an empty frame leaves no trace.
OverEmpty(list, last, E) ==
  IF E = {} \/ last.initial THEN last ELSE AfterEmpty(last, list[NewestTs(E)])

\* Faulty variant: an empty frame that is alone in its list goes too.
LeavesAlone(list, last, t) ==
  LET ds == OverEmpty(list, last, EmptyBefore(list, t))
  IN  IF list[t].state = "kStateEmpty" THEN CanDropEmpty(ds, list[t])
                                       ELSE IsOld(ds, t)

Leaves(list, last, t) ==
  LET ds == OverEmpty(list, last, EmptyBefore(list, t))
  IN  IF list[t].state = "kStateEmpty" /\ t # NewestTs(DOMAIN list)
        THEN CanDropEmpty(ds, list[t])
        ELSE IsOld(ds, t)

CleanedUp(list, last) ==
  {t \in DOMAIN list :
     \A u \in DOMAIN list : IsNewerTimestamp(u, t) \/ Leaves(list, last, u)}

LastAfterCleanUp(list, last) ==
  OverEmpty(list, last,
    {t \in CleanedUp(list, last) :
       list[t].state = "kStateEmpty" /\ t # NewestTs(DOMAIN list)})

CleanUpOldOrEmptyFrames(jb) ==
  LET mid  == LastAfterCleanUp(jb.decodable, jb.last)
      last == LastAfterCleanUp(jb.incomplete, mid)
      dec  == Without(jb.decodable, CleanedUp(jb.decodable, jb.last))
      inc  == Without(jb.incomplete, CleanedUp(jb.incomplete, mid))
  IN  [jb EXCEPT
         !.decodable  = dec,
         !.incomplete = inc,
         !.free = @ + Cardinality(DOMAIN jb.decodable)
                    - Cardinality(DOMAIN dec)
                    + Cardinality(DOMAIN jb.incomplete)
                    - Cardinality(DOMAIN inc),
         !.last = last,
         !.missing = IF last.initial
                       THEN @ ELSE DropPacketsFromNackList(@, last.seq)]

-----------------------------------------------------------------------------
(* Start, Stop (the part under the lock) and Flush. *)
AllFree(jb) ==
  [jb EXCEPT !.decodable  = EmptyList,
             !.incomplete = EmptyList,
             !.free = @ + Cardinality(DOMAIN jb.decodable)
                        + Cardinality(DOMAIN jb.incomplete),
             !.last = InitialState]

Start(jb) ==
  [jb EXCEPT !.running = TRUE, !.old = 0, !.fresh = TRUE,
             !.last = InitialState]

StopLocked(jb) == [AllFree(jb) EXCEPT !.running = FALSE]

Flush(jb) == [AllFree(jb) EXCEPT !.old = 0, !.fresh = TRUE, !.missing = {}]

\* Faulty variant: the list is kept while NACK is off.
SelectNackModeOnly(jb, mode) == [jb EXCEPT !.nack_mode = mode]

\* SetNackMode: without NACK nothing is missing.
SelectNackMode(jb, mode) ==
  [jb EXCEPT !.nack_mode = mode,
             !.missing = IF mode = "kNoNack" THEN {} ELSE @]

SelectDecodeErrorMode(jb, mode) == [jb EXCEPT !.error_mode = mode]

-----------------------------------------------------------------------------
(* The decode side: which timestamp comes next, and taking that frame.     *)
FrontComplete(jb) ==
  /\ ~IsEmptyList(jb.decodable)
  /\ Front(jb.decodable).state = "kStateComplete"

FrontTs(jb) == OldestTs(DOMAIN jb.decodable)

\* NextMaybeIncompleteTimestamp, after its clean-up.
MaybeIncomplete(jb) ==
  /\ ~IsEmptyList(jb.decodable)
  /\ \/ Cardinality(DOMAIN jb.decodable) # 1
     \/ ~IsEmptyList(jb.incomplete)
     \/ FrontComplete(jb)

Has(jb, ts) == ts \in DOMAIN jb.decodable \cup DOMAIN jb.incomplete

FrameAt(jb, ts) ==
  IF ts \in DOMAIN jb.decodable THEN jb.decodable[ts] ELSE jb.incomplete[ts]

\* A frame of the decodable list counts as continuous without a look at
\* last_decoded_state_.
ExtractedContinuous(jb, ts) ==
  ts \in DOMAIN jb.decodable \/ ContinuousFrame(jb.last, jb.incomplete[ts])

ExtractAndSetDecode(jb, ts) ==
  LET f == FrameAt(jb, ts)
  IN  [jb EXCEPT
         !.decodable  = Without(@, {ts}),
         !.incomplete = IF ts \in DOMAIN jb.decodable
                          THEN @ ELSE Without(@, {ts}),
         !.last       = SetState(@, f),
         !.missing    = DropPacketsFromNackList(@, HighSeq(f))]

\* Faulty variant: the decoded frame is not given back.
ForgetFrame(jb) == jb

ReleaseFrame(jb) == [jb EXCEPT !.free = @ + 1]

-----------------------------------------------------------------------------
(* GetFrame: [jb, frame, from, ok].  The frame is in nobody's list until   *)
(* InsertPacket puts it back.                                              *)
\* Faulty variant: the pool is not checked.
GetFrameUnchecked(jb) == [jb EXCEPT !.free = @ - 1]

GetEmptyFrame(jb) ==
  IF jb.free > 0 THEN [jb EXCEPT !.free = @ - 1]
                 ELSE [jb EXCEPT !.allocated = @ + 1]

HasEmptyFrame(jb) == jb.free > 0 \/ jb.allocated < kMaxNumberOfFrames

GetFrame(jb, ts) ==
  LET r == RecycleFramesUntilKeyFrame(jb)
  IN  IF ts \in DOMAIN jb.incomplete
        THEN [jb |-> [jb EXCEPT !.incomplete = Without(@, {ts})],
              frame |-> jb.incomplete[ts], from |-> "incomplete", ok |-> TRUE]
      ELSE IF ts \in DOMAIN jb.decodable
        THEN [jb |-> [jb EXCEPT !.decodable = Without(@, {ts})],
              frame |-> jb.decodable[ts], from |-> "decodable", ok |-> TRUE]
      ELSE IF HasEmptyFrame(jb)
        THEN [jb |-> GetEmptyFrame(jb), frame |-> ResetFrame,
              from |-> "none", ok |-> TRUE]
      ELSE [jb |-> IF r.found THEN [r.jb EXCEPT !.free = @ - 1] ELSE r.jb,
            frame |-> ResetFrame, from |-> "none", ok |-> r.found]

-----------------------------------------------------------------------------
(* InsertPacket: [jb, ret, signal]; signal says that frame_event_ is set.  *)
InsertOldPacket(jb, p) ==
  LET count == jb.old + p.size
      last  == UpdateOldPacket(jb.last, p)
      moved == FindAndInsertContinuousFramesWithState(
                 [jb EXCEPT !.old = count, !.last = last,
                    !.missing = DropPacketsFromNackList(@, last.seq)], last)
  IN  IF count > kMaxConsecutiveOldPackets
        THEN [jb |-> Flush(moved), ret |-> "kFlushIndicator", signal |-> FALSE]
        ELSE [jb |-> moved, ret |-> "kOldPacket", signal |-> FALSE]

\* buffer_state > 0: the packet counts as received.
Received(ret) ==
  ret \in {"kIncomplete", "kCompleteSession", "kDecodableSession",
           "kDuplicatePacket"}

\* The bookkeeping between the frame's InsertPacket and the switch: [jb, ok].
NoteReceived(jb, p, ret) ==
  LET u == UpdateNackList(jb, p.seq)
  IN  IF ~Received(ret) THEN [jb |-> jb, ok |-> TRUE]
      ELSE IF jb.fresh
        THEN [jb |-> [jb EXCEPT !.latest = p.seq, !.fresh = FALSE],
              ok |-> TRUE]
      ELSE [jb |-> [u.jb EXCEPT !.latest = LatestSequenceNumber(@, p.seq)],
            ok |-> u.found \/ p.type = "key"]

\* The switch on buffer_state: the frame goes back to a list or to the pool.
PutBack(jb, f, from) ==
  CASE from = "incomplete" ->
         [jb EXCEPT !.incomplete = InsertFrame(@, f)]
    [] from = "decodable"  ->
         [jb EXCEPT !.decodable = InsertFrame(@, f)]
    [] from = "none"       -> [jb EXCEPT !.free = @ + 1]

PlaceFrame(jb, f, ret, from) ==
  CASE ret \in {"kSizeError", "kFlushIndicator"} ->
         [jb EXCEPT !.free = @ + 1]
    [] ret \in {"kCompleteSession", "kDecodableSession"} ->
         IF IsContinuous(jb, f)
           THEN FindAndInsertContinuousFrames(
                  [jb EXCEPT !.decodable = InsertFrame(@, f)], f)
           ELSE [jb EXCEPT !.incomplete = InsertFrame(@, f)]
    [] ret = "kIncomplete" ->
         IF f.state = "kStateEmpty" /\ CanDropEmpty(jb.last, f)
           THEN [jb EXCEPT !.last = AfterEmpty(@, f), !.free = @ + 1]
           ELSE [jb EXCEPT !.incomplete = InsertFrame(@, f)]
    [] ret \in {"kDuplicatePacket", "kOutOfBoundsPacket"} ->
         PutBack(jb, f, from)

\* The stages for a packet that is not old: get a frame (g), insert the packet
\* into it (b), do the bookkeeping (n), and put the frame somewhere.
PutAway(jb, p, g, b, n) ==
  LET nack == Received(b.ret) /\ ~jb.fresh /\ p.seq \in g.jb.missing
      f    == [b.frame EXCEPT !.nacked = @ \/ nack]
      ret  == IF n.ok THEN b.ret ELSE "kFlushIndicator"
  IN  [jb |-> PlaceFrame(n.jb, f, ret, g.from), ret |-> ret,
       signal |-> /\ ret = "kCompleteSession"
                  /\ g.frame.state \notin {"kStateDecodable", "kStateComplete"}
                  /\ IsContinuous(n.jb, f)]

NoteAndPutAway(jb, p, g, b) ==
  PutAway(jb, p, g, b, NoteReceived(g.jb, p, b.ret))

InsertIfFound(jb, p, g) ==
  IF g.ok
    THEN NoteAndPutAway(jb, p, g,
                        FrameInsertPacket(g.frame, p, jb.error_mode))
    ELSE [jb |-> g.jb, ret |-> "kFlushIndicator", signal |-> FALSE]

InsertIntoFrame(jb, p) ==
  InsertIfFound(jb, p, GetFrame([jb EXCEPT !.old = 0], p.ts))

InsertPacket(jb, p) ==
  IF IsOld(jb.last, p.ts) THEN InsertOldPacket(jb, p)
                          ELSE InsertIntoFrame(jb, p)

-----------------------------------------------------------------------------
(* GetNackList: [jb, request_key_frame, nack_list].                        *)
Lists(jb) == {jb.decodable[t] : t \in DOMAIN jb.decodable}
               \cup {jb.incomplete[t] : t \in DOMAIN jb.incomplete}

NextFrameIsKey(jb) ==
  /\ Lists(jb) # {}
  /\ LET next == IF IsEmptyList(jb.decodable) THEN Front(jb.incomplete)
                                              ELSE Front(jb.decodable)
     IN  next.type = "key" /\ HaveFirstPacket(next)

\* A signed difference of timestamps.
NonContinuousOrIncompleteDuration(jb) ==
  LET start == IF IsEmptyList(jb.decodable) THEN Front(jb.incomplete).ts
                                            ELSE Back(jb.decodable).ts
      d     == Distance(Back(jb.incomplete).ts, start, TsHalf)
  IN  IF IsEmptyList(jb.incomplete) THEN 0
      ELSE IF d < TsHalf THEN d ELSE d - 2 * TsHalf

TooLongIncomplete(jb) ==
  /\ MaxIncompleteDuration > 0
  /\ NonContinuousOrIncompleteDuration(jb) > MaxIncompleteDuration

\* Reset to the last key frame of the incomplete list, or ask for one.
SkipToLastKey(jb, request) ==
  LET inc  == jb.incomplete
      keys == {t \in DOMAIN inc : inc[t].type = "key"}
      low  == EstimatedLowSequenceNumber(inc[NewestTs(keys)])
      skip == [jb EXCEPT !.last = InitialState,
                         !.missing = DropPacketsFromNackList(@, low)]
  IN  IF ~TooLongIncomplete(jb)
        THEN [jb |-> jb, request |-> request, nack |-> jb.missing]
      ELSE IF keys = {}
        THEN [jb |-> jb, request |-> TRUE, nack |-> {}]
      ELSE [jb |-> skip, request |-> request, nack |-> skip.missing]

GetNackList(jb) ==
  LET seek   == jb.last.initial /\ ~NextFrameIsKey(jb)
      media  == \E f \in Lists(jb) : f.state # "kStateEmpty"
      r      == RecycleFramesUntilKeyFrame(jb)
      a      == IF seek THEN r.jb ELSE jb
      shrunk == HandleTooLargeNackList(a)
  IN  IF jb.nack_mode = "kNoNack"
        THEN [jb |-> jb, request |-> FALSE, nack |-> {}]
      ELSE IF seek /\ ~r.found
        THEN [jb |-> r.jb, request |-> media, nack |-> {}]
      ELSE IF TooLargeNackList(a.missing)
        THEN SkipToLastKey(shrunk.jb, ~shrunk.found)
      ELSE SkipToLastKey(a, FALSE)
=============================================================================
