-------------------------- MODULE SequenceNumbers --------------------------
(***************************************************************************)
(* RTP sequence numbers and timestamps (interface/module_common_types.h).  *)
(* Both are unsigned counters that wrap; "newer" is decided by which half  *)
(* of the circle the difference falls in.  The code fixes the circles at   *)
(* 2^16 and 2^32; here half a circle is a parameter, so that a model can   *)
(* wrap within a few packets.                                              *)
(***************************************************************************)
EXTENDS Integers

CONSTANTS SeqHalf,  \* 0x8000 in the code
          TsHalf    \* 0x80000000 in the code

ASSUME HalfAssumption == SeqHalf \in Nat \ {0} /\ TsHalf \in Nat \ {0}

SeqNums    == 0 .. (2 * SeqHalf - 1)
Timestamps == 0 .. (2 * TsHalf - 1)

\* Unsigned subtraction a - b on a circle of 2 * half values.
Distance(a, b, half) == IF a >= b THEN a - b ELSE a - b + 2 * half

\* Exactly half a circle apart, the numerically larger value is the newer one.
IsNewer(a, b, half) ==
  IF Distance(a, b, half) = half
    THEN a > b
    ELSE a # b /\ Distance(a, b, half) < half

IsNewerSequenceNumber(a, b) == IsNewer(a, b, SeqHalf)

IsNewerTimestamp(a, b) == IsNewer(a, b, TsHalf)

LatestSequenceNumber(a, b) == IF IsNewerSequenceNumber(a, b) THEN a ELSE b

\* uint16_t increment and decrement.
NextSeq(s) == IF s = 2 * SeqHalf - 1 THEN 0 ELSE s + 1
PrevSeq(s) == IF s = 0 THEN 2 * SeqHalf - 1 ELSE s - 1

-----------------------------------------------------------------------------
\* The first and the last key of a std::map ordered by TimestampLessThan.  That
\* comparison is an order only while the keys stay within half a circle; when
\* they do not, begin() and rbegin() still give some key.
OldestTs(S) ==
  LET first == {t \in S : \A u \in S : ~IsNewerTimestamp(t, u)}
  IN  CHOOSE t \in S : first # {} => t \in first

NewestTs(S) ==
  LET last == {t \in S : \A u \in S : ~IsNewerTimestamp(u, t)}
  IN  CHOOSE t \in S : last # {} => t \in last
=============================================================================
