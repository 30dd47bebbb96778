------------------------ MODULE AudioReceiverProofs ------------------------
(***************************************************************************)
(* Proofs about the audio receiver, for every capacity of the packet       *)
(* buffer, every size and threshold of the NACK list, and every stream     *)
(* that stays within half a circle of numbers.                             *)
(*                                                                         *)
(* The argument replaces the wrapping comparisons by the place of a number *)
(* in the stream: there, newer means later.                                *)
(***************************************************************************)
EXTENDS AudioReceiver, FiniteSetTheorems, WellFoundedInduction,
        SequenceTheorems, TLAPS

-----------------------------------------------------------------------------
(* Places in the stream.                                                   *)
TsPlace(t, s0)  == Distance(t, s0, TsHalf)
SeqPlace(n, s0) == Distance(n, s0, SeqHalf)

\* The timestamps and the sequence numbers of the stream that starts at s0.
StreamTs(s0)  == {t \in Timestamps : TsPlace(t, s0) < MaxSent}
StreamSeq(s0) == {n \in SeqNums : SeqPlace(n, s0) < MaxSent}

FirstNumbers == SeqNums \cap Timestamps

\* The constants, in one place.
LEMMA Constants ==
  /\ SeqHalf \in Nat /\ TsHalf \in Nat /\ MaxSent \in Nat
  /\ MaxSent >= 1 /\ MaxSent <= SeqHalf - 2 /\ MaxSent <= TsHalf - 2
  /\ Starts \subseteq FirstNumbers
BY HalfAssumption, BoundsAssumption DEF FirstNumbers

\* Addition on a circle.
LEMMA WrapIs ==
  ASSUME NEW m \in Nat, NEW x \in 0 .. (m - 1), NEW k \in 0 .. (m - 1)
  PROVE  (x + k) % m = IF x + k < m THEN x + k ELSE x + k - m
<1>1. \A y \in 0 .. (m - 1) : y % m = y
  BY Z3
<1>2. \A y \in m .. (2 * m - 1) : y % m = y - m
  BY Z3
<1>3. CASE x + k < m
  <2>1. x + k \in 0 .. (m - 1)
    BY <1>3
  <2> QED
    BY <1>1, <1>3, <2>1
<1>4. CASE ~(x + k < m)
  <2>1. x + k \in m .. (2 * m - 1)
    BY <1>4
  <2>2. PICK y \in m .. (2 * m - 1) : y = x + k
    BY <2>1
  <2>3. y % m = y - m
    BY <1>2, Zenon
  <2> QED
    BY <1>4, <2>2, <2>3
<1> QED
  BY <1>3, <1>4

\* Packet i has the (i - 1)th number and timestamp after the first.
LEMMA PacketPlaces ==
  ASSUME start \in FirstNumbers, NEW i \in 1 .. MaxSent
  PROVE  /\ SeqNumberOf(i) \in StreamSeq(start)
         /\ SeqPlace(SeqNumberOf(i), start) = i - 1
         /\ TimestampOf(i) \in StreamTs(start)
         /\ TsPlace(TimestampOf(i), start) = i - 1
<1>1. /\ start \in 0 .. (2 * SeqHalf - 1) /\ start \in 0 .. (2 * TsHalf - 1)
      /\ i - 1 \in 0 .. (2 * SeqHalf - 1) /\ i - 1 \in 0 .. (2 * TsHalf - 1)
      /\ 2 * SeqHalf \in Nat /\ 2 * TsHalf \in Nat
      /\ start + i - 1 = start + (i - 1)
  BY Constants DEF FirstNumbers, SeqNums, Timestamps
<1>2. SeqNumberOf(i) = IF start + (i - 1) < 2 * SeqHalf THEN start + (i - 1)
                         ELSE start + (i - 1) - 2 * SeqHalf
  BY <1>1, WrapIs DEF SeqNumberOf
<1>3. TimestampOf(i) = IF start + (i - 1) < 2 * TsHalf THEN start + (i - 1)
                         ELSE start + (i - 1) - 2 * TsHalf
  BY <1>1, WrapIs DEF TimestampOf
<1>4. SeqNumberOf(i) \in SeqNums /\ SeqPlace(SeqNumberOf(i), start) = i - 1
  BY <1>1, <1>2, Constants DEF SeqNums, SeqPlace, Distance
<1>5. TimestampOf(i) \in Timestamps /\ TsPlace(TimestampOf(i), start) = i - 1
  BY <1>1, <1>3, Constants DEF Timestamps, TsPlace, Distance
<1> QED
  BY <1>4, <1>5, Constants DEF StreamSeq, StreamTs

\* In the stream, newer means later.
LEMMA TsOrder ==
  ASSUME NEW s0 \in FirstNumbers, NEW t \in StreamTs(s0), NEW u \in StreamTs(s0)
  PROVE  /\ TsPlace(t, s0) \in Nat /\ TsPlace(u, s0) \in Nat
         /\ IsNewerTimestamp(t, u) <=> TsPlace(t, s0) > TsPlace(u, s0)
         /\ t # u => (Distance(t, u, TsHalf) < TsHalf - 1
                        <=> TsPlace(t, s0) > TsPlace(u, s0))
         /\ TsPlace(t, s0) = TsPlace(u, s0) => t = u
BY Constants
DEF FirstNumbers, StreamTs, Timestamps, TsPlace, Distance, IsNewerTimestamp, IsNewer

\* The same for sequence numbers, and the distance of two of them.
LEMMA SeqOrder ==
  ASSUME NEW s0 \in FirstNumbers, NEW a \in StreamSeq(s0), NEW b \in StreamSeq(s0)
  PROVE  /\ SeqPlace(a, s0) \in Nat /\ SeqPlace(b, s0) \in Nat
         /\ IsNewerSequenceNumber(a, b) <=> SeqPlace(a, s0) > SeqPlace(b, s0)
         /\ a # b => (Distance(a, b, SeqHalf) < SeqHalf - 1
                        <=> SeqPlace(a, s0) > SeqPlace(b, s0))
         /\ SeqPlace(a, s0) = SeqPlace(b, s0) => a = b
         /\ SeqPlace(a, s0) >= SeqPlace(b, s0)
              => Distance(a, b, SeqHalf) = SeqPlace(a, s0) - SeqPlace(b, s0)
BY Constants
DEF FirstNumbers, StreamSeq, SeqNums, SeqPlace, Distance, IsNewerSequenceNumber, IsNewer

-----------------------------------------------------------------------------
(* Sequences and sets of indices.                                          *)
\* A nonempty set of natural numbers has a least element.
LEMMA LeastNumber ==
  ASSUME NEW T \in SUBSET Nat, T # {}
  PROVE  \E m \in T : \A k \in T : m <= k
<1> DEFINE Smaller == OpToRel(<, Nat)
<1>1. \E x \in T : \A y \in T : ~(<<y, x>> \in Smaller)
  <2> HIDE DEF Smaller
  <2>1. IsWellFoundedOn(Smaller, Nat)
    BY NatLessThanWellFounded DEF Smaller
  <2> QED
    BY <2>1, WFMin
<1>2. \A x, y \in Nat : ~(<<y, x>> \in Smaller) => x <= y
  BY DEF OpToRel
<1> HIDE DEF Smaller
<1> QED
  BY <1>1, <1>2

\* The smallest number of a set.
LEMMA MinIs ==
  ASSUME NEW T \in SUBSET Nat, T # {}
  PROVE  Min(T) \in T /\ \A k \in T : Min(T) <= k
<1>1. \E m \in T : \A k \in T : m <= k
  BY LeastNumber
<1> QED
  BY <1>1 DEF Min

\* The largest number of a bounded set.
LEMMA MaxIs ==
  ASSUME NEW n \in Nat, NEW S \in SUBSET (0 .. n), S # {}
  PROVE  Max(S) \in S /\ \A k \in S : k <= Max(S)
<1> DEFINE T == {k \in Nat : \E i \in S : k = n - i}
<1>1. PICK m \in T : \A k \in T : m <= k
  <2>1. T \in SUBSET Nat /\ T # {}
    <3>1. PICK i \in S : TRUE
      OBVIOUS
    <3>2. n - i \in T
      OBVIOUS
    <3> QED
      BY <3>2
  <2> HIDE DEF T
  <2> QED
    BY <2>1, LeastNumber
<1>2. PICK i \in S : m = n - i
  BY <1>1
<1>3. \A j \in S : i >= j
  <2> SUFFICES ASSUME NEW j \in S PROVE i >= j
    OBVIOUS
  <2>1. n - j \in T
    OBVIOUS
  <2>2. n - i <= n - j
    BY <1>1, <1>2, <2>1
  <2> QED
    BY <2>2
<1>4. Max(S) \in S /\ \A j \in S : Max(S) >= j
  BY <1>3 DEF Max
<1> QED
  BY <1>4

\* A packet is put behind the first i ones.
LEMMA InsertAtIs ==
  ASSUME NEW X, NEW s \in Seq(X), NEW e \in X, NEW i \in 0 .. Len(s)
  PROVE  /\ InsertAt(s, i + 1, e) \in Seq(X)
         /\ Len(InsertAt(s, i + 1, e)) = Len(s) + 1
         /\ \A j \in 1 .. (Len(s) + 1) :
              InsertAt(s, i + 1, e)[j] = IF j <= i THEN s[j]
                                         ELSE IF j = i + 1 THEN e ELSE s[j - 1]
<1> DEFINE a == SubSeq(s, 1, i)
           b == SubSeq(s, i + 1, Len(s))
           c == a \o <<e>>
<1>1. InsertAt(s, i + 1, e) = c \o b
  <2>1. (i + 1) - 1 = i
    OBVIOUS
  <2>2. InsertAt(s, i + 1, e)
          = SubSeq(s, 1, (i + 1) - 1) \o <<e>> \o SubSeq(s, i + 1, Len(s))
    BY DEF InsertAt
  <2>3. SubSeq(s, 1, (i + 1) - 1) = a
    BY <2>1, Zenon
  <2> QED
    BY <2>2, <2>3, Zenon
<1>2. a \in Seq(X) /\ Len(a) = i /\ \A j \in 1 .. i : a[j] = s[j]
  OBVIOUS
<1>3. b \in Seq(X) /\ Len(b) = Len(s) - i /\ \A j \in 1 .. (Len(s) - i) : b[j] = s[i + j]
  OBVIOUS
<1> HIDE DEF a, b
<1>4. c \in Seq(X) /\ Len(c) = i + 1 /\ c[i + 1] = e /\ \A j \in 1 .. i : c[j] = s[j]
  BY <1>2
<1> HIDE DEF c
<1>5. /\ c \o b \in Seq(X) /\ Len(c \o b) = Len(s) + 1
      /\ \A j \in 1 .. (Len(s) + 1) :
           (c \o b)[j] = IF j <= i + 1 THEN c[j] ELSE b[j - (i + 1)]
  <2>1. Len(c) + Len(b) = Len(s) + 1
    BY <1>3, <1>4
  <2> QED
    BY <1>3, <1>4, <2>1, ConcatProperties
<1>6. ASSUME NEW j \in 1 .. (Len(s) + 1)
      PROVE  (c \o b)[j] = IF j <= i THEN s[j] ELSE IF j = i + 1 THEN e ELSE s[j - 1]
  <2>1. CASE j <= i + 1
    BY <1>4, <1>5, <2>1
  <2>2. CASE j > i + 1
    <3>1. (c \o b)[j] = b[j - (i + 1)]
      BY <1>5, <2>2
    <3>2. j - (i + 1) \in 1 .. (Len(s) - i)
      BY <2>2
    <3>3. b[j - (i + 1)] = s[i + (j - (i + 1))]
      BY <1>3, <3>2
    <3>4. i + (j - (i + 1)) = j - 1
      OBVIOUS
    <3> QED
      BY <2>2, <3>1, <3>3, <3>4
  <2>3. j <= i + 1 \/ j > i + 1
    OBVIOUS
  <2> QED
    BY <2>1, <2>2, <2>3, Zenon
<1>7. \A j \in 1 .. (Len(s) + 1) :
        (c \o b)[j] = IF j <= i THEN s[j] ELSE IF j = i + 1 THEN e ELSE s[j - 1]
  BY <1>6, Zenon
<1> DEFINE w == c \o b
<1>8. /\ w \in Seq(X) /\ Len(w) = Len(s) + 1
      /\ \A j \in 1 .. (Len(s) + 1) :
           w[j] = IF j <= i THEN s[j] ELSE IF j = i + 1 THEN e ELSE s[j - 1]
  BY <1>5, <1>7, Zenon
<1>9. InsertAt(s, i + 1, e) = w
  BY <1>1, Zenon
<1> HIDE DEF w
<1> QED
  BY <1>8, <1>9, Zenon

-----------------------------------------------------------------------------
(* The packet buffer.                                                      *)
\* The payloads of the stream: a redundant one comes a packet later than the
\* audio it repeats.
StreamPackets(s0) ==
  {p \in Packet : /\ p.ts \in StreamTs(s0) /\ p.seq \in StreamSeq(s0)
                  /\ SeqPlace(p.seq, s0)
                       = TsPlace(p.ts, s0) + (IF p.primary THEN 0 ELSE 1)}

\* A buffer of such payloads, each later than the one before it.
Sorted(buffer, s0) ==
  \A i, j \in 1 .. Len(buffer) :
    i < j => TsPlace(buffer[i].ts, s0) < TsPlace(buffer[j].ts, s0)

BufferOK(buffer, s0) == buffer \in Seq(StreamPackets(s0)) /\ Sorted(buffer, s0)

\* Packet::operator< is by timestamp, and among payloads of one timestamp puts
\* the primary one first.
LEMMA LessIs ==
  ASSUME NEW s0 \in FirstNumbers,
         NEW p \in StreamPackets(s0), NEW q \in StreamPackets(s0)
  PROVE  /\ TsPlace(p.ts, s0) \in Nat /\ TsPlace(q.ts, s0) \in Nat
         /\ Less(p, q) => TsPlace(p.ts, s0) <= TsPlace(q.ts, s0)
         /\ ~Less(p, q) => TsPlace(q.ts, s0) <= TsPlace(p.ts, s0)
         /\ TsPlace(p.ts, s0) = TsPlace(q.ts, s0) => p.ts = q.ts
         /\ Less(p, q) /\ p.ts = q.ts => ~q.primary
<1>1. /\ p.ts \in StreamTs(s0) /\ q.ts \in StreamTs(s0)
      /\ p.seq \in StreamSeq(s0) /\ q.seq \in StreamSeq(s0)
      /\ p.primary \in BOOLEAN /\ q.primary \in BOOLEAN
      /\ SeqPlace(p.seq, s0) = TsPlace(p.ts, s0) + (IF p.primary THEN 0 ELSE 1)
      /\ SeqPlace(q.seq, s0) = TsPlace(q.ts, s0) + (IF q.primary THEN 0 ELSE 1)
  BY DEF StreamPackets, Packet
<1>2. /\ TsPlace(p.ts, s0) \in Nat /\ TsPlace(q.ts, s0) \in Nat
      /\ TsPlace(p.ts, s0) = TsPlace(q.ts, s0) => p.ts = q.ts
      /\ p.ts # q.ts => (Distance(q.ts, p.ts, TsHalf) < TsHalf - 1
                           <=> TsPlace(q.ts, s0) > TsPlace(p.ts, s0))
  BY <1>1, TsOrder
<1>3. p.seq # q.seq => (Distance(q.seq, p.seq, SeqHalf) < SeqHalf - 1
                          <=> SeqPlace(q.seq, s0) > SeqPlace(p.seq, s0))
  BY <1>1, SeqOrder
<1>4. CASE p.ts # q.ts
  BY <1>2, <1>4 DEF Less
<1>5. CASE p.ts = q.ts /\ p.seq # q.seq
  BY <1>1, <1>2, <1>3, <1>5 DEF Less
<1>6. CASE p.ts = q.ts /\ p.seq = q.seq
  BY <1>1, <1>2, <1>6 DEF Less
<1> QED
  BY <1>4, <1>5, <1>6

\* The search from the back finds where the new packet belongs.
LEMMA PlaceBehindIs ==
  ASSUME NEW X, NEW buffer \in Seq(X), NEW new
  PROVE  /\ PlaceBehind(buffer, new) \in 0 .. Len(buffer)
         /\ PlaceBehind(buffer, new) > 0 => ~Less(new, buffer[PlaceBehind(buffer, new)])
         /\ \A j \in 1 .. Len(buffer) : j > PlaceBehind(buffer, new) => Less(new, buffer[j])
<1> DEFINE S == {0} \cup {i \in DOMAIN buffer : GoesBefore(buffer[i], new)}
<1>1. Len(buffer) \in Nat /\ DOMAIN buffer = 1 .. Len(buffer)
  OBVIOUS
<1>2. S \in SUBSET (0 .. Len(buffer)) /\ S # {}
  BY <1>1
<1>3. \A j \in 1 .. Len(buffer) : j \in S <=> ~Less(new, buffer[j])
  BY <1>1 DEF GoesBefore
<1>4. PlaceBehind(buffer, new) = Max(S)
  BY DEF PlaceBehind
<1> HIDE DEF S
<1>5. Max(S) \in S /\ \A k \in S : k <= Max(S)
  BY <1>1, <1>2, MaxIs
<1> DEFINE m == Max(S)
<1>6. m \in S /\ (\A k \in S : k <= m) /\ PlaceBehind(buffer, new) = m
  BY <1>4, <1>5
<1> HIDE DEF m
<1>7. m \in 0 .. Len(buffer)
  BY <1>2, <1>6, Zenon
<1>8. m > 0 => ~Less(new, buffer[m])
  <2>1. m > 0 => m \in 1 .. Len(buffer)
    BY <1>1, <1>7
  <2> QED
    BY <1>3, <1>6, <2>1, Zenon
<1>9. ASSUME NEW j \in 1 .. Len(buffer), j > m
      PROVE  Less(new, buffer[j])
  <2>1. ~(j <= m)
    BY <1>1, <1>7, <1>9
  <2>2. j \notin S
    BY <1>6, <2>1, Zenon
  <2> QED
    BY <1>3, <2>2, Zenon
<1> QED
  BY <1>6, <1>7, <1>8, <1>9, Zenon

\* What an insertion does: the buffer stays sorted, gains at most the new
\* packet, and has a primary payload wherever it had one.
Inserted(buffer, new, result, s0) ==
  /\ BufferOK(result, s0)
  /\ Len(result) <= Len(buffer) + 1
  /\ \A j \in 1 .. Len(result) :
       result[j] = new \/ \E i \in 1 .. Len(buffer) : result[j] = buffer[i]
  /\ \A i \in 1 .. Len(buffer) : buffer[i].primary =>
       \E j \in 1 .. Len(result) : result[j].ts = buffer[i].ts /\ result[j].primary

\* PacketBuffer::InsertPacket, once there is room.
LEMMA PlacedIs ==
  ASSUME NEW s0 \in FirstNumbers, NEW buffer, BufferOK(buffer, s0),
         NEW new \in StreamPackets(s0)
  PROVE  Inserted(buffer, new, Placed(buffer, new), s0)
<1> DEFINE i == PlaceBehind(buffer, new)
           N == Len(buffer)
           T(p) == TsPlace(p.ts, s0)
           drop == i > 0 /\ buffer[i].ts = new.ts
           swap == i < N /\ buffer[i + 1].ts = new.ts
<1>1. buffer \in Seq(StreamPackets(s0)) /\ N \in Nat
  BY DEF BufferOK
<1>2. /\ i \in 0 .. N
      /\ i > 0 => ~Less(new, buffer[i])
      /\ \A j \in 1 .. N : j > i => Less(new, buffer[j])
  BY <1>1, PlaceBehindIs
<1>3. \A j \in 1 .. N : buffer[j] \in StreamPackets(s0)
  BY <1>1
<1>4. \A j, k \in 1 .. N : j < k => T(buffer[j]) < T(buffer[k])
  BY DEF BufferOK, Sorted
<1>5. /\ T(new) \in Nat
      /\ \A j \in 1 .. N :
           /\ T(buffer[j]) \in Nat
           /\ T(buffer[j]) = T(new) <=> buffer[j].ts = new.ts
           /\ Less(new, buffer[j]) => T(new) <= T(buffer[j])
           /\ ~Less(new, buffer[j]) => T(buffer[j]) <= T(new)
  BY <1>3, LessIs
<1>6. Placed(buffer, new) = IF drop THEN buffer
                            ELSE IF swap THEN [buffer EXCEPT ![i + 1] = new]
                            ELSE InsertAt(buffer, i + 1, new)
  BY DEF Placed
<1> HIDE DEF i, N, T
<1>7. CASE drop
  BY <1>1, <1>6, <1>7 DEF Inserted, N
<1>8. CASE ~drop /\ swap
  <2> DEFINE r == [buffer EXCEPT ![i + 1] = new]
  <2>1. i + 1 \in 1 .. N /\ T(new) = T(buffer[i + 1]) /\ Less(new, buffer[i + 1])
    <3>1. i + 1 \in 1 .. N /\ i + 1 > i
      BY <1>1, <1>2, <1>8
    <3>2. Less(new, buffer[i + 1])
      BY <1>2, <3>1, Zenon
    <3>3. T(buffer[i + 1]) = T(new)
      BY <1>5, <1>8, <3>1, Zenon
    <3> QED
      BY <3>1, <3>2, <3>3, Zenon
  <2>2. /\ r \in Seq(StreamPackets(s0)) /\ Len(r) = N /\ r[i + 1] = new
        /\ \A j \in 1 .. N : j # i + 1 => r[j] = buffer[j]
    BY <1>1, <2>1 DEF N
  <2> HIDE DEF r
  <2>3. \A j \in 1 .. N : T(r[j]) = T(buffer[j]) /\ r[j].ts = buffer[j].ts
    BY <1>8, <2>1, <2>2
  <2>4. BufferOK(r, s0)
    BY <1>4, <2>2, <2>3 DEF BufferOK, Sorted, T
  <2>5. ~buffer[i + 1].primary
    BY <1>3, <1>8, <2>1, LessIs
  <2>6. \A j \in 1 .. N : r[j] = new \/ r[j] = buffer[j]
    BY <2>2
  <2>7. \A j \in 1 .. N : buffer[j].primary => r[j].ts = buffer[j].ts /\ r[j].primary
    BY <2>2, <2>5
  <2>8. Inserted(buffer, new, r, s0)
    BY <1>1, <2>2, <2>4, <2>6, <2>7 DEF Inserted, N
  <2> QED
    BY <1>6, <1>8, <2>8 DEF r
<1>9. CASE ~drop /\ ~swap
  <2> DEFINE r == InsertAt(buffer, i + 1, new)
  <2>1. /\ r \in Seq(StreamPackets(s0)) /\ Len(r) = N + 1
        /\ \A j \in 1 .. (N + 1) :
             r[j] = IF j <= i THEN buffer[j] ELSE IF j = i + 1 THEN new ELSE buffer[j - 1]
    BY <1>1, <1>2, InsertAtIs DEF N
  <2> HIDE DEF r
  <2>2. ASSUME NEW j \in 1 .. N, j <= i
        PROVE  T(buffer[j]) < T(new)
    <3>1. i \in 1 .. N /\ ~Less(new, buffer[i]) /\ buffer[i].ts # new.ts
      BY <1>1, <1>2, <1>9, <2>2
    <3>2. T(buffer[i]) < T(new)
      <4>1. /\ T(buffer[i]) \in Nat /\ T(buffer[i]) # T(new)
            /\ T(buffer[i]) <= T(new)
        BY <1>5, <3>1, Zenon
      <4> QED
        BY <1>5, <4>1
    <3>3. j = i \/ T(buffer[j]) < T(buffer[i])
      BY <1>1, <1>4, <2>2, <3>1
    <3>4. T(buffer[i]) \in Nat /\ T(buffer[j]) \in Nat /\ T(new) \in Nat
      BY <1>5, <3>1, Zenon
    <3>5. CASE j = i
      BY <3>2, <3>5
    <3>6. CASE T(buffer[j]) < T(buffer[i])
      BY <3>2, <3>4, <3>6
    <3> QED
      BY <3>3, <3>5, <3>6
  <2>3. ASSUME NEW j \in 1 .. N, j > i
        PROVE  T(new) < T(buffer[j])
    <3>1. i + 1 \in 1 .. N /\ Less(new, buffer[i + 1]) /\ buffer[i + 1].ts # new.ts
      BY <1>1, <1>2, <1>9, <2>3
    <3>2. T(new) < T(buffer[i + 1])
      <4>1. /\ T(buffer[i + 1]) \in Nat /\ T(buffer[i + 1]) # T(new)
            /\ T(new) <= T(buffer[i + 1])
        BY <1>5, <3>1, Zenon
      <4> QED
        BY <1>5, <4>1
    <3>3. j = i + 1 \/ T(buffer[i + 1]) < T(buffer[j])
      BY <1>1, <1>2, <1>4, <2>3, <3>1
    <3>4. T(buffer[i + 1]) \in Nat /\ T(buffer[j]) \in Nat /\ T(new) \in Nat
      BY <1>5, <3>1, Zenon
    <3>5. CASE j = i + 1
      BY <3>2, <3>5
    <3>6. CASE T(buffer[i + 1]) < T(buffer[j])
      BY <3>2, <3>4, <3>6
    <3> QED
      BY <3>3, <3>5, <3>6
  <2>4. ASSUME NEW j \in 1 .. (N + 1), NEW k \in 1 .. (N + 1), j < k
        PROVE  T(r[j]) < T(r[k])
    <3>1. CASE k <= i
      BY <1>1, <1>2, <1>4, <2>1, <2>4, <3>1
    <3>2. CASE k = i + 1
      <4>1. r[j] = buffer[j] /\ r[k] = new /\ j \in 1 .. N /\ j <= i
        BY <1>1, <1>2, <2>1, <2>4, <3>2
      <4> QED
        BY <2>2, <4>1
    <3>3. CASE k > i + 1
      <4>1. r[k] = buffer[k - 1] /\ k - 1 \in 1 .. N /\ k - 1 > i
        BY <1>1, <1>2, <2>1, <3>3
      <4>2. CASE j <= i
        <5>1. r[j] = buffer[j] /\ j \in 1 .. N /\ j < k - 1
          BY <1>1, <1>2, <2>1, <4>1, <4>2
        <5> QED
          BY <1>4, <4>1, <5>1
      <4>3. CASE j = i + 1
        BY <2>1, <2>3, <4>1, <4>3, <1>2
      <4>4. CASE j > i + 1
        <5>1. j - 1 \in 1 .. N /\ j - 1 < k - 1 /\ ~(j <= i) /\ j # i + 1
          BY <1>1, <1>2, <2>4, <4>4
        <5>2. r[j] = buffer[j - 1]
          BY <2>1, <5>1
        <5> QED
          BY <1>4, <4>1, <5>1, <5>2
      <4> QED
        BY <1>2, <4>2, <4>3, <4>4
    <3> QED
      BY <1>2, <3>1, <3>2, <3>3
  <2>5. BufferOK(r, s0)
    BY <2>1, <2>4 DEF BufferOK, Sorted, T
  <2>6. ASSUME NEW j \in 1 .. (N + 1)
        PROVE  r[j] = new \/ \E k \in 1 .. N : r[j] = buffer[k]
    <3>1. CASE j <= i
      BY <1>1, <1>2, <2>1, <3>1
    <3>2. CASE j = i + 1
      BY <1>2, <2>1, <3>2
    <3>3. CASE j > i + 1
      <4>1. j - 1 \in 1 .. N /\ ~(j <= i) /\ j # i + 1
        BY <1>1, <1>2, <3>3
      <4>2. r[j] = buffer[j - 1]
        BY <2>1, <4>1
      <4> QED
        BY <4>1, <4>2
    <3> QED
      BY <1>2, <3>1, <3>2, <3>3
  <2>7. ASSUME NEW j \in 1 .. N
        PROVE  \E k \in 1 .. (N + 1) : r[k] = buffer[j]
    <3>1. CASE j <= i
      <4>1. j \in 1 .. (N + 1) /\ r[j] = buffer[j]
        BY <1>1, <2>1, <3>1
      <4> QED
        BY <4>1
    <3>2. CASE j > i
      <4>1. j + 1 \in 1 .. (N + 1) /\ ~(j + 1 <= i) /\ j + 1 # i + 1 /\ (j + 1) - 1 = j
        BY <1>1, <1>2, <3>2
      <4>2. r[j + 1] = buffer[j]
        BY <2>1, <4>1
      <4> QED
        BY <4>1, <4>2
    <3> QED
      BY <1>2, <3>1, <3>2
  <2>8. Inserted(buffer, new, r, s0)
    <3>1. \A j \in 1 .. N : buffer[j].primary =>
            \E k \in 1 .. (N + 1) : r[k].ts = buffer[j].ts /\ r[k].primary
      BY <2>7
    <3> QED
      BY <1>1, <2>1, <2>5, <2>6, <3>1 DEF Inserted, N
  <2> QED
    BY <1>6, <1>9, <2>8 DEF r
<1> QED
  BY <1>7, <1>8, <1>9

\* NetEq's buffer with the payload types it is for.
KnownTypes == PayloadTypes \cup {RedType, NoType}

BufferStates(s0) ==
  [buffer : Seq(StreamPackets(s0)), rtp : KnownTypes, cng : KnownTypes,
   flushed : BOOLEAN]

OneCodec(b) == \A i \in 1 .. Len(b.buffer) : b.buffer[i].pt \in {b.rtp, b.cng}

GoodState(b, s0) ==
  /\ b \in BufferStates(s0)
  /\ BufferOK(b.buffer, s0)
  /\ Len(b.buffer) <= MaxPackets
  /\ OneCodec(b)

PrimariesKept(before, after) ==
  \A i \in 1 .. Len(before) : before[i].primary =>
    \E j \in 1 .. Len(after) : after[j].ts = before[i].ts /\ after[j].primary

\* The empty buffer is in order.
LEMMA EmptyOK ==
  ASSUME NEW s0
  PROVE  /\ BufferOK(<<>>, s0) /\ Len(<<>>) = 0 /\ <<>> \in Seq(StreamPackets(s0))
         /\ Len(<<>>) <= MaxPackets
<1>1. <<>> \in Seq(StreamPackets(s0)) /\ Len(<<>>) = 0
  OBVIOUS
<1> QED
  BY <1>1, MaxPacketsAssumption DEF BufferOK, Sorted

\* Before the payload type changes the buffer is emptied.
LEMMA MeetIs ==
  ASSUME NEW s0, NEW b, GoodState(b, s0), NEW pt \in PayloadTypes,
         NEW c \in {MeetCng(b, pt), MeetSpeech(b, pt)}
  PROVE  /\ GoodState(c, s0) /\ pt \in {c.rtp, c.cng}
         /\ ~c.flushed => ~b.flushed /\ c.buffer = b.buffer
<1>1. /\ b \in BufferStates(s0) /\ BufferOK(b.buffer, s0)
      /\ Len(b.buffer) <= MaxPackets /\ OneCodec(b)
  BY DEF GoodState
<1>2. pt \in KnownTypes /\ NoType \in KnownTypes /\ pt # NoType
  BY PayloadTypesAssumption DEF KnownTypes, PayloadTypes
<1>3. \A i \in 1 .. Len(b.buffer) : b.buffer[i].pt # NoType
  <2>1. \A i \in 1 .. Len(b.buffer) : b.buffer[i] \in Packet
    BY <1>1 DEF BufferOK, StreamPackets
  <2> QED
    BY <2>1, PayloadTypesAssumption DEF Packet, PayloadTypes
<1>4. ASSUME c \in BufferStates(s0), c.buffer = <<>>
      PROVE  GoodState(c, s0)
  BY <1>4, EmptyOK DEF GoodState, OneCodec
<1>5. CASE c = MeetCng(b, pt)
  <2>1. CASE b.cng \notin {NoType, pt}
    <3>1. c = [[[b EXCEPT !.buffer = <<>>, !.flushed = TRUE] EXCEPT !.rtp = NoType]
                 EXCEPT !.cng = pt]
      BY <1>5, <2>1 DEF MeetCng, Flushed
    <3>2. c \in BufferStates(s0) /\ c.buffer = <<>> /\ c.cng = pt /\ c.flushed = TRUE
      BY <1>1, <1>2, <3>1, EmptyOK DEF BufferStates
    <3> QED
      BY <1>4, <3>2
  <2>2. CASE b.cng \in {NoType, pt}
    <3>1. c = [b EXCEPT !.cng = pt]
      BY <1>5, <2>2 DEF MeetCng
    <3>2. /\ c \in BufferStates(s0) /\ c.buffer = b.buffer /\ c.cng = pt
          /\ c.rtp = b.rtp /\ c.flushed = b.flushed
      BY <1>1, <1>2, <3>1 DEF BufferStates
    <3>3. OneCodec(c)
      BY <1>1, <1>3, <2>2, <3>2 DEF OneCodec
    <3> QED
      BY <1>1, <3>2, <3>3 DEF GoodState
  <2> QED
    BY <2>1, <2>2
<1>6. CASE c = MeetSpeech(b, pt)
  <2>1. CASE b.rtp \notin {NoType, pt}
    <3>1. c = [[[b EXCEPT !.buffer = <<>>, !.flushed = TRUE] EXCEPT !.cng = NoType]
                 EXCEPT !.rtp = pt]
      BY <1>6, <2>1 DEF MeetSpeech, Flushed
    <3>2. c \in BufferStates(s0) /\ c.buffer = <<>> /\ c.rtp = pt /\ c.flushed = TRUE
      BY <1>1, <1>2, <3>1, EmptyOK DEF BufferStates
    <3> QED
      BY <1>4, <3>2
  <2>2. CASE b.rtp \in {NoType, pt}
    <3>1. c = [b EXCEPT !.rtp = pt]
      BY <1>6, <2>2 DEF MeetSpeech
    <3>2. /\ c \in BufferStates(s0) /\ c.buffer = b.buffer /\ c.rtp = pt
          /\ c.cng = b.cng /\ c.flushed = b.flushed
      BY <1>1, <1>2, <3>1 DEF BufferStates
    <3>3. OneCodec(c)
      BY <1>1, <1>3, <2>2, <3>2 DEF OneCodec
    <3> QED
      BY <1>1, <3>2, <3>3 DEF GoodState
  <2> QED
    BY <2>1, <2>2
<1> QED
  BY <1>5, <1>6

\* One payload of a list.
LEMMA InsertOneIs ==
  ASSUME NEW s0 \in FirstNumbers, NEW b, GoodState(b, s0), NEW p \in StreamPackets(s0)
  PROVE  /\ GoodState(InsertOne(b, p), s0)
         /\ ~InsertOne(b, p).flushed
              => ~b.flushed /\ PrimariesKept(b.buffer, InsertOne(b, p).buffer)
<1> DEFINE c == IF p.pt \in CngTypes THEN MeetCng(b, p.pt) ELSE MeetSpeech(b, p.pt)
           old == IF IsFull(c.buffer) THEN <<>> ELSE c.buffer
           new == Placed(old, p)
           r == InsertOne(b, p)
<1>1. p.pt \in PayloadTypes
  BY DEF StreamPackets, Packet
<1>2. /\ GoodState(c, s0) /\ p.pt \in {c.rtp, c.cng}
      /\ ~c.flushed => ~b.flushed /\ c.buffer = b.buffer
  BY <1>1, MeetIs
<1>3. r = [c EXCEPT !.buffer = new, !.flushed = @ \/ IsFull(c.buffer)]
  BY DEF InsertOne, InsertPacket
<1> HIDE DEF c
<1>4. /\ c \in BufferStates(s0) /\ BufferOK(c.buffer, s0)
      /\ Len(c.buffer) \in Nat /\ Len(c.buffer) <= MaxPackets /\ OneCodec(c)
  BY <1>2 DEF GoodState, BufferStates
<1>5. /\ BufferOK(old, s0) /\ Len(old) \in Nat /\ Len(old) + 1 <= MaxPackets
      /\ \A i \in 1 .. Len(old) : old[i].pt \in {c.rtp, c.cng}
  <2>1. CASE IsFull(c.buffer)
    BY <2>1, EmptyOK, MaxPacketsAssumption
  <2>2. CASE ~IsFull(c.buffer)
    BY <1>4, <2>2, MaxPacketsAssumption DEF IsFull, OneCodec
  <2> QED
    BY <2>1, <2>2
<1>6. ~IsFull(c.buffer) => old = c.buffer
  OBVIOUS
<1> HIDE DEF old
<1>7. Inserted(old, p, new, s0)
  BY <1>5, PlacedIs
<1> HIDE DEF new, r
<1>8. /\ new \in Seq(StreamPackets(s0)) /\ BufferOK(new, s0) /\ Len(new) \in Nat
      /\ Len(new) <= MaxPackets
      /\ \A j \in 1 .. Len(new) : new[j].pt \in {c.rtp, c.cng}
      /\ PrimariesKept(old, new)
  <2>1. BufferOK(new, s0) /\ Len(new) <= Len(old) + 1 /\ PrimariesKept(old, new)
    BY <1>7 DEF Inserted, PrimariesKept
  <2>2. new \in Seq(StreamPackets(s0)) /\ Len(new) \in Nat
    BY <2>1 DEF BufferOK
  <2>3. Len(new) <= MaxPackets
    BY <1>5, <2>1, <2>2, MaxPacketsAssumption
  <2>4. \A j \in 1 .. Len(new) : new[j] = p \/ \E i \in 1 .. Len(old) : new[j] = old[i]
    BY <1>7 DEF Inserted
  <2>5. \A j \in 1 .. Len(new) : new[j].pt \in {c.rtp, c.cng}
    BY <1>2, <1>5, <2>4
  <2> QED
    BY <2>1, <2>2, <2>3, <2>5
<1>9. /\ r \in BufferStates(s0) /\ r.buffer = new /\ r.rtp = c.rtp /\ r.cng = c.cng
      /\ r.flushed = (c.flushed \/ IsFull(c.buffer))
  BY <1>3, <1>4, <1>8 DEF BufferStates, IsFull
<1>10. GoodState(r, s0)
  BY <1>8, <1>9 DEF GoodState, OneCodec
<1>11. ~r.flushed => ~b.flushed /\ PrimariesKept(b.buffer, r.buffer)
  BY <1>2, <1>6, <1>8, <1>9
<1> QED
  BY <1>10, <1>11 DEF r

\* What is kept twice over is kept.
LEMMA KeptTwice ==
  ASSUME NEW X, NEW a, NEW b \in Seq(X), NEW c, PrimariesKept(a, b), PrimariesKept(b, c)
  PROVE  PrimariesKept(a, c)
<1> SUFFICES ASSUME NEW i \in 1 .. Len(a), a[i].primary
             PROVE  \E j \in 1 .. Len(c) : c[j].ts = a[i].ts /\ c[j].primary
  BY Zenon DEF PrimariesKept
<1>1. PICK k \in 1 .. Len(b) : b[k].ts = a[i].ts /\ b[k].primary
  BY Zenon DEF PrimariesKept
<1>2. PICK j \in 1 .. Len(c) : c[j].ts = b[k].ts /\ c[j].primary
  BY <1>1, Zenon DEF PrimariesKept
<1> QED
  BY <1>1, <1>2, Zenon

\* PacketBuffer::InsertPacketList with the payloads of one datagram.
LEMMA InsertPacketListIs ==
  ASSUME NEW s0 \in FirstNumbers, NEW b, GoodState(b, s0),
         NEW p \in StreamPackets(s0), NEW q \in StreamPackets(s0),
         NEW list \in {<<p>>, <<p, q>>}
  PROVE  /\ GoodState(InsertPacketList(b, list), s0)
         /\ ~InsertPacketList(b, list).flushed
              => PrimariesKept(b.buffer, InsertPacketList(b, list).buffer)
<1> DEFINE c == InsertOne(b, p)
           d == InsertOne(c, q)
<1>1. GoodState(c, s0) /\ (~c.flushed => PrimariesKept(b.buffer, c.buffer))
  BY InsertOneIs
<1>2. CASE list = <<p>>
  <2>1. InsertPacketList(b, list) = c
    BY <1>2 DEF InsertPacketList
  <2> QED
    BY <1>1, <2>1
<1>3. CASE list = <<p, q>>
  <2>1. InsertPacketList(b, list) = d
    BY <1>3 DEF InsertPacketList
  <2> HIDE DEF c
  <2>2. /\ GoodState(d, s0)
        /\ ~d.flushed => ~c.flushed /\ PrimariesKept(c.buffer, d.buffer)
    BY <1>1, InsertOneIs
  <2> HIDE DEF d
  <2>3. c.buffer \in Seq(StreamPackets(s0))
    BY <1>1 DEF GoodState, BufferOK
  <2>4. ~d.flushed => PrimariesKept(b.buffer, d.buffer)
    BY <1>1, <2>2, <2>3, KeptTwice
  <2> QED
    BY <2>1, <2>2, <2>4
<1> QED
  BY <1>2, <1>3

-----------------------------------------------------------------------------
(* Packets leave the buffer at the front.                                  *)
Remainders(s) == {SubSeq(s, k, Len(s)) : k \in 1 .. (Len(s) + 1)}

\* What is left from the k-th packet on.
LEMMA SuffixIs ==
  ASSUME NEW X, NEW s \in Seq(X), NEW k \in 1 .. (Len(s) + 1)
  PROVE  /\ SubSeq(s, k, Len(s)) \in Seq(X)
         /\ Len(SubSeq(s, k, Len(s))) = (Len(s) - k) + 1
         /\ \A j \in 1 .. ((Len(s) - k) + 1) : SubSeq(s, k, Len(s))[j] = s[(k + j) - 1]
  OBVIOUS

\* What remains of a remainder.
LEMMA SuffixTwice ==
  ASSUME NEW X, NEW s \in Seq(X), NEW t \in Remainders(s), NEW u \in Remainders(t)
  PROVE  u \in Remainders(s)
<1>1. PICK k \in 1 .. (Len(s) + 1) : t = SubSeq(s, k, Len(s))
  BY DEF Remainders
<1>2. /\ t \in Seq(X) /\ Len(t) = (Len(s) - k) + 1 /\ Len(s) \in Nat
      /\ \A j \in 1 .. ((Len(s) - k) + 1) : t[j] = s[(k + j) - 1]
  BY <1>1, SuffixIs
<1>3. PICK l \in 1 .. (Len(t) + 1) : u = SubSeq(t, l, Len(t))
  BY DEF Remainders
<1>4. /\ u \in Seq(X) /\ Len(u) = (Len(t) - l) + 1
      /\ \A j \in 1 .. ((Len(t) - l) + 1) : u[j] = t[(l + j) - 1]
  <2>1. t \in Seq(X)
    BY <1>2
  <2> QED
    BY <1>3, <2>1, SuffixIs
<1> DEFINE m == (k + l) - 1
           v == SubSeq(s, m, Len(s))
<1>5. m \in 1 .. (Len(s) + 1)
  BY <1>2
<1>6. m = (k + l) - 1
  OBVIOUS
<1> HIDE DEF m
<1>7. /\ v \in Seq(X) /\ Len(v) = (Len(s) - m) + 1
      /\ \A j \in 1 .. ((Len(s) - m) + 1) : v[j] = s[(m + j) - 1]
  BY <1>5, SuffixIs
<1>8. v \in Remainders(s)
  BY <1>5 DEF Remainders
<1> HIDE DEF v
<1>9. Len(u) = Len(v)
  BY <1>2, <1>4, <1>5, <1>6, <1>7
<1>10. ASSUME NEW j \in 1 .. Len(u)
       PROVE  u[j] = v[j]
  <2>1. /\ (l + j) - 1 \in 1 .. ((Len(s) - k) + 1) /\ j \in 1 .. ((Len(s) - m) + 1)
        /\ j \in 1 .. ((Len(t) - l) + 1)
        /\ (k + ((l + j) - 1)) - 1 = (m + j) - 1
    BY <1>2, <1>4, <1>5, <1>6, <1>10
  <2>2. u[j] = t[(l + j) - 1] /\ v[j] = s[(m + j) - 1]
    BY <1>4, <1>7, <2>1, Zenon
  <2>3. t[(l + j) - 1] = s[(k + ((l + j) - 1)) - 1]
    BY <1>2, <2>1, Zenon
  <2> QED
    BY <2>1, <2>2, <2>3, Zenon
<1>11. u = v
  BY <1>4, <1>7, <1>9, <1>10, SeqEqual
<1> QED
  BY <1>8, <1>11

\* A good state stays good when packets leave at the front.
LEMMA GoodSuffix ==
  ASSUME NEW s0, NEW b, GoodState(b, s0), NEW t \in Remainders(b.buffer)
  PROVE  GoodState([b EXCEPT !.buffer = t], s0)
<1> DEFINE s == b.buffer
           r == [b EXCEPT !.buffer = t]
<1>1. /\ b \in BufferStates(s0) /\ s \in Seq(StreamPackets(s0)) /\ Len(s) \in Nat
      /\ Len(s) <= MaxPackets /\ Sorted(s, s0) /\ OneCodec(b)
  BY DEF GoodState, BufferOK
<1>2. PICK k \in 1 .. (Len(s) + 1) : t = SubSeq(s, k, Len(s))
  BY DEF Remainders
<1>3. /\ t \in Seq(StreamPackets(s0)) /\ Len(t) = (Len(s) - k) + 1
      /\ \A j \in 1 .. ((Len(s) - k) + 1) : t[j] = s[(k + j) - 1]
  BY <1>1, <1>2, SuffixIs
<1>4. /\ r \in BufferStates(s0) /\ r.buffer = t /\ r.rtp = b.rtp /\ r.cng = b.cng
  BY <1>1, <1>3 DEF BufferStates
<1> HIDE DEF r
<1>5. \A j \in 1 .. Len(t) : (k + j) - 1 \in 1 .. Len(s) /\ t[j] = s[(k + j) - 1]
  BY <1>1, <1>3
<1>6. Sorted(t, s0)
  <2> SUFFICES ASSUME NEW i \in 1 .. Len(t), NEW j \in 1 .. Len(t), i < j
               PROVE  TsPlace(t[i].ts, s0) < TsPlace(t[j].ts, s0)
    BY DEF Sorted
  <2>1. (k + i) - 1 < (k + j) - 1
    BY <1>1, <1>3
  <2> QED
    BY <1>1, <1>5, <2>1, Zenon DEF Sorted
<1>7. OneCodec(r)
  BY <1>1, <1>4, <1>5, Zenon DEF OneCodec
<1>8. Len(t) <= MaxPackets
  BY <1>1, <1>3, MaxPacketsAssumption
<1>9. GoodState(r, s0)
  BY <1>3, <1>4, <1>6, <1>7, <1>8 DEF GoodState, BufferOK
<1> QED
  BY <1>9 DEF r

\* A set of places in the buffer is no larger than the buffer.
LEMMA FrontSetSize ==
  ASSUME NEW n \in Nat, NEW S \in SUBSET (1 .. n)
  PROVE  Cardinality(S) \in 0 .. n
<1>1. IsFiniteSet(1 .. n) /\ Cardinality(1 .. n) = n
  <2>1. 1 \in Int /\ n \in Int
    OBVIOUS
  <2>2. /\ IsFiniteSet(1 .. n)
        /\ Cardinality(1 .. n) = IF 1 > n THEN 0 ELSE n - 1 + 1
    BY <2>1, FS_Interval
  <2> QED
    BY <2>2
<1>2. IsFiniteSet(S) /\ Cardinality(S) <= n
  BY <1>1, FS_Subset
<1>3. Cardinality(S) \in Nat
  BY <1>2, FS_CardinalityType
<1> QED
  BY <1>2, <1>3

\* GetNextPacket and DiscardAllOldPackets take packets off the front.
LEMMA FrontGone ==
  ASSUME NEW X, NEW buffer \in Seq(X), NEW limit
  PROVE  /\ WithoutNext(buffer) \in Remainders(buffer)
         /\ DiscardAllOldPackets(buffer, limit) \in Remainders(buffer)
<1> DEFINE same == {i \in DOMAIN buffer : \A j \in 1 .. i : buffer[j].ts = Head(buffer).ts}
           old == {i \in DOMAIN buffer :
                     \A j \in 1 .. i : IsNewerTimestamp(limit, buffer[j].ts)}
<1>1. Len(buffer) \in Nat /\ DOMAIN buffer = 1 .. Len(buffer)
  OBVIOUS
<1>2. same \in SUBSET (1 .. Len(buffer)) /\ old \in SUBSET (1 .. Len(buffer))
  BY <1>1
<1>3. /\ WithoutNext(buffer) = SubSeq(buffer, Cardinality(same) + 1, Len(buffer))
      /\ DiscardAllOldPackets(buffer, limit)
           = SubSeq(buffer, Cardinality(old) + 1, Len(buffer))
  BY DEF WithoutNext, DiscardAllOldPackets
<1> HIDE DEF same, old
<1>4. /\ Cardinality(same) \in 0 .. Len(buffer)
      /\ Cardinality(old) \in 0 .. Len(buffer)
  BY <1>1, <1>2, FrontSetSize
<1>5. /\ Cardinality(same) + 1 \in 1 .. (Len(buffer) + 1)
      /\ Cardinality(old) + 1 \in 1 .. (Len(buffer) + 1)
  BY <1>1, <1>4
<1> QED
  BY <1>3, <1>5, Zenon DEF Remainders

\* One call of ExtractPackets takes packets off the front.
LEMMA Extracted ==
  ASSUME NEW X, NEW buffer \in Seq(X), buffer # <<>>, NEW n \in 1 .. MaxExtract
  PROVE  AfterExtraction(buffer, n) \in Remainders(buffer)
<1> DEFINE last == LastExtracted(buffer, n)
           rest == SubSeq(buffer, last, Len(buffer))
           next == WithoutNext(rest)
<1>1. /\ Len(buffer) \in Nat /\ DOMAIN buffer = 1 .. Len(buffer)
      /\ Len(buffer) >= 1 /\ n \in Nat
  BY BoundsAssumption
<1>2. last \in 1 .. (Len(buffer) + 1)
  <2> DEFINE before(i) == Max({h \in Heads(buffer) : h < i})
             chain == {i \in Heads(buffer) : \A h \in Heads(buffer) \cap 2 .. i :
                         Continues(buffer[h], Head(buffer), buffer[before(h)].seq)}
             S == {i \in chain : Cardinality(Heads(buffer) \cap 1 .. i) <= n}
  <2>1. LastExtracted(buffer, n) = Max(S)
    BY DEF LastExtracted
  <2>2. S \subseteq 1 .. Len(buffer)
    BY <1>1 DEF Heads
  <2>3. 1 \in Heads(buffer) /\ Heads(buffer) \cap 2 .. 1 = {}
    BY <1>1 DEF Heads
  <2>4. 1 \in chain
    BY <2>3, Zenon
  <2>5. Cardinality(Heads(buffer) \cap 1 .. 1) <= n
    <3>1. Heads(buffer) \cap 1 .. 1 \in SUBSET (1 .. 1)
      OBVIOUS
    <3>2. Cardinality(Heads(buffer) \cap 1 .. 1) \in 0 .. 1
      BY <3>1, FrontSetSize
    <3> QED
      BY <3>2
  <2>6. 1 \in S
    BY <2>4, <2>5, Zenon
  <2> HIDE DEF S
  <2>7. S \in SUBSET (0 .. Len(buffer)) /\ S # {}
    BY <1>1, <2>2, <2>6
  <2>8. Max(S) \in S
    BY <1>1, <2>7, MaxIs
  <2>9. Max(S) \in 1 .. Len(buffer)
    BY <2>2, <2>8, Zenon
  <2> QED
    BY <1>1, <2>1, <2>9
<1>3. AfterExtraction(buffer, n) = DiscardAllOldPackets(next, buffer[last].ts)
  BY DEF AfterExtraction
<1> HIDE DEF last
<1>4. rest \in Remainders(buffer) /\ rest \in Seq(X)
  BY <1>2, SuffixIs DEF Remainders
<1> HIDE DEF rest
<1>5. next \in Remainders(rest)
  BY <1>4, FrontGone
<1> HIDE DEF next
<1>6. next \in Remainders(buffer)
  BY <1>4, <1>5, SuffixTwice
<1>7. next \in Seq(X)
  BY <1>6, SuffixIs DEF Remainders
<1>8. DiscardAllOldPackets(next, buffer[last].ts) \in Remainders(next)
  BY <1>7, FrontGone
<1> QED
  BY <1>3, <1>6, <1>8, SuffixTwice

-----------------------------------------------------------------------------
(* The payloads that arrive.                                               *)
StreamOK ==
  /\ start \in FirstNumbers
  /\ sent \in [1 .. MaxSent -> PayloadTypes \cup UnknownTypes]
  /\ red \in BOOLEAN

\* A datagram of the stream with a decoder for each block brings one or two
\* payloads of it.
LEMMA ArrivedIs ==
  ASSUME StreamOK, NEW i \in 1 .. MaxSent, sent[i] \notin UnknownTypes,
         DecoderOf(i) \in PayloadTypes
  PROVE  \E p, q \in StreamPackets(start) : Arrived(i) \in {<<p>>, <<p, q>>}
<1> USE DEF StreamOK
<1>1. /\ SeqNumberOf(i) \in StreamSeq(start) /\ SeqPlace(SeqNumberOf(i), start) = i - 1
      /\ TimestampOf(i) \in StreamTs(start) /\ TsPlace(TimestampOf(i), start) = i - 1
  BY PacketPlaces
<1>2. sent[i] \in PayloadTypes
  OBVIOUS
<1>3. Payload(i) \in StreamPackets(start)
  BY <1>1, <1>2 DEF Payload, StreamPackets, Packet, StreamSeq, StreamTs
<1>4. CASE ~HasRedundant(i)
  BY <1>3, <1>4 DEF Arrived
<1>5. CASE HasRedundant(i)
  <2>1. i - 1 \in 1 .. MaxSent
    BY <1>5, Constants DEF HasRedundant
  <2>2. /\ TimestampOf(i - 1) \in StreamTs(start)
        /\ TsPlace(TimestampOf(i - 1), start) = (i - 1) - 1
    BY <2>1, PacketPlaces
  <2>3. sent[i - 1] \in PayloadTypes
    BY <1>5 DEF DecoderOf
  <2>4. Redundant(i) \in StreamPackets(start)
    BY <1>1, <2>2, <2>3 DEF Redundant, StreamPackets, Packet, StreamSeq, StreamTs
  <2>5. Arrived(i) \in {<<Payload(i)>>, <<Payload(i), Redundant(i)>>}
    BY <1>5 DEF Arrived, SplitRed
  <2> QED
    BY <1>3, <2>4, <2>5
<1> QED
  BY <1>4, <1>5

-----------------------------------------------------------------------------
(* The invariant of NetEq's side of the receiver: its buffer holds payloads *)
(* of the stream, sorted, of one codec and within capacity, and there is a  *)
(* decoder for the first block of the packet on its way.                    *)
NetEqInv ==
  /\ StreamOK
  /\ inserting \in (1 .. MaxSent) \cup {Nobody}
  /\ inserting # Nobody => DecoderOf(inserting) \in PayloadTypes
  /\ GoodState(neteq, start)

\* What the first packet leaves of the buffer.
LEMMA ReinitializedIs ==
  ASSUME NetEqInv, inserting # Nobody
  PROVE  GoodState(Reinitialized(neteq, inserting), start)
<1> DEFINE r == Reinitialized(neteq, inserting)
<1>1. /\ neteq \in BufferStates(start) /\ RedType \in KnownTypes
      /\ HasRedundant(inserting) \/ sent[inserting] \in KnownTypes
  BY DEF NetEqInv, GoodState, DecoderOf, KnownTypes
<1>2. r \in BufferStates(start) /\ r.buffer = <<>>
  BY <1>1, EmptyOK DEF Reinitialized, BufferStates
<1>3. GoodState(r, start)
  BY <1>2, EmptyOK DEF GoodState, OneCodec
<1> QED
  BY <1>3

\* NetEqImpl::InsertPacketInternal.
LEMMA InsertionIs ==
  ASSUME NetEqInv, inserting # Nobody, sent[inserting] \notin UnknownTypes
  PROVE  /\ GoodState(Insertion, start)
         /\ ~Insertion.flushed /\ ~firstPacket
              => PrimariesKept(neteq.buffer, Insertion.buffer)
<1>1. /\ StreamOK /\ inserting \in 1 .. MaxSent /\ GoodState(neteq, start)
      /\ DecoderOf(inserting) \in PayloadTypes
  BY DEF NetEqInv
<1>2. PICK p, q \in StreamPackets(start) : Arrived(inserting) \in {<<p>>, <<p, q>>}
  BY <1>1, ArrivedIs
<1> DEFINE r == Reinitialized(neteq, inserting)
           b == IF firstPacket THEN r ELSE neteq
<1>3. GoodState(r, start)
  BY ReinitializedIs
<1>4. GoodState(b, start) /\ (~firstPacket => b = neteq)
  BY <1>1, <1>3
<1>5. Insertion = InsertPacketList(b, Arrived(inserting))
  BY DEF Insertion
<1> HIDE DEF b
<1>6. start \in FirstNumbers
  BY <1>1 DEF StreamOK
<1>7. /\ GoodState(InsertPacketList(b, Arrived(inserting)), start)
      /\ ~InsertPacketList(b, Arrived(inserting)).flushed
           => PrimariesKept(b.buffer, InsertPacketList(b, Arrived(inserting)).buffer)
  BY <1>2, <1>4, <1>6, InsertPacketListIs
<1> QED
  BY <1>4, <1>5, <1>7

\* The receiver starts with an empty buffer.
LEMMA NetEqInit ==
  ASSUME Init
  PROVE  NetEqInv
<1>1. StreamOK
  BY Constants DEF Init, Streams, StreamOK
<1>2. neteq \in BufferStates(start) /\ neteq.buffer = <<>>
  BY EmptyOK DEF Init, BufferStates, KnownTypes
<1>3. GoodState(neteq, start)
  BY <1>2, EmptyOK DEF GoodState, OneCodec
<1> QED
  BY <1>1, <1>3 DEF NetEqInv, Init

\* Every step keeps the buffer good.
LEMMA NetEqStep ==
  ASSUME NetEqInv, [Next]_vars
  PROVE  NetEqInv'
<1>1. /\ StreamOK /\ inserting \in (1 .. MaxSent) \cup {Nobody} /\ GoodState(neteq, start)
      /\ inserting # Nobody => DecoderOf(inserting) \in PayloadTypes
  BY DEF NetEqInv
<1>2. neteq.buffer \in Seq(StreamPackets(start))
  BY <1>1 DEF GoodState, BufferOK
<1>3. ASSUME UNCHANGED <<sender, inserting>>, GoodState(neteq', start)
      PROVE  NetEqInv'
  BY <1>1, <1>3 DEF NetEqInv, StreamOK, DecoderOf, HasRedundant, sender
<1>4. ASSUME UNCHANGED <<sender, inserting>>,
             NEW t \in Remainders(neteq.buffer), neteq' = [neteq EXCEPT !.buffer = t]
      PROVE  NetEqInv'
  BY <1>1, <1>3, <1>4, GoodSuffix
<1>5. Discarded(neteq.buffer) \subseteq Remainders(neteq.buffer)
  <2>1. \A k \in 0 .. Len(neteq.buffer) : k + 1 \in 1 .. (Len(neteq.buffer) + 1)
    BY <1>2
  <2> QED
    BY <2>1, Zenon DEF Discarded, Remainders
<1>6. <<>> \in Remainders(neteq.buffer)
  <2>1. Len(neteq.buffer) + 1 \in 1 .. (Len(neteq.buffer) + 1)
    BY <1>2
  <2>2. SubSeq(neteq.buffer, Len(neteq.buffer) + 1, Len(neteq.buffer)) = <<>>
    BY <1>2
  <2> QED
    BY <2>1, <2>2, Zenon DEF Remainders
<1>7. ASSUME NEW i \in CanArrive, AcmInsert(i)
      PROVE  NetEqInv'
  <2>1. /\ StreamOK' /\ inserting' = i /\ i \in 1 .. MaxSent
        /\ neteq' = neteq /\ start' = start
    BY <1>1, <1>7 DEF AcmInsert, CanArrive, StreamOK, sender, net
  <2>2. DecoderOf(i) \in PayloadTypes \cup UnknownTypes
    <3>1. HasRedundant(i) => i - 1 \in 1 .. MaxSent
      BY <2>1, Constants DEF HasRedundant
    <3> QED
      BY <1>1, <2>1, <3>1 DEF DecoderOf, StreamOK
  <2>3. DecoderOf(i) \in PayloadTypes
    BY <1>7, <2>2 DEF AcmInsert, Unreported
  <2>4. (DecoderOf(inserting))' \in PayloadTypes
    BY <1>7, <2>1, <2>3 DEF AcmInsert, DecoderOf, HasRedundant, sender
  <2> QED
    BY <1>1, <2>1, <2>4 DEF NetEqInv
<1>7a. ASSUME NEW i \in CanArrive, AcmDrops(i)
       PROVE  NetEqInv'
  BY <1>1, <1>3, <1>7a DEF AcmDrops, net
<1>8. ASSUME NetEqInsert
      PROVE  NetEqInv'
  <2>1. GoodState(Insertion, start)
    BY <1>8, InsertionIs DEF NetEqInsert
  <2>2. neteq' = [Insertion EXCEPT !.flushed = FALSE]
    BY <1>8 DEF NetEqInsert
  <2> DEFINE b == Insertion
  <2> HIDE DEF b
  <2>3. b \in BufferStates(start) /\ neteq' = [b EXCEPT !.flushed = FALSE]
    BY <2>1, <2>2 DEF b, GoodState
  <2>4. /\ neteq' \in BufferStates(start) /\ neteq'.buffer = b.buffer
        /\ neteq'.rtp = b.rtp /\ neteq'.cng = b.cng
    BY <2>3 DEF BufferStates
  <2>5. GoodState(neteq', start)
    BY <2>1, <2>4 DEF GoodState, OneCodec, b
  <2> QED
    BY <1>1, <1>8, <2>5 DEF NetEqInsert, NetEqInv, StreamOK, sender
<1>8a. ASSUME NetEqRefuses
       PROVE  NetEqInv'
  <2>1. GoodState(Reinitialized(neteq, inserting), start)
    BY <1>8a, ReinitializedIs DEF NetEqRefuses
  <2>2. GoodState(neteq', start)
    BY <1>1, <1>8a, <2>1 DEF NetEqRefuses
  <2> QED
    BY <1>1, <1>8a, <2>2 DEF NetEqRefuses, NetEqInv, StreamOK, sender
<1>9. ASSUME GetAudio
      PROVE  NetEqInv'
  <2>1. PICK buffer \in Discarded(neteq.buffer) :
          PlaysPackets(buffer) \/ PlaysWithoutPackets(buffer)
    BY <1>9 DEF GetAudio
  <2>2. buffer \in Remainders(neteq.buffer)
    BY <1>5, <2>1
  <2>3. UNCHANGED <<sender, inserting>>
    BY <1>9 DEF GetAudio
  <2>4. CASE PlaysPackets(buffer)
    <3>1. PICK n \in 1 .. MaxExtract :
            neteq' = [neteq EXCEPT !.buffer = AfterExtraction(buffer, n)]
      BY <2>4 DEF PlaysPackets
    <3>2. buffer \in Seq(StreamPackets(start)) /\ buffer # <<>>
      <4>1. PICK k \in 1 .. (Len(neteq.buffer) + 1) :
              buffer = SubSeq(neteq.buffer, k, Len(neteq.buffer))
        BY <2>2 DEF Remainders
      <4>2. buffer \in Seq(StreamPackets(start))
        BY <1>2, <4>1, SuffixIs
      <4> QED
        BY <2>4, <4>2 DEF PlaysPackets
    <3>3. AfterExtraction(buffer, n) \in Remainders(buffer)
      BY <3>2, Extracted
    <3>4. AfterExtraction(buffer, n) \in Remainders(neteq.buffer)
      BY <1>2, <2>2, <3>3, SuffixTwice
    <3> QED
      BY <1>4, <2>3, <3>1, <3>4
  <2>5. CASE PlaysWithoutPackets(buffer)
    BY <1>4, <2>2, <2>3, <2>5 DEF PlaysWithoutPackets
  <2> QED
    BY <2>1, <2>4, <2>5
<1>10. ASSUME GetAudioFails
       PROVE  NetEqInv'
  BY <1>4, <1>6, <1>10 DEF GetAudioFails
<1>11. ASSUME NEW size \in ListSizes, EnableNack(size)
       PROVE  NetEqInv'
  BY <1>1, <1>3, <1>11 DEF EnableNack, net
<1>12. ASSUME DisableNack
       PROVE  NetEqInv'
  BY <1>1, <1>3, <1>12 DEF DisableNack, net
<1>13. ASSUME FlushBuffers
       PROVE  NetEqInv'
  BY <1>4, <1>6, <1>13 DEF FlushBuffers
<1>14. CASE UNCHANGED vars
  BY <1>1, <1>3, <1>14 DEF vars, net
<1> QED
  BY <1>7, <1>7a, <1>8, <1>8a, <1>9, <1>10, <1>11, <1>12, <1>13, <1>14 DEF Next

\* NetEq's buffer is always good.
LEMMA NetEqInvariant == Spec => []NetEqInv
<1>1. Init => NetEqInv
  BY NetEqInit
<1>2. NetEqInv /\ [Next]_vars => NetEqInv'
  BY NetEqStep
<1> QED
  BY <1>1, <1>2, PTL DEF Spec

-----------------------------------------------------------------------------
(* No two payloads of one timestamp, none out of order, none too many, for  *)
(* every capacity of the buffer and every order of arrival                  *)
(* (PacketBuffer::InsertPacket).                                            *)
THEOREM BufferStaysOrdered == Spec => []BufferOrdered
<1>1. NetEqInv => BufferOrdered
  <2> SUFFICES ASSUME NetEqInv PROVE BufferOrdered
    OBVIOUS
  <2> DEFINE b == neteq.buffer
  <2>1. /\ start \in FirstNumbers /\ b \in Seq(StreamPackets(start)) /\ Sorted(b, start)
        /\ Len(b) <= MaxPackets
    BY DEF NetEqInv, StreamOK, GoodState, BufferOK
  <2> SUFFICES ASSUME NEW i \in DOMAIN b, NEW j \in DOMAIN b, i < j
               PROVE  IsNewerTimestamp(b[j].ts, b[i].ts)
    BY <2>1 DEF BufferOrdered
  <2> HIDE DEF b
  <2>2. b[i] \in StreamPackets(start) /\ b[j] \in StreamPackets(start)
    BY <2>1
  <2>3. b[i].ts \in StreamTs(start) /\ b[j].ts \in StreamTs(start)
    BY <2>2 DEF StreamPackets
  <2>4. TsPlace(b[i].ts, start) < TsPlace(b[j].ts, start)
    BY <2>1 DEF Sorted
  <2> QED
    BY <2>1, <2>3, <2>4, TsOrder
<1> QED
  BY <1>1, NetEqInvariant, PTL

(* Packets of two codecs are never in the buffer together, however the      *)
(* sender switches between codecs and comfort noise                         *)
(* (PacketBuffer::InsertPacketList).                                        *)
THEOREM BufferKeepsOneCodec == Spec => []BufferOfOneCodec
<1>1. NetEqInv => BufferOfOneCodec
  <2> SUFFICES ASSUME NetEqInv PROVE BufferOfOneCodec
    OBVIOUS
  <2>1. neteq.buffer \in Seq(StreamPackets(start)) /\ OneCodec(neteq)
    BY DEF NetEqInv, GoodState, BufferOK
  <2>2. DOMAIN neteq.buffer = 1 .. Len(neteq.buffer)
    BY <2>1
  <2> QED
    BY <2>1, <2>2 DEF BufferOfOneCodec, OneCodec
<1> QED
  BY <1>1, NetEqInvariant, PTL

(* No insertion that leaves the buffer standing takes a primary payload     *)
(* away (Packet::operator<, PacketBuffer::InsertPacket).                    *)
THEOREM PrimariesStay == Spec => PrimaryStays
<1> DEFINE A == NetEqInsert /\ ~Insertion.flushed /\ ~firstPacket =>
                  \A i \in DOMAIN neteq.buffer : neteq.buffer[i].primary =>
                    \E j \in DOMAIN neteq'.buffer :
                      neteq'.buffer[j].ts = neteq.buffer[i].ts /\ neteq'.buffer[j].primary
<1>1. NetEqInv => A
  <2> SUFFICES ASSUME NetEqInv, NetEqInsert, ~Insertion.flushed, ~firstPacket
               PROVE  \A i \in DOMAIN neteq.buffer : neteq.buffer[i].primary =>
                        \E j \in DOMAIN neteq'.buffer :
                          neteq'.buffer[j].ts = neteq.buffer[i].ts /\ neteq'.buffer[j].primary
    OBVIOUS
  <2> DEFINE b == Insertion
  <2>1. GoodState(b, start) /\ PrimariesKept(neteq.buffer, b.buffer)
    BY InsertionIs DEF NetEqInsert
  <2>2. neteq' = [b EXCEPT !.flushed = FALSE]
    BY DEF NetEqInsert
  <2> HIDE DEF b
  <2>3. b \in BufferStates(start)
    BY <2>1 DEF GoodState
  <2>4. neteq'.buffer = b.buffer /\ DOMAIN neteq'.buffer = 1 .. Len(b.buffer)
    BY <2>2, <2>3 DEF BufferStates
  <2>5. DOMAIN neteq.buffer = 1 .. Len(neteq.buffer)
    BY DEF NetEqInv, GoodState, BufferOK
  <2> QED
    BY <2>1, <2>4, <2>5, Zenon DEF PrimariesKept
<1>2. NetEqInv => [A]_vars
  BY <1>1
<1> HIDE DEF A
<1>3. [][A]_vars => PrimaryStays
  BY DEF A, PrimaryStays
<1> QED
  BY <1>2, <1>3, NetEqInvariant, PTL DEF Spec

-----------------------------------------------------------------------------
(* NACK by places in the stream.                                           *)
\* A list element, a list and a record of NACK.
IsElement(e) ==
  /\ e = [ttp |-> e.ttp, ts |-> e.ts, missing |-> e.missing]
  /\ e.missing \in BOOLEAN

HasShape(k) ==
  k = [list |-> k.list, maxSize |-> k.maxSize,
       lastReceived |-> k.lastReceived, lastReceivedTs |-> k.lastReceivedTs,
       anyReceived |-> k.anyReceived,
       lastDecoded |-> k.lastDecoded, lastDecodedTs |-> k.lastDecodedTs,
       anyDecoded |-> k.anyDecoded, perPacket |-> k.perPacket]

IsNack(k) ==
  /\ HasShape(k)
  /\ k.maxSize \in ListSizes
  /\ k.anyReceived \in BOOLEAN
  /\ k.anyDecoded \in BOOLEAN
  /\ \A n \in Numbers(k) : IsElement(k.list[n])

Listed(k, h, s0) ==
  \A n \in Numbers(k) :
    /\ n \in StreamSeq(s0)
    /\ n \notin h
    /\ SeqPlace(n, s0) < SeqPlace(k.lastReceived, s0)
    /\ SeqPlace(k.lastReceived, s0) - SeqPlace(n, s0) <= k.maxSize
    /\ k.list[n].missing
         <=> SeqPlace(k.lastReceived, s0) - SeqPlace(n, s0) > NackThreshold

Noticed(k, h, f, s0) ==
  \A n \in StreamSeq(s0) \ h :
    /\ SeqPlace(f, s0) < SeqPlace(n, s0)
    /\ SeqPlace(n, s0) < SeqPlace(k.lastReceived, s0)
    /\ SeqPlace(k.lastReceived, s0) - SeqPlace(n, s0) <= Min(ListSizes)
    => n \in Numbers(k)

NackOK(k, h, f, s0) ==
  /\ IsNack(k)
  /\ ~k.anyReceived => Numbers(k) = {} /\ h = {}
  /\ k.anyReceived =>
       /\ k.lastReceived \in StreamSeq(s0)
       /\ k.lastReceived \in h
       /\ h \subseteq StreamSeq(s0)
       /\ \A a \in h : SeqPlace(a, s0) <= SeqPlace(k.lastReceived, s0)
       /\ f \in h
       /\ Listed(k, h, s0)
       /\ ~k.anyDecoded => Noticed(k, h, f, s0)

NackInv == nackOn => NackOK(nack, heard, first, start)

\* Subtraction of sequence numbers that need no reduction.
LEMMA SeqMinusIs ==
  ASSUME NEW a, NEW b \in SeqNums
  PROVE  SeqMinus(a, b) = Distance(a, b, SeqHalf)
<1>1. ASSUME NEW m \in Nat
      PROVE  \A y \in 0 .. (m - 1) : y % m = y
  BY Z3
<1>2. 2 * SeqHalf \in Nat /\ b \in 0 .. (2 * SeqHalf - 1)
  BY HalfAssumption DEF SeqNums
<1>3. b % (2 * SeqHalf) = b
  BY <1>1, <1>2, Zenon
<1> QED
  BY <1>3 DEF SeqMinus

\* Numbers more than t places before the current one, by the comparison of
\* ChangeFromLateToMissing and AddToList and by that of LimitNackListSize.
LEMMA BoundsByPlace ==
  ASSUME NEW s0 \in FirstNumbers, NEW c \in StreamSeq(s0), NEW n \in StreamSeq(s0),
         SeqPlace(n, s0) < SeqPlace(c, s0), NEW t \in 0 .. (SeqHalf - 1)
  PROVE  /\ IsNewerSequenceNumber(SeqMinus(c, t), n)
              <=> SeqPlace(c, s0) - SeqPlace(n, s0) > t
         /\ IsNewerSequenceNumber(n, SeqMinus(c, t + 1))
              <=> SeqPlace(c, s0) - SeqPlace(n, s0) <= t
<1>1. t \in SeqNums /\ t + 1 \in SeqNums
  BY Constants DEF SeqNums
<1>2. /\ SeqMinus(c, t) = Distance(c, t, SeqHalf)
      /\ SeqMinus(c, t + 1) = Distance(c, t + 1, SeqHalf)
  BY <1>1, SeqMinusIs
<1>3. IsNewerSequenceNumber(Distance(c, t, SeqHalf), n)
        <=> SeqPlace(c, s0) - SeqPlace(n, s0) > t
  BY Constants
  DEF FirstNumbers, StreamSeq, SeqNums, SeqPlace, Distance, IsNewerSequenceNumber, IsNewer
<1>4. IsNewerSequenceNumber(n, Distance(c, t + 1, SeqHalf))
        <=> SeqPlace(c, s0) - SeqPlace(n, s0) <= t
  BY Constants
  DEF FirstNumbers, StreamSeq, SeqNums, SeqPlace, Distance, IsNewerSequenceNumber, IsNewer
<1> QED
  BY <1>2, <1>3, <1>4

\* A number newer than one of the stream and older than another is between
\* them.
LEMMA BetweenByPlace ==
  ASSUME NEW s0 \in FirstNumbers, NEW a \in StreamSeq(s0), NEW b \in StreamSeq(s0),
         SeqPlace(a, s0) <= SeqPlace(b, s0), NEW n \in SeqNums
  PROVE  IsNewerSequenceNumber(n, a) /\ IsNewerSequenceNumber(b, n)
           <=> /\ n \in StreamSeq(s0)
               /\ SeqPlace(a, s0) < SeqPlace(n, s0)
               /\ SeqPlace(n, s0) < SeqPlace(b, s0)
BY Constants
DEF FirstNumbers, StreamSeq, SeqNums, SeqPlace, Distance, IsNewerSequenceNumber, IsNewer

\* What a change of the list leaves alone.
SameReport(k, r) ==
  /\ r.maxSize = k.maxSize /\ r.lastReceived = k.lastReceived
  /\ r.anyReceived = k.anyReceived /\ r.anyDecoded = k.anyDecoded

\* The record with another list.
LEMMA WithList ==
  ASSUME NEW k, IsNack(k), NEW l, \A n \in DOMAIN l : IsElement(l[n]),
         NEW r, r = [k EXCEPT !.list = l]
  PROVE  IsNack(r) /\ r.list = l /\ SameReport(k, r)
<1>1. HasShape(k)
  BY DEF IsNack
<1>2. r = [list |-> l, maxSize |-> k.maxSize,
           lastReceived |-> k.lastReceived, lastReceivedTs |-> k.lastReceivedTs,
           anyReceived |-> k.anyReceived,
           lastDecoded |-> k.lastDecoded, lastDecodedTs |-> k.lastDecodedTs,
           anyDecoded |-> k.anyDecoded, perPacket |-> k.perPacket]
  BY <1>1 DEF HasShape
<1>3. HasShape(r) /\ r.list = l /\ SameReport(k, r)
  BY <1>2 DEF HasShape, SameReport
<1>4. k.maxSize \in ListSizes /\ k.anyReceived \in BOOLEAN /\ k.anyDecoded \in BOOLEAN
  BY DEF IsNack
<1> QED
  BY <1>3, <1>4 DEF IsNack, Numbers, SameReport

\* The list after some of its numbers were taken off.
LEMMA KeptIs ==
  ASSUME NEW k, IsNack(k), NEW K \in SUBSET Numbers(k)
  PROVE  /\ IsNack(Kept(k, K)) /\ Numbers(Kept(k, K)) = K /\ SameReport(k, Kept(k, K))
         /\ \A n \in K : Kept(k, K).list[n] = k.list[n]
<1> DEFINE r == Kept(k, K)
           l == [n \in K |-> k.list[n]]
<1>1. r = [k EXCEPT !.list = l]
  BY DEF Kept
<1>2. DOMAIN l = K /\ \A n \in K : l[n] = k.list[n]
  OBVIOUS
<1> HIDE DEF l, r
<1>3. \A n \in DOMAIN l : IsElement(l[n])
  <2>1. \A n \in Numbers(k) : IsElement(k.list[n])
    BY DEF IsNack
  <2> QED
    BY <1>2, <2>1, Zenon
<1>4. IsNack(r) /\ r.list = l /\ SameReport(k, r)
  BY <1>1, <1>3, WithList
<1> QED
  BY <1>2, <1>4 DEF r, Numbers

\* A comparison is true or false.
LEMMA NewerIsBoolean ==
  ASSUME NEW a \in Int, NEW b \in Int
  PROVE  IsNewerSequenceNumber(a, b) \in BOOLEAN
<1>1. (a > b) \in BOOLEAN
  OBVIOUS
<1>2. (a # b /\ Distance(a, b, SeqHalf) < SeqHalf) \in BOOLEAN
  BY Zenon
<1> QED
  BY <1>1, <1>2, Zenon DEF IsNewerSequenceNumber, IsNewer

\* An element whose missing flag is written.
LEMMA ElementMissing ==
  ASSUME NEW e, IsElement(e), NEW v \in BOOLEAN
  PROVE  IsElement([e EXCEPT !.missing = v]) /\ [e EXCEPT !.missing = v].missing = v
<1>1. e = [ttp |-> e.ttp, ts |-> e.ts, missing |-> e.missing]
  BY DEF IsElement
<1>2. [e EXCEPT !.missing = v] = [ttp |-> e.ttp, ts |-> e.ts, missing |-> v]
  BY <1>1
<1> QED
  BY <1>2 DEF IsElement

\* An element whose time to play is written.
LEMMA ElementTime ==
  ASSUME NEW e, IsElement(e), NEW w
  PROVE  IsElement([e EXCEPT !.ttp = w]) /\ [e EXCEPT !.ttp = w].missing = e.missing
<1>1. e = [ttp |-> e.ttp, ts |-> e.ts, missing |-> e.missing] /\ e.missing \in BOOLEAN
  BY DEF IsElement
<1>2. [e EXCEPT !.ttp = w] = [ttp |-> w, ts |-> e.ts, missing |-> e.missing]
  BY <1>1
<1> QED
  BY <1>1, <1>2 DEF IsElement

\* Nack::UpdateList: the skipped numbers join the list, and of old and new
\* ones those older than the threshold are missing.
LEMMA UpdateListIs ==
  ASSUME NEW k, IsNack(k), Numbers(k) \subseteq SeqNums, NEW c,
         NEW r, r = UpdateList(k, c), NEW bound \in Int, bound = SeqMinus(c, NackThreshold)
  PROVE  /\ IsNack(r) /\ SameReport(k, r) /\ Numbers(r) = Numbers(k) \cup Skipped(k, c)
         /\ \A n \in Numbers(k) :
              r.list[n].missing = (k.list[n].missing \/ IsNewerSequenceNumber(bound, n))
         /\ \A n \in Skipped(k, c) \ Numbers(k) :
              r.list[n].missing = IsNewerSequenceNumber(bound, n)
<1> DEFINE late == ChangeFromLateToMissing(k, c)
           l == [n \in Numbers(k) |->
                   [k.list[n] EXCEPT !.missing = @ \/ IsNewerSequenceNumber(bound, n)]]
           Element(n) == [ttp |-> TimeToPlay(late, EstimateTimestamp(late, n)),
                          ts |-> EstimateTimestamp(late, n),
                          missing |-> IsNewerSequenceNumber(bound, n)]
           D == Numbers(late) \cup Skipped(late, c)
           m == [n \in D |-> IF n \in Numbers(late) THEN late.list[n] ELSE Element(n)]
<1>1. late = [k EXCEPT !.list = l] /\ r = [late EXCEPT !.list = m]
  BY DEF ChangeFromLateToMissing, UpdateList, AddToList
<1>2. \A n \in Numbers(k) : IsElement(k.list[n]) /\ k.list[n].missing \in BOOLEAN
  BY DEF IsNack, IsElement
<1>3. /\ DOMAIN l = Numbers(k)
      /\ \A n \in Numbers(k) :
           l[n] = [k.list[n] EXCEPT !.missing
                     = k.list[n].missing \/ IsNewerSequenceNumber(bound, n)]
  OBVIOUS
<1> HIDE DEF late, l
<1>4. \A n \in Numbers(k) :
        /\ IsElement(l[n])
        /\ l[n].missing = (k.list[n].missing \/ IsNewerSequenceNumber(bound, n))
  <2> SUFFICES ASSUME NEW n \in Numbers(k)
               PROVE  /\ IsElement(l[n])
                      /\ l[n].missing = (k.list[n].missing \/ IsNewerSequenceNumber(bound, n))
    OBVIOUS
  <2> DEFINE v == k.list[n].missing \/ IsNewerSequenceNumber(bound, n)
  <2>1. n \in Int /\ IsElement(k.list[n]) /\ k.list[n].missing \in BOOLEAN
    BY <1>2, HalfAssumption DEF SeqNums
  <2>1a. v \in BOOLEAN
    BY <2>1, NewerIsBoolean
  <2>2. l[n] = [k.list[n] EXCEPT !.missing = v]
    BY <1>3, Zenon
  <2> HIDE DEF v
  <2>3. IsElement(l[n]) /\ l[n].missing = v
    BY <2>1, <2>1a, <2>2, ElementMissing
  <2> QED
    BY <2>3 DEF v
<1>5. IsNack(late) /\ late.list = l /\ SameReport(k, late)
  BY <1>1, <1>3, <1>4, WithList
<1>6. Numbers(late) = Numbers(k) /\ Skipped(late, c) = Skipped(k, c)
  BY <1>3, <1>5 DEF Numbers, Skipped, SameReport
<1>7. \A n \in SeqNums : /\ IsElement(Element(n))
                          /\ Element(n).missing = IsNewerSequenceNumber(bound, n)
  <2>1. \A n \in SeqNums : IsNewerSequenceNumber(bound, n) \in BOOLEAN
    BY HalfAssumption, NewerIsBoolean DEF SeqNums
  <2> QED
    BY <2>1 DEF IsElement
<1>7a. D \subseteq SeqNums
  BY <1>6 DEF Skipped
<1>8. /\ DOMAIN m = D
      /\ \A n \in D : m[n] = IF n \in Numbers(late) THEN late.list[n] ELSE Element(n)
  OBVIOUS
<1> HIDE DEF m, Element
<1>9. \A n \in DOMAIN m : IsElement(m[n])
  BY <1>4, <1>5, <1>6, <1>7, <1>7a, <1>8, Zenon
<1>10. IsNack(r) /\ r.list = m /\ SameReport(late, r)
  BY <1>1, <1>5, <1>9, WithList
<1>11. Numbers(r) = Numbers(k) \cup Skipped(k, c)
  BY <1>6, <1>8, <1>10 DEF Numbers
<1>12. SameReport(k, r)
  BY <1>5, <1>10 DEF SameReport
<1>13. \A n \in Numbers(k) : r.list[n] = l[n]
  BY <1>5, <1>6, <1>8, <1>10, Zenon
<1>14. \A n \in Skipped(k, c) \ Numbers(k) : r.list[n] = Element(n)
  BY <1>6, <1>8, <1>10, Zenon
<1> QED
  BY <1>4, <1>6, <1>7, <1>7a, <1>10, <1>11, <1>12, <1>13, <1>14

\* Places of numbers of the stream.
LEMMA PlacesAreNumbers ==
  ASSUME NEW s0 \in FirstNumbers
  PROVE  /\ \A n \in StreamSeq(s0) : SeqPlace(n, s0) \in Nat
         /\ \A a, b \in StreamSeq(s0) : SeqPlace(a, s0) = SeqPlace(b, s0) => a = b
BY SeqOrder

\* The smallest list size in use.
LEMMA SmallestSize ==
  ASSUME NEW size \in ListSizes
  PROVE  /\ size \in 1 .. (SeqHalf - 1)
         /\ Min(ListSizes) \in Nat /\ Min(ListSizes) <= size
<1>1. ListSizes \in SUBSET Nat /\ ListSizes # {}
  BY ListSizesAssumption, HalfAssumption
<1> QED
  BY <1>1, MinIs, ListSizesAssumption

\* Nack::LimitNackListSize keeps what is within the maximal size.
LEMMA LimitIs ==
  ASSUME NEW s0 \in FirstNumbers, NEW k, IsNack(k), k.lastReceived \in StreamSeq(s0),
         \A n \in Numbers(k) :
           n \in StreamSeq(s0) /\ SeqPlace(n, s0) < SeqPlace(k.lastReceived, s0)
  PROVE  LimitNackListSize(k)
           = Kept(k, {n \in Numbers(k) :
                        SeqPlace(k.lastReceived, s0) - SeqPlace(n, s0) <= k.maxSize})
<1>1. k.maxSize \in 0 .. (SeqHalf - 1)
  BY SmallestSize DEF IsNack
<1>2. \A n \in Numbers(k) :
        IsNewerSequenceNumber(n, SeqMinus(k.lastReceived, k.maxSize + 1))
          <=> SeqPlace(k.lastReceived, s0) - SeqPlace(n, s0) <= k.maxSize
  BY <1>1, BoundsByPlace
<1>3. {n \in Numbers(k) : IsNewerSequenceNumber(n, SeqMinus(k.lastReceived, k.maxSize + 1))}
        = {n \in Numbers(k) : SeqPlace(k.lastReceived, s0) - SeqPlace(n, s0) <= k.maxSize}
  BY <1>2
<1> QED
  BY <1>3, Zenon DEF LimitNackListSize

\* A NACK that knows of no packet is in order.
LEMMA NewNackOK ==
  ASSUME NEW s0, NEW f, NEW size \in ListSizes
  PROVE  IsNack(NewNack(size)) /\ NackOK(NewNack(size), {}, f, s0)
<1>1. DOMAIN EmptyList = {}
  BY DEF EmptyList
<1> HIDE DEF EmptyList
<1>2. /\ HasShape(NewNack(size)) /\ NewNack(size).list = EmptyList
      /\ NewNack(size).maxSize = size /\ NewNack(size).anyReceived = FALSE
      /\ NewNack(size).anyDecoded = FALSE
  BY DEF NewNack, HasShape
<1>3. Numbers(NewNack(size)) = {}
  BY <1>1, <1>2 DEF Numbers
<1>4. IsNack(NewNack(size))
  BY <1>2, <1>3 DEF IsNack
<1> QED
  BY <1>2, <1>3, <1>4 DEF NackOK

\* The first packet reported.
LEMMA FirstIs ==
  ASSUME NEW s0 \in FirstNumbers, NEW k, NEW h, NEW f, NackOK(k, h, f, s0),
         ~k.anyReceived, NEW seq \in StreamSeq(s0), NEW ts
  PROVE  NackOK(FirstReceived(k, seq, ts), {seq}, seq, s0)
<1> DEFINE r == FirstReceived(k, seq, ts)
<1>1. /\ HasShape(k) /\ k.maxSize \in ListSizes /\ k.anyDecoded \in BOOLEAN
      /\ Numbers(k) = {}
  BY DEF NackOK, IsNack
<1>2. /\ HasShape(r) /\ r.list = k.list /\ r.maxSize = k.maxSize
      /\ r.lastReceived = seq /\ r.anyReceived = TRUE /\ r.anyDecoded = k.anyDecoded
  <2>1. CASE k.anyDecoded
    <3>1. r = [k EXCEPT !.lastReceived = seq, !.lastReceivedTs = ts, !.anyReceived = TRUE]
      BY <2>1 DEF FirstReceived
    <3>2. r = [list |-> k.list, maxSize |-> k.maxSize,
               lastReceived |-> seq, lastReceivedTs |-> ts, anyReceived |-> TRUE,
               lastDecoded |-> k.lastDecoded, lastDecodedTs |-> k.lastDecodedTs,
               anyDecoded |-> k.anyDecoded, perPacket |-> k.perPacket]
      BY <1>1, <3>1 DEF HasShape
    <3> QED
      BY <3>2 DEF HasShape
  <2>2. CASE ~k.anyDecoded
    <3>1. r = [[k EXCEPT !.lastReceived = seq, !.lastReceivedTs = ts, !.anyReceived = TRUE]
                 EXCEPT !.lastDecoded = seq, !.lastDecodedTs = ts]
      BY <2>2 DEF FirstReceived
    <3>2. r = [list |-> k.list, maxSize |-> k.maxSize,
               lastReceived |-> seq, lastReceivedTs |-> ts, anyReceived |-> TRUE,
               lastDecoded |-> seq, lastDecodedTs |-> ts,
               anyDecoded |-> k.anyDecoded, perPacket |-> k.perPacket]
      BY <1>1, <3>1 DEF HasShape
    <3> QED
      BY <3>2 DEF HasShape
  <2> QED
    BY <2>1, <2>2
<1> HIDE DEF r
<1>3. Numbers(r) = {}
  BY <1>1, <1>2 DEF Numbers
<1>4. IsNack(r)
  BY <1>1, <1>2, <1>3 DEF IsNack
<1>5. SeqPlace(seq, s0) \in Nat /\ \A n \in StreamSeq(s0) : SeqPlace(n, s0) \in Nat
  BY PlacesAreNumbers
<1>6. Listed(r, {seq}, s0) /\ Noticed(r, {seq}, seq, s0)
  BY <1>2, <1>3, <1>5 DEF Listed, Noticed
<1>7. NackOK(r, {seq}, seq, s0)
  BY <1>2, <1>4, <1>5, <1>6 DEF NackOK
<1> QED
  BY <1>7 DEF r

\* A packet older than the last one leaves the list.
LEMMA OlderIs ==
  ASSUME NEW s0 \in FirstNumbers, NEW k, NEW h, NEW f, NackOK(k, h, f, s0),
         k.anyReceived, NEW seq \in StreamSeq(s0),
         SeqPlace(seq, s0) <= SeqPlace(k.lastReceived, s0),
         NEW r, r = Kept(k, Numbers(k) \ {seq})
  PROVE  NackOK(r, h \cup {seq}, f, s0)
<1>1. /\ IsNack(k) /\ k.lastReceived \in StreamSeq(s0) /\ k.lastReceived \in h
      /\ h \subseteq StreamSeq(s0)
      /\ \A a \in h : SeqPlace(a, s0) <= SeqPlace(k.lastReceived, s0)
      /\ f \in h /\ Listed(k, h, s0) /\ (~k.anyDecoded => Noticed(k, h, f, s0))
  BY DEF NackOK
<1>2. /\ IsNack(r) /\ Numbers(r) = Numbers(k) \ {seq} /\ SameReport(k, r)
      /\ \A n \in Numbers(k) \ {seq} : r.list[n] = k.list[n]
  BY <1>1, KeptIs
<1>3. Listed(r, h \cup {seq}, s0)
  BY <1>1, <1>2 DEF Listed, SameReport
<1>4. ~r.anyDecoded => Noticed(r, h \cup {seq}, f, s0)
  BY <1>1, <1>2 DEF Noticed, SameReport
<1> QED
  BY <1>1, <1>2, <1>3, <1>4 DEF NackOK, SameReport

\* The newest packet so far: the numbers it skips join the list, and the list
\* is cut to its maximal size.
LEMMA NewestIs ==
  ASSUME NEW s0 \in FirstNumbers, NEW k, NEW h, NEW f, NackOK(k, h, f, s0),
         k.anyReceived, NEW seq \in StreamSeq(s0),
         SeqPlace(k.lastReceived, s0) < SeqPlace(seq, s0), NEW ts
  PROVE  NackOK(NewestReceived(k, seq, ts), h \cup {seq}, f, s0)
<1> DEFINE P(n) == SeqPlace(n, s0)
           last == k.lastReceived
           u == UpdateSamplesPerPacket(k, seq, ts)
           v == UpdateList(u, seq)
           w == [v EXCEPT !.lastReceived = seq, !.lastReceivedTs = ts]
           r == NewestReceived(k, seq, ts)
           bound == SeqMinus(seq, NackThreshold)
<1>1. /\ IsNack(k) /\ last \in StreamSeq(s0) /\ last \in h
      /\ h \subseteq StreamSeq(s0)
      /\ \A a \in h : P(a) <= P(last)
      /\ f \in h /\ Listed(k, h, s0) /\ (~k.anyDecoded => Noticed(k, h, f, s0))
  BY DEF NackOK
<1>2. /\ \A n \in StreamSeq(s0) : P(n) \in Nat
      /\ \A a, b \in StreamSeq(s0) : P(a) = P(b) => a = b
  BY PlacesAreNumbers
<1>3. P(last) \in Nat /\ P(seq) \in Nat /\ P(last) < P(seq)
  BY <1>1, <1>2
<1>4. r = LimitNackListSize(w)
  BY DEF NewestReceived
<1>5. IsNack(u) /\ u.list = k.list /\ SameReport(k, u)
  <2>1. HasShape(k)
    BY <1>1 DEF IsNack
  <2> DEFINE x == TsMinus(ts, k.lastReceivedTs) \div SeqMinus(seq, k.lastReceived)
  <2>2. u = [k EXCEPT !.perPacket = x]
    BY DEF UpdateSamplesPerPacket
  <2> HIDE DEF x, u
  <2>3. u = [list |-> k.list, maxSize |-> k.maxSize,
             lastReceived |-> k.lastReceived, lastReceivedTs |-> k.lastReceivedTs,
             anyReceived |-> k.anyReceived,
             lastDecoded |-> k.lastDecoded, lastDecodedTs |-> k.lastDecodedTs,
             anyDecoded |-> k.anyDecoded, perPacket |-> x]
    BY <2>1, <2>2 DEF HasShape
  <2>4. HasShape(u) /\ u.list = k.list /\ SameReport(k, u)
    BY <2>3 DEF HasShape, SameReport
  <2> QED
    BY <1>1, <2>4 DEF IsNack, SameReport, Numbers
<1> HIDE DEF u
<1>6. Numbers(u) = Numbers(k) /\ Numbers(k) \subseteq StreamSeq(s0)
  BY <1>1, <1>5 DEF Numbers, Listed
<1>7. \A n : n \in Skipped(u, seq) <=> n \in StreamSeq(s0) /\ P(last) < P(n) /\ P(n) < P(seq)
  <2>1. Skipped(u, seq) = {n \in SeqNums : /\ IsNewerSequenceNumber(n, last)
                                           /\ IsNewerSequenceNumber(seq, n)}
    BY <1>5 DEF Skipped, SameReport
  <2>2. P(last) <= P(seq)
    BY <1>3
  <2>3. \A n \in SeqNums :
          IsNewerSequenceNumber(n, last) /\ IsNewerSequenceNumber(seq, n)
            <=> n \in StreamSeq(s0) /\ P(last) < P(n) /\ P(n) < P(seq)
    BY <1>1, <2>2, BetweenByPlace
  <2>4. StreamSeq(s0) \subseteq SeqNums
    BY DEF StreamSeq
  <2> QED
    BY <2>1, <2>3, <2>4, Zenon
<1>8. /\ bound \in Int
      /\ \A n \in StreamSeq(s0) : P(n) < P(seq) =>
           (IsNewerSequenceNumber(bound, n) <=> P(seq) - P(n) > NackThreshold)
  <2>1. NackThreshold \in 0 .. (SeqHalf - 1)
    BY NackThresholdAssumption
  <2>2. bound \in Int
    BY <2>1, Constants, SeqMinusIs DEF SeqNums, StreamSeq, Distance
  <2>3. \A n \in StreamSeq(s0) : P(n) < P(seq) =>
          (IsNewerSequenceNumber(bound, n) <=> P(seq) - P(n) > NackThreshold)
    BY <2>1, BoundsByPlace
  <2> QED
    BY <2>2, <2>3, Zenon
<1> HIDE DEF bound
<1>9. /\ IsNack(v) /\ SameReport(u, v) /\ Numbers(v) = Numbers(k) \cup Skipped(u, seq)
      /\ \A n \in Numbers(k) :
           v.list[n].missing = (k.list[n].missing \/ IsNewerSequenceNumber(bound, n))
      /\ \A n \in Skipped(u, seq) \ Numbers(k) :
           v.list[n].missing = IsNewerSequenceNumber(bound, n)
  <2>1. Numbers(u) \subseteq SeqNums
    BY <1>6 DEF StreamSeq
  <2>2. bound = SeqMinus(seq, NackThreshold)
    BY DEF bound
  <2> HIDE DEF v
  <2>3. v = UpdateList(u, seq)
    BY DEF v
  <2> QED
    BY <1>5, <1>6, <1>8, <2>1, <2>2, <2>3, UpdateListIs
<1> HIDE DEF v
<1>10. /\ IsNack(w) /\ w.list = v.list /\ w.maxSize = k.maxSize /\ w.lastReceived = seq
       /\ w.anyReceived = TRUE /\ w.anyDecoded = k.anyDecoded
  <2>1. HasShape(v) /\ w = [v EXCEPT !.lastReceived = seq, !.lastReceivedTs = ts]
    BY <1>9 DEF IsNack
  <2> HIDE DEF w
  <2>2. w = [list |-> v.list, maxSize |-> v.maxSize,
             lastReceived |-> seq, lastReceivedTs |-> ts,
             anyReceived |-> v.anyReceived,
             lastDecoded |-> v.lastDecoded, lastDecodedTs |-> v.lastDecodedTs,
             anyDecoded |-> v.anyDecoded, perPacket |-> v.perPacket]
    BY <2>1 DEF HasShape
  <2>3. /\ HasShape(w) /\ w.list = v.list /\ w.maxSize = v.maxSize /\ w.lastReceived = seq
        /\ w.anyReceived = v.anyReceived /\ w.anyDecoded = v.anyDecoded
    BY <2>2 DEF HasShape
  <2>4. v.maxSize = k.maxSize /\ v.anyReceived = k.anyReceived /\ v.anyDecoded = k.anyDecoded
    BY <1>5, <1>9 DEF SameReport
  <2>5. k.anyReceived = TRUE
    BY <1>1 DEF IsNack
  <2>6. IsNack(w)
    BY <1>9, <2>3 DEF IsNack, Numbers
  <2> QED
    BY <2>3, <2>4, <2>5, <2>6
<1> HIDE DEF w
<1>11. Numbers(w) = Numbers(k) \cup Skipped(u, seq)
  BY <1>9, <1>10 DEF Numbers
<1>12. \A n \in Numbers(k) :
         /\ n \in StreamSeq(s0) /\ n \notin h /\ P(n) < P(last)
         /\ k.list[n].missing <=> P(last) - P(n) > NackThreshold
  BY <1>1 DEF Listed
<1>13. \A n \in Numbers(w) : n \in StreamSeq(s0) /\ P(n) < P(seq)
  BY <1>2, <1>3, <1>7, <1>11, <1>12
<1> DEFINE K == {n \in Numbers(w) : P(seq) - P(n) <= k.maxSize}
<1>14. r = Kept(w, K)
  BY <1>4, <1>10, <1>13, LimitIs
<1> HIDE DEF r
<1>15. K \subseteq Numbers(w)
  OBVIOUS
<1>16. \A n : n \in K <=> n \in Numbers(w) /\ P(seq) - P(n) <= k.maxSize
  OBVIOUS
<1> HIDE DEF K
<1>17. /\ IsNack(r) /\ Numbers(r) = K /\ SameReport(w, r)
       /\ \A n \in K : r.list[n] = v.list[n]
  BY <1>10, <1>14, <1>15, KeptIs
<1>18. ASSUME NEW n \in K
       PROVE  /\ n \in StreamSeq(s0) /\ n \notin h \cup {seq} /\ P(n) < P(seq)
              /\ P(seq) - P(n) <= k.maxSize
              /\ r.list[n].missing <=> P(seq) - P(n) > NackThreshold
  <2>1. n \in Numbers(w) /\ P(seq) - P(n) <= k.maxSize
    BY <1>16
  <2>2. n \in StreamSeq(s0) /\ P(n) < P(seq) /\ P(n) \in Nat
    BY <1>2, <1>13, <2>1
  <2>3. n # seq
    BY <1>3, <2>2
  <2>4. IsNewerSequenceNumber(bound, n) <=> P(seq) - P(n) > NackThreshold
    BY <1>8, <2>2
  <2>5. CASE n \in Numbers(k)
    <3>1. n \notin h /\ P(n) < P(last) /\ (k.list[n].missing <=> P(last) - P(n) > NackThreshold)
      BY <1>12, <2>5
    <3>2. P(last) - P(n) > NackThreshold => P(seq) - P(n) > NackThreshold
      BY <1>3, <2>2, NackThresholdAssumption, HalfAssumption
    <3>3. r.list[n].missing = (k.list[n].missing \/ IsNewerSequenceNumber(bound, n))
      BY <1>9, <1>17, <2>5
    <3> QED
      BY <2>1, <2>2, <2>3, <2>4, <3>1, <3>2, <3>3
  <2>6. CASE n \notin Numbers(k)
    <3>1. n \in Skipped(u, seq)
      BY <1>11, <2>1, <2>6
    <3>2. P(last) < P(n)
      BY <1>7, <3>1
    <3>3. n \notin h
      BY <1>1, <1>3, <2>2, <3>2
    <3>4. r.list[n].missing = IsNewerSequenceNumber(bound, n)
      BY <1>9, <1>17, <2>6, <3>1
    <3> QED
      BY <2>1, <2>2, <2>3, <2>4, <3>3, <3>4
  <2> QED
    BY <2>5, <2>6
<1>19. /\ r.lastReceived = seq /\ r.maxSize = k.maxSize /\ r.anyReceived = TRUE
       /\ r.anyDecoded = k.anyDecoded
  BY <1>10, <1>17 DEF SameReport
<1>20. Listed(r, h \cup {seq}, s0)
  BY <1>17, <1>18, <1>19 DEF Listed
<1>21. ~r.anyDecoded => Noticed(r, h \cup {seq}, f, s0)
  <2> SUFFICES ASSUME ~k.anyDecoded, NEW n \in StreamSeq(s0) \ (h \cup {seq}),
                      P(f) < P(n), P(n) < P(seq), P(seq) - P(n) <= Min(ListSizes)
               PROVE  n \in K
    BY <1>17, <1>19 DEF Noticed
  <2>1. P(n) \in Nat /\ Min(ListSizes) \in Nat /\ k.maxSize \in Nat
        /\ Min(ListSizes) <= k.maxSize
    BY <1>1, <1>2, SmallestSize, HalfAssumption DEF IsNack
  <2>2. P(seq) - P(n) <= k.maxSize
    BY <1>3, <2>1
  <2>3. CASE P(n) < P(last)
    <3>1. P(last) - P(n) <= Min(ListSizes)
      BY <1>3, <2>1
    <3>2. n \in Numbers(k)
      BY <1>1, <2>3, <3>1 DEF Noticed
    <3> QED
      BY <1>11, <1>16, <2>2, <3>2
  <2>4. CASE P(n) = P(last)
    BY <1>1, <1>2, <2>4
  <2>5. CASE P(n) > P(last)
    <3>1. n \in Skipped(u, seq)
      BY <1>3, <1>7, <2>1, <2>5
    <3> QED
      BY <1>11, <1>16, <2>2, <3>1
  <2> QED
    BY <1>3, <2>1, <2>3, <2>4, <2>5
<1>22. \A a \in h \cup {seq} : a \in StreamSeq(s0) /\ P(a) <= P(seq)
  BY <1>1, <1>2, <1>3
<1>23. NackOK(r, h \cup {seq}, f, s0)
  BY <1>1, <1>17, <1>19, <1>20, <1>21, <1>22 DEF NackOK
<1> QED
  BY <1>23 DEF r

\* Nack::UpdateLastReceivedPacket.
LEMMA ReceivedIs ==
  ASSUME NEW s0 \in FirstNumbers, NEW k, NEW h, NEW f, NackOK(k, h, f, s0),
         NEW seq \in StreamSeq(s0), NEW ts
  PROVE  NackOK(UpdateLastReceivedPacket(k, seq, ts), {seq} \cup h,
                IF k.anyReceived THEN f ELSE seq, s0)
<1> DEFINE last == k.lastReceived
           erased == Kept(k, Numbers(k) \ {seq})
<1>1. CASE ~k.anyReceived
  <2>1. UpdateLastReceivedPacket(k, seq, ts) = FirstReceived(k, seq, ts)
    BY <1>1 DEF UpdateLastReceivedPacket
  <2>2. {seq} \cup h = {seq}
    BY <1>1 DEF NackOK
  <2>3. NackOK(FirstReceived(k, seq, ts), {seq}, seq, s0)
    BY <1>1, FirstIs
  <2> QED
    BY <1>1, <2>1, <2>2, <2>3
<1>2. CASE k.anyReceived
  <2>1. /\ last \in StreamSeq(s0) /\ last \in h /\ IsNack(k) /\ Listed(k, h, s0)
    BY <1>2 DEF NackOK
  <2>2. /\ SeqPlace(last, s0) \in Nat /\ SeqPlace(seq, s0) \in Nat
        /\ IsNewerSequenceNumber(last, seq) <=> SeqPlace(last, s0) > SeqPlace(seq, s0)
        /\ SeqPlace(last, s0) = SeqPlace(seq, s0) => last = seq
    BY <2>1, SeqOrder
  <2>3. {seq} \cup h = h \cup {seq}
    OBVIOUS
  <2>4. CASE seq = last
    <3>1. UpdateLastReceivedPacket(k, seq, ts) = k /\ h \cup {seq} = h
      BY <1>2, <2>1, <2>4 DEF UpdateLastReceivedPacket
    <3> QED
      BY <1>2, <2>3, <3>1
  <2>5. CASE seq # last /\ IsNewerSequenceNumber(last, seq)
    <3>1. UpdateLastReceivedPacket(k, seq, ts) = erased
      BY <1>2, <2>5 DEF UpdateLastReceivedPacket
    <3>2. SeqPlace(seq, s0) <= SeqPlace(last, s0)
      BY <2>2, <2>5
    <3>3. NackOK(erased, h \cup {seq}, f, s0)
      BY <1>2, <3>2, OlderIs
    <3> QED
      BY <1>2, <2>3, <3>1, <3>3
  <2>6. CASE seq # last /\ ~IsNewerSequenceNumber(last, seq)
    <3>1. UpdateLastReceivedPacket(k, seq, ts) = NewestReceived(erased, seq, ts)
      BY <1>2, <2>6 DEF UpdateLastReceivedPacket
    <3>2. SeqPlace(last, s0) < SeqPlace(seq, s0)
      BY <2>2, <2>6
    <3>3. /\ IsNack(erased) /\ Numbers(erased) = Numbers(k) \ {seq} /\ SameReport(k, erased)
          /\ \A n \in Numbers(k) \ {seq} : erased.list[n] = k.list[n]
      BY <2>1, KeptIs
    <3>4. seq \notin Numbers(k)
      BY <2>1, <2>2, <3>2 DEF Listed
    <3> HIDE DEF erased
    <3>5. NackOK(erased, h, f, s0)
      <4>1. Numbers(erased) = Numbers(k) /\ \A n \in Numbers(k) : erased.list[n] = k.list[n]
        BY <3>3, <3>4
      <4> QED
        BY <1>2, <3>3, <4>1 DEF NackOK, Listed, Noticed, SameReport
    <3>6. erased.anyReceived /\ erased.lastReceived = last
      BY <1>2, <3>3 DEF SameReport
    <3>7. NackOK(NewestReceived(erased, seq, ts), h \cup {seq}, f, s0)
      BY <3>2, <3>5, <3>6, NewestIs
    <3> QED
      BY <1>2, <2>3, <3>1, <3>7
  <2> QED
    BY <2>4, <2>5, <2>6
<1> QED
  BY <1>1, <1>2

\* Once audio has been decoded the list may shrink.
LEMMA ShrunkOK ==
  ASSUME NEW s0, NEW k, NEW h, NEW f, NackOK(k, h, f, s0),
         NEW r, IsNack(r), Numbers(r) \subseteq Numbers(k),
         \A n \in Numbers(r) : r.list[n].missing = k.list[n].missing,
         r.maxSize = k.maxSize, r.lastReceived = k.lastReceived,
         r.anyReceived = k.anyReceived, r.anyDecoded = TRUE
  PROVE  NackOK(r, h, f, s0)
<1>1. CASE ~k.anyReceived
  BY <1>1 DEF NackOK
<1>2. CASE k.anyReceived
  <2>1. Listed(r, h, s0)
    BY <1>2 DEF NackOK, Listed
  <2> QED
    BY <1>2, <2>1 DEF NackOK
<1> QED
  BY <1>1, <1>2

\* A record with another list and other values for what was decoded last.
LEMMA WithDecoded ==
  ASSUME NEW k, IsNack(k), NEW l, \A n \in DOMAIN l : IsElement(l[n]),
         NEW seq, NEW ts, NEW r,
         r = [list |-> l, maxSize |-> k.maxSize,
              lastReceived |-> k.lastReceived, lastReceivedTs |-> k.lastReceivedTs,
              anyReceived |-> k.anyReceived,
              lastDecoded |-> seq, lastDecodedTs |-> ts,
              anyDecoded |-> TRUE, perPacket |-> k.perPacket]
  PROVE  /\ IsNack(r) /\ r.list = l /\ r.maxSize = k.maxSize
         /\ r.lastReceived = k.lastReceived /\ r.anyReceived = k.anyReceived
         /\ r.anyDecoded = TRUE
<1>1. /\ HasShape(r) /\ r.list = l /\ r.maxSize = k.maxSize
      /\ r.lastReceived = k.lastReceived /\ r.anyReceived = k.anyReceived
      /\ r.anyDecoded = TRUE
  BY DEF HasShape
<1>2. k.maxSize \in ListSizes /\ k.anyReceived \in BOOLEAN
  BY DEF IsNack
<1> QED
  BY <1>1, <1>2 DEF IsNack, Numbers

\* Nack::UpdateLastDecodedPacket only takes numbers off the list.
LEMMA DecodedIs ==
  ASSUME NEW s0, NEW k, NEW h, NEW f, NackOK(k, h, f, s0), NEW seq, NEW ts,
         NEW r \in UpdateLastDecodedPacket(k, seq, ts)
  PROVE  NackOK(r, h, f, s0)
<1>1. IsNack(k) /\ HasShape(k) /\ \A n \in Numbers(k) : IsElement(k.list[n])
  BY DEF NackOK, IsNack
<1>2. ASSUME NEW l, DOMAIN l \subseteq Numbers(k),
             \A n \in DOMAIN l : \E w : l[n] = [k.list[n] EXCEPT !.ttp = w],
             NEW sq, NEW tm,
             r = [list |-> l, maxSize |-> k.maxSize,
                  lastReceived |-> k.lastReceived, lastReceivedTs |-> k.lastReceivedTs,
                  anyReceived |-> k.anyReceived,
                  lastDecoded |-> sq, lastDecodedTs |-> tm,
                  anyDecoded |-> TRUE, perPacket |-> k.perPacket]
      PROVE  NackOK(r, h, f, s0)
  <2>2. ASSUME NEW n \in DOMAIN l
        PROVE  IsElement(l[n]) /\ l[n].missing = k.list[n].missing
    <3>1. IsElement(k.list[n])
      BY <1>1, <1>2
    <3> DEFINE e == k.list[n]
    <3>2. PICK x : IsElement(e) /\ l[n] = [e EXCEPT !.ttp = x]
      BY <1>2, <3>1
    <3> HIDE DEF e
    <3>3. IsElement(l[n]) /\ l[n].missing = e.missing
      BY <3>2, ElementTime
    <3> QED
      BY <3>3 DEF e
  <2>3. \A n \in DOMAIN l : IsElement(l[n])
    BY <2>2
  <2>4. /\ IsNack(r) /\ r.list = l /\ r.maxSize = k.maxSize
        /\ r.lastReceived = k.lastReceived /\ r.anyReceived = k.anyReceived
        /\ r.anyDecoded = TRUE
    BY <1>1, <1>2, <2>3, WithDecoded
  <2>5. Numbers(r) = DOMAIN l
    BY <2>4 DEF Numbers
  <2>6. \A n \in Numbers(r) : r.list[n].missing = k.list[n].missing
    BY <2>2, <2>4, <2>5
  <2>7. Numbers(r) \subseteq Numbers(k)
    BY <1>2, <2>5
  <2> QED
    BY <2>4, <2>6, <2>7, ShrunkOK
<1>3. CASE IsNewerSequenceNumber(seq, k.lastDecoded) \/ ~k.anyDecoded
  <2> DEFINE told == [k EXCEPT !.lastDecoded = seq, !.lastDecodedTs = ts, !.anyDecoded = TRUE]
             t(n) == TimeToPlay(told, k.list[n].ts)
  <2>1. PICK R \in UpTo(k, seq) :
          r = [told EXCEPT !.list = [n \in Numbers(k) \ R |-> [k.list[n] EXCEPT !.ttp = t(n)]]]
    BY <1>3, Zenon DEF UpdateLastDecodedPacket
  <2> DEFINE l == [n \in Numbers(k) \ R |-> [k.list[n] EXCEPT !.ttp = t(n)]]
  <2>2. r = [told EXCEPT !.list = l]
    BY <2>1
  <2>3. r = [list |-> l, maxSize |-> k.maxSize,
             lastReceived |-> k.lastReceived, lastReceivedTs |-> k.lastReceivedTs,
             anyReceived |-> k.anyReceived,
             lastDecoded |-> seq, lastDecodedTs |-> ts,
             anyDecoded |-> TRUE, perPacket |-> k.perPacket]
    <3> HIDE DEF l
    <3> QED
      BY <1>1, <2>2 DEF HasShape
  <2>4. /\ DOMAIN l \subseteq Numbers(k)
        /\ \A n \in DOMAIN l : l[n] = [k.list[n] EXCEPT !.ttp = t(n)]
    OBVIOUS
  <2> HIDE DEF l, t
  <2>5. \A n \in DOMAIN l : \E w : l[n] = [k.list[n] EXCEPT !.ttp = w]
    BY <2>4, Zenon
  <2> QED
    BY <1>2, <2>3, <2>4, <2>5
<1>4. CASE ~(IsNewerSequenceNumber(seq, k.lastDecoded) \/ ~k.anyDecoded)
  <2> DEFINE due == {n \in Numbers(k) : \A m \in Numbers(k) :
                       ~IsNewerSequenceNumber(m, n) => k.list[m].ttp <= 1}
             t(n) == k.list[n].ttp - 1
             l == [n \in Numbers(k) \ due |-> [k.list[n] EXCEPT !.ttp = t(n)]]
             u == UpdateEstimatedPlayoutTimeBy10ms(k)
             tm == (u.lastDecodedTs + 1) % (2 * TsHalf)
  <2>1. r = [u EXCEPT !.lastDecodedTs = tm, !.anyDecoded = TRUE]
    BY <1>4, Zenon DEF UpdateLastDecodedPacket
  <2>2. u = [k EXCEPT !.list = l]
    <3>1. l = [n \in Numbers(k) \ due |-> [k.list[n] EXCEPT !.ttp = @ - 1]]
      OBVIOUS
    <3> QED
      BY <3>1, Zenon DEF UpdateEstimatedPlayoutTimeBy10ms
  <2>3. /\ DOMAIN l \subseteq Numbers(k)
        /\ \A n \in DOMAIN l : l[n] = [k.list[n] EXCEPT !.ttp = t(n)]
    OBVIOUS
  <2> HIDE DEF l, t, u, tm, due
  <2>4. r = [list |-> l, maxSize |-> k.maxSize,
             lastReceived |-> k.lastReceived, lastReceivedTs |-> k.lastReceivedTs,
             anyReceived |-> k.anyReceived,
             lastDecoded |-> k.lastDecoded, lastDecodedTs |-> tm,
             anyDecoded |-> TRUE, perPacket |-> k.perPacket]
    BY <1>1, <2>1, <2>2 DEF HasShape
  <2>5. \A n \in DOMAIN l : \E w : l[n] = [k.list[n] EXCEPT !.ttp = w]
    BY <2>3, Zenon
  <2> QED
    BY <1>2, <2>3, <2>4, <2>5
<1> QED
  BY <1>3, <1>4

\* Nack::SetMaxNackListSize.
LEMMA ResizedIs ==
  ASSUME NEW s0 \in FirstNumbers, NEW k, NEW h, NEW f, NackOK(k, h, f, s0),
         NEW size \in ListSizes
  PROVE  NackOK(SetMaxNackListSize(k, size), h, f, s0)
<1> DEFINE u == [k EXCEPT !.maxSize = size]
           r == SetMaxNackListSize(k, size)
<1>1. IsNack(k) /\ HasShape(k)
  BY DEF NackOK, IsNack
<1>2. u = [k EXCEPT !.maxSize = size] /\ r = LimitNackListSize(u)
  BY DEF SetMaxNackListSize
<1> HIDE DEF u
<1>3. u = [list |-> k.list, maxSize |-> size,
           lastReceived |-> k.lastReceived, lastReceivedTs |-> k.lastReceivedTs,
           anyReceived |-> k.anyReceived,
           lastDecoded |-> k.lastDecoded, lastDecodedTs |-> k.lastDecodedTs,
           anyDecoded |-> k.anyDecoded, perPacket |-> k.perPacket]
  BY <1>1, <1>2 DEF HasShape
<1>4. /\ HasShape(u) /\ u.list = k.list /\ u.maxSize = size
      /\ u.lastReceived = k.lastReceived /\ u.anyReceived = k.anyReceived
      /\ u.anyDecoded = k.anyDecoded
  BY <1>3 DEF HasShape
<1>5. IsNack(u) /\ Numbers(u) = Numbers(k)
  BY <1>1, <1>4 DEF IsNack, Numbers
<1>6. ASSUME NEW K \in SUBSET Numbers(u), r = Kept(u, K)
      PROVE  /\ IsNack(r) /\ Numbers(r) = K /\ (\A n \in K : r.list[n] = k.list[n])
             /\ r.maxSize = size /\ r.lastReceived = k.lastReceived
             /\ r.anyReceived = k.anyReceived /\ r.anyDecoded = k.anyDecoded
  BY <1>4, <1>5, <1>6, KeptIs DEF SameReport
<1>7. CASE ~k.anyReceived
  <2>1. Numbers(k) = {} /\ h = {}
    BY <1>7 DEF NackOK
  <2>2. PICK K \in SUBSET Numbers(u) : r = Kept(u, K)
    BY <1>2 DEF LimitNackListSize
  <2> QED
    BY <1>5, <1>6, <1>7, <2>1, <2>2 DEF NackOK
<1>8. CASE k.anyReceived
  <2> DEFINE last == k.lastReceived
             K == {n \in Numbers(u) : SeqPlace(last, s0) - SeqPlace(n, s0) <= size}
  <2>1. /\ last \in StreamSeq(s0) /\ Listed(k, h, s0)
        /\ ~k.anyDecoded => Noticed(k, h, f, s0)
    BY <1>8 DEF NackOK
  <2>2. \A n \in Numbers(u) : n \in StreamSeq(s0) /\ SeqPlace(n, s0) < SeqPlace(last, s0)
    BY <1>5, <2>1 DEF Listed
  <2>3. r = Kept(u, K)
    BY <1>2, <1>4, <1>5, <2>1, <2>2, LimitIs
  <2>4. \A n : n \in K <=> n \in Numbers(k) /\ SeqPlace(last, s0) - SeqPlace(n, s0) <= size
    BY <1>5
  <2>5. K \in SUBSET Numbers(u)
    OBVIOUS
  <2> HIDE DEF K, r
  <2>6. /\ IsNack(r) /\ Numbers(r) = K /\ (\A n \in K : r.list[n] = k.list[n])
        /\ r.maxSize = size /\ r.lastReceived = last
        /\ r.anyReceived = k.anyReceived /\ r.anyDecoded = k.anyDecoded
    BY <1>6, <2>3, <2>5
  <2>7. Listed(r, h, s0)
    BY <2>1, <2>4, <2>6 DEF Listed
  <2>8. ~r.anyDecoded => Noticed(r, h, f, s0)
    <3> SUFFICES ASSUME ~k.anyDecoded, NEW n \in StreamSeq(s0) \ h,
                        SeqPlace(f, s0) < SeqPlace(n, s0),
                        SeqPlace(n, s0) < SeqPlace(last, s0),
                        SeqPlace(last, s0) - SeqPlace(n, s0) <= Min(ListSizes)
                 PROVE  n \in K
      BY <2>6 DEF Noticed
    <3>1. n \in Numbers(k)
      BY <2>1 DEF Noticed
    <3>2. SeqPlace(last, s0) - SeqPlace(n, s0) <= size
      <4>1. SeqPlace(last, s0) \in Nat /\ SeqPlace(n, s0) \in Nat
        BY <2>1, PlacesAreNumbers
      <4>2. Min(ListSizes) \in Nat /\ size \in Nat /\ Min(ListSizes) <= size
        BY SmallestSize, HalfAssumption
      <4> QED
        BY <4>1, <4>2
    <3> QED
      BY <2>4, <3>1, <3>2
  <2>9. NackOK(r, h, f, s0)
    BY <1>8, <2>6, <2>7, <2>8 DEF NackOK
  <2> QED
    BY <2>9 DEF r
<1> QED
  BY <1>7, <1>8

-----------------------------------------------------------------------------
\* Every step keeps NACK in order.
LEMMA NackStep ==
  ASSUME NetEqInv, NackInv, [Next]_vars
  PROVE  NackInv'
<1>1. StreamOK /\ start \in FirstNumbers
  BY DEF NetEqInv, StreamOK
<1>2. ASSUME UNCHANGED <<start, nackOn, nack, heard, first>>
      PROVE  NackInv'
  BY <1>2 DEF NackInv, NackOK
<1>3. ASSUME NEW i \in CanArrive, AcmInsert(i)
      PROVE  NackInv'
  <2>1. CASE ~nackOn
    BY <1>3, <2>1 DEF AcmInsert, NackInv
  <2>2. CASE nackOn
    <3> DEFINE fresh == IF IsNewDecoder(i) THEN Reset(nack) ELSE nack
               h == IF IsNewDecoder(i) THEN {} ELSE heard
    <3>1. /\ nack' = UpdateLastReceivedPacket(fresh, SeqNumberOf(i), TimestampOf(i))
          /\ heard' = {SeqNumberOf(i)} \cup h
          /\ first' = IF fresh.anyReceived THEN first ELSE SeqNumberOf(i)
          /\ start' = start
      BY <1>3, <2>2 DEF AcmInsert, sender
    <3>2. NackOK(nack, heard, first, start) /\ nack.maxSize \in ListSizes
      BY <2>2 DEF NackInv, NackOK, IsNack
    <3>3. NackOK(fresh, h, first, start)
      BY <3>2, NewNackOK DEF Reset
    <3>4. SeqNumberOf(i) \in StreamSeq(start)
      BY <1>1, PacketPlaces DEF CanArrive
    <3> HIDE DEF fresh, h
    <3>5. NackOK(nack', heard', first', start)
      BY <1>1, <3>1, <3>3, <3>4, ReceivedIs
    <3> QED
      BY <3>1, <3>5 DEF NackInv
  <2> QED
    BY <2>1, <2>2
<1>3a. ASSUME NEW i \in CanArrive, AcmDrops(i)
       PROVE  NackInv'
  BY <1>2, <1>3a DEF AcmDrops, acm, sender
<1>4. ASSUME NetEqInsert \/ NetEqRefuses
      PROVE  NackInv'
  BY <1>2, <1>4 DEF NetEqInsert, NetEqRefuses, acm, sender
<1>5. ASSUME GetAudio
      PROVE  NackInv'
  <2>1. UNCHANGED <<start, nackOn, heard, first>>
    BY <1>5 DEF GetAudio, sender
  <2>2. ReportDecoded(decoded')
    BY <1>5 DEF GetAudio
  <2>3. CASE UNCHANGED nack
    BY <1>2, <2>1, <2>3
  <2>4. ASSUME NEW seq, NEW ts, nack' \in UpdateLastDecodedPacket(nack, seq, ts)
        PROVE  NackInv'
    <3>1. nackOn => NackOK(nack', heard, first, start)
      BY <2>4, DecodedIs DEF NackInv
    <3> QED
      BY <2>1, <3>1 DEF NackInv
  <2>5. \/ UNCHANGED nack
        \/ nack' \in UpdateLastDecodedPacket(nack, 0, 0)
        \/ nack' \in UpdateLastDecodedPacket(nack, decoded'.seq, decoded'.ts)
    BY <2>2, Zenon DEF ReportDecoded
  <2> QED
    BY <2>3, <2>4, <2>5
<1>6. ASSUME GetAudioFails
      PROVE  NackInv'
  BY <1>2, <1>6 DEF GetAudioFails, acm, sender
<1>7. ASSUME NEW size \in ListSizes, EnableNack(size)
      PROVE  NackInv'
  <2> DEFINE k == IF nackOn THEN nack ELSE NewNack(size)
  <2>1. /\ nack' = SetMaxNackListSize(k, size) /\ start' = start
        /\ heard' = (IF nackOn THEN heard ELSE {})
        /\ first' = IF nackOn THEN first ELSE None
    BY <1>7 DEF EnableNack, sender
  <2>2. NackOK(k, heard', first', start)
    BY <2>1, NewNackOK DEF NackInv
  <2> HIDE DEF k
  <2>3. NackOK(nack', heard', first', start)
    BY <1>1, <2>1, <2>2, ResizedIs
  <2> QED
    BY <2>1, <2>3 DEF NackInv
<1>8. ASSUME DisableNack
      PROVE  NackInv'
  BY <1>8 DEF DisableNack, NackInv
<1>9. ASSUME FlushBuffers
      PROVE  NackInv'
  BY <1>2, <1>9 DEF FlushBuffers, acm, sender
<1>10. CASE UNCHANGED vars
  BY <1>2, <1>10 DEF vars, acm, sender
<1> QED
  BY <1>3, <1>3a, <1>4, <1>5, <1>6, <1>7, <1>8, <1>9, <1>10 DEF Next

\* NACK is always in order.
LEMMA NackInvariant == Spec => [](NetEqInv /\ NackInv)
<1>1. Init => NetEqInv /\ NackInv
  BY NetEqInit DEF Init, NackInv
<1>2. NetEqInv /\ NackInv /\ [Next]_vars => (NetEqInv /\ NackInv)'
  BY NetEqStep, NackStep
<1> QED
  BY <1>1, <1>2, PTL DEF Spec

\* What the invariant says of the last packet and of a number listed.
LEMMA ListedPlaces ==
  ASSUME NetEqInv, NackInv, nackOn, NEW n \in Numbers(nack)
  PROVE  /\ start \in FirstNumbers /\ n \in StreamSeq(start) /\ n \notin heard
         /\ nack.lastReceived \in StreamSeq(start)
         /\ IsNewerSequenceNumber(nack.lastReceived, n)
         /\ SeqMinus(nack.lastReceived, n) <= nack.maxSize
         /\ nack.list[n].missing <=> SeqMinus(nack.lastReceived, n) > NackThreshold
<1> DEFINE last == nack.lastReceived
<1>1. start \in FirstNumbers /\ NackOK(nack, heard, first, start)
  BY DEF NetEqInv, StreamOK, NackInv
<1>2. last \in StreamSeq(start) /\ Listed(nack, heard, start)
  BY <1>1 DEF NackOK
<1>3. /\ n \in StreamSeq(start) /\ n \notin heard
      /\ SeqPlace(n, start) < SeqPlace(last, start)
      /\ SeqPlace(last, start) - SeqPlace(n, start) <= nack.maxSize
      /\ nack.list[n].missing
           <=> SeqPlace(last, start) - SeqPlace(n, start) > NackThreshold
  BY <1>2 DEF Listed
<1>4. /\ IsNewerSequenceNumber(last, n)
      /\ Distance(last, n, SeqHalf) = SeqPlace(last, start) - SeqPlace(n, start)
  BY <1>1, <1>2, <1>3, SeqOrder
<1>5. SeqMinus(last, n) = Distance(last, n, SeqHalf)
  BY <1>3, SeqMinusIs DEF StreamSeq
<1> QED
  BY <1>1, <1>2, <1>3, <1>4, <1>5

-----------------------------------------------------------------------------
(* Whatever is on the NACK list is worth asking for as far as NACK can know: *)
(* its packet was not reported, and it is not older than the maximal size    *)
(* allows (Nack::UpdateLastReceivedPacket, LimitNackListSize).  A packet     *)
(* that arrived but was not reported, see AcmDrops, may be listed.           *)
THEOREM ListedStaysWanted == Spec => []ListedIsWanted
<1>1. NetEqInv /\ NackInv => ListedIsWanted
  BY ListedPlaces DEF ListedIsWanted
<1> QED
  BY <1>1, NackInvariant, PTL

(* A listed packet is missing exactly when one more than NackThreshold       *)
(* numbers newer was reported (ChangeFromLateToMissing, AddToList).          *)
THEOREM MissingStaysLate == Spec => []MissingIsLate
<1>1. NetEqInv /\ NackInv => MissingIsLate
  BY ListedPlaces DEF MissingIsLate
<1> QED
  BY <1>1, NackInvariant, PTL

(* No skipped number is overlooked: until a decoded packet is reported, each *)
(* that is within the smallest list size and was not reported is listed      *)
(* (Nack::UpdateList, AddToList).                                            *)
THEOREM LossAlwaysNoticed == Spec => []LossNoticed
<1>1. NetEqInv /\ NackInv => LossNoticed
  <2> SUFFICES ASSUME NetEqInv, NackInv, nackOn, nack.anyReceived, ~nack.anyDecoded,
                      NEW n \in SeqNums \ heard,
                      IsNewerSequenceNumber(n, first),
                      IsNewerSequenceNumber(nack.lastReceived, n),
                      SeqMinus(nack.lastReceived, n) <= Min(ListSizes)
               PROVE  n \in Numbers(nack)
    BY DEF LossNoticed
  <2> DEFINE last == nack.lastReceived
  <2>1. /\ start \in FirstNumbers /\ last \in StreamSeq(start) /\ first \in StreamSeq(start)
        /\ SeqPlace(first, start) <= SeqPlace(last, start)
        /\ Noticed(nack, heard, first, start)
    BY DEF NetEqInv, StreamOK, NackInv, NackOK
  <2>2. /\ n \in StreamSeq(start)
        /\ SeqPlace(first, start) < SeqPlace(n, start)
        /\ SeqPlace(n, start) < SeqPlace(last, start)
    BY <2>1, BetweenByPlace
  <2>3. SeqMinus(last, n) = SeqPlace(last, start) - SeqPlace(n, start)
    BY <2>1, <2>2, SeqOrder, SeqMinusIs
  <2> QED
    BY <2>1, <2>2, <2>3 DEF Noticed
<1> QED
  BY <1>1, NackInvariant, PTL
=============================================================================
