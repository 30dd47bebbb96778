-------------------------- MODULE GenericDecoderProofs --------------------------
(* The ring of frame infos and the timestamp map run side by side: the entry  *)
(* d places before the next one to add points to the info d places before the *)
(* next one to write.  Since the map holds one entry less than there are      *)
(* infos, the info Decode writes is never one an entry still points to.       *)
EXTENDS GenericDecoder, TLAPS

L == kDecoderFrameMemoryLength

\* The index d places before i.
Minus(i, d) == IF i >= d THEN i - d ELSE i - d + L

TypeOK ==
  /\ asyncExists \in BOOLEAN /\ async \in BOOLEAN
  /\ timestampMap \in MapType
  /\ frameInfos \in [Indices -> Timestamps \union {NoInfo}]
  /\ nextFrameInfoIdx \in Indices
  /\ decode \in {"idle", "map", "call", "pop"} /\ frame \in Timestamps
  /\ inside \in Seq(Timestamps)
  /\ late \subseteq Timestamps
  /\ callback \in {"idle", "delivers"} /\ info \in Pointers

\* What an entry d places back says, if its decoder still exists.
OwnInfo(m, d) ==
  m.map[Minus(m.nextAddIx, d)].data.decoder = "present" =>
    /\ m.map[Minus(m.nextAddIx, d)].data.slot = Minus(nextFrameInfoIdx, d)
    /\ frameInfos[Minus(nextFrameInfoIdx, d)] = m.map[Minus(m.nextAddIx, d)].timestamp
SideBySide == \A d \in 1..Entries(timestampMap) : OwnInfo(timestampMap, d)

\* With synchronous decoders the map holds the frame inside the decoder, if any.
OneEntry ==
  /\ Entries(timestampMap) = 1
  /\ timestampMap.map[Minus(timestampMap.nextAddIx, 1)] =
       [timestamp |-> frame, data |-> [decoder |-> "present", slot |-> Minus(nextFrameInfoIdx, 1)]]
AtMostOneFrame ==
  ~asyncExists =>
    /\ ~async /\ late = {}
    /\ decode \in {"call", "pop"} => inside = <<>> /\ OneEntry
    /\ inside # <<>> => inside = <<frame>> /\ decode = "idle" /\ OneEntry
    /\ decode \in {"idle", "map"} /\ inside = <<>> => Entries(timestampMap) = 0

\* Between Decode's writes and Map the info is the frame's.
Written == decode = "map" => frameInfos[nextFrameInfoIdx] = frame

IInv == TypeOK /\ SideBySide /\ AtMostOneFrame /\ Written

-----------------------------------------------------------------------------
\* Arithmetic of the rings.
\* One step forward, without the modulus.
LEMMA NextIxIs ==
  ASSUME NEW i \in Indices
  PROVE  /\ NextIx(i) = IF i = L - 1 THEN 0 ELSE i + 1
         /\ NextInfoIdx(i) = NextIx(i) /\ NextIx(i) \in Indices
<1>1. \A x \in 0..(L - 1) : x % L = x
  BY MemoryLengthAssumption, Z3 DEF L
<1>2. \A x \in L..(2 * L - 1) : x % L = x - L
  BY MemoryLengthAssumption, Z3 DEF L
<1>3. CASE i = L - 1
  BY <1>2, <1>3, MemoryLengthAssumption DEF L, Indices, NextIx, NextInfoIdx
<1>4. CASE i # L - 1
  BY <1>1, <1>4, MemoryLengthAssumption DEF L, Indices, NextIx, NextInfoIdx
<1> QED BY <1>3, <1>4

\* Indices some places back, and one step forward.
LEMMA MinusIs ==
  ASSUME NEW i \in Indices, NEW d \in 1..(L - 1)
  PROVE  /\ Minus(i, d) \in Indices /\ Minus(i, d) # i
         /\ Minus(NextIx(i), 1) = i
         /\ d > 1 => Minus(NextIx(i), d) = Minus(i, d - 1)
         /\ \A e \in 1..(L - 1) : Minus(i, d) = Minus(i, e) => d = e
  BY NextIxIs, MemoryLengthAssumption DEF Minus, L, Indices

\* The distance from one index to another, around the ring.
Distance(p, a) == IF a >= p THEN a - p ELSE a - p + L

\* Distances, and how they change when either index moves.
LEMMA DistanceIs ==
  ASSUME NEW a \in Indices, NEW p \in Indices
  PROVE  /\ Distance(p, a) \in 0..(L - 1)
         /\ Distance(p, a) > 0 => Minus(a, Distance(p, a)) = p
         /\ NextIx(a) = p => Distance(p, a) = L - 1 /\ Distance(NextIx(p), NextIx(a)) = L - 1
         /\ NextIx(a) # p => Distance(p, a) # L - 1 /\ Distance(p, NextIx(a)) = Distance(p, a) + 1
  BY NextIxIs, MemoryLengthAssumption DEF Distance, Minus, L, Indices

\* The index k places after p, on the way to a.
LEMMA ForwardIs ==
  ASSUME NEW a \in Indices, NEW p \in Indices, NEW k \in 0..Distance(p, a)
  PROVE  /\ (p + k) % L \in Indices
         /\ Distance((p + k) % L, a) = Distance(p, a) - k
         /\ k = Distance(p, a) => (p + k) % L = a
         /\ k < Distance(p, a) => /\ (p + k) % L = Minus(a, Distance(p, a) - k)
                                  /\ Distance(NextIx((p + k) % L), a) = Distance(p, a) - k - 1
<1> DEFINE q == (p + k) % L
<1>1. \A x \in 0..(L - 1) : x % L = x
  BY MemoryLengthAssumption, Z3 DEF L
<1>2. \A x \in L..(2 * L - 1) : x % L = x - L
  BY MemoryLengthAssumption, Z3 DEF L
<1>3. k \in 0..(L - 1) /\ p \in 0..(L - 1) /\ L \in Nat
  BY DistanceIs, MemoryLengthAssumption DEF L, Indices
<1>4. q = IF p + k < L THEN p + k ELSE p + k - L
  <2>1. CASE p + k < L
    <3>1. p + k \in 0..(L - 1)
      BY <1>3, <2>1
    <3> QED BY <1>1, <2>1, <3>1
  <2>2. CASE ~(p + k < L)
    <3>1. p + k \in Int /\ p + k >= L /\ p + k <= 2 * L - 1
      BY <1>3, <2>2
    <3>2. p + k \in L..(2 * L - 1)
      BY <3>1, <1>3
    <3>3. PICK x \in L..(2 * L - 1) : x = p + k
      BY <3>2
    <3>4. x % L = x - L
      BY <1>2
    <3> QED BY <2>2, <3>3, <3>4, <1>3
  <2> QED BY <2>1, <2>2
<1> HIDE DEF q
<1>5. q \in Indices
  BY <1>3, <1>4 DEF Indices, L
<1>6. /\ Distance(q, a) = Distance(p, a) - k
      /\ k = Distance(p, a) => q = a
      /\ k < Distance(p, a) => /\ q = Minus(a, Distance(p, a) - k)
                               /\ Distance(NextIx(q), a) = Distance(p, a) - k - 1
  BY <1>3, <1>4, <1>5, NextIxIs, MemoryLengthAssumption DEF Distance, Minus, L, Indices
<1> QED BY <1>5, <1>6 DEF q

\* The entries of a map are fewer than its places.
LEMMA EntriesBound ==
  ASSUME NEW m \in MapType
  PROVE  /\ m.nextAddIx \in Indices /\ m.nextPopIx \in Indices
         /\ m.map \in [Indices -> [timestamp : Timestamps, data : Pointers]]
         /\ Entries(m) = Distance(m.nextPopIx, m.nextAddIx)
         /\ Entries(m) \in 0..(L - 1)
         /\ Entries(m) > 0 => Minus(m.nextAddIx, Entries(m)) = m.nextPopIx
<1>1. /\ m.nextAddIx \in Indices /\ m.nextPopIx \in Indices
      /\ m.map \in [Indices -> [timestamp : Timestamps, data : Pointers]]
  BY DEF MapType
<1>2. Entries(m) = Distance(m.nextPopIx, m.nextAddIx)
  BY DEF Entries, Distance, L
<1> QED BY <1>1, <1>2, DistanceIs

\* The place of an entry, counted from the newest one.
LEMMA PlaceIs ==
  ASSUME NEW m \in MapType, NEW k \in 0..Entries(m)
  PROVE  /\ Place(m, k) \in Indices
         /\ Distance(Place(m, k), m.nextAddIx) = Entries(m) - k
         /\ k < Entries(m) => /\ Place(m, k) = Minus(m.nextAddIx, Entries(m) - k)
                              /\ Distance(NextIx(Place(m, k)), m.nextAddIx) = Entries(m) - k - 1
         /\ k = Entries(m) => Place(m, k) = m.nextAddIx
  BY EntriesBound, ForwardIs DEF Place, L

-----------------------------------------------------------------------------
\* Add puts the entry one place back and moves the others by one; the oldest one
\* of a full map is forgotten.
LEMMA AddIs ==
  ASSUME NEW m \in MapType, NEW ts \in Timestamps, NEW data \in Pointers
  PROVE  /\ Add(m, ts, data) \in MapType
         /\ Add(m, ts, data).nextAddIx = NextIx(m.nextAddIx)
         /\ Entries(Add(m, ts, data)) = IF Entries(m) = L - 1 THEN L - 1 ELSE Entries(m) + 1
         /\ Add(m, ts, data).map[Minus(NextIx(m.nextAddIx), 1)] = [timestamp |-> ts, data |-> data]
         /\ \A d \in 2..(L - 1) : Add(m, ts, data).map[Minus(NextIx(m.nextAddIx), d)]
                                    = m.map[Minus(m.nextAddIx, d - 1)]
<1> DEFINE n == Add(m, ts, data)
<1>1. n \in MapType /\ n.nextAddIx = NextIx(m.nextAddIx)
  BY EntriesBound, NextIxIs DEF Add, MapType
<1>2. n.nextPopIx = IF NextIx(m.nextAddIx) = m.nextPopIx THEN NextIx(m.nextPopIx) ELSE m.nextPopIx
  BY DEF Add, MapType
<1>3. Entries(n) = IF Entries(m) = L - 1 THEN L - 1 ELSE Entries(m) + 1
  <2> HIDE DEF n
  <2>1. Entries(n) = Distance(n.nextPopIx, n.nextAddIx)
    BY <1>1, EntriesBound
  <2> QED BY <1>1, <1>2, <2>1, EntriesBound, DistanceIs
<1>4. n.map = [m.map EXCEPT ![m.nextAddIx] = [timestamp |-> ts, data |-> data]]
  BY DEF Add, MapType
<1>5. n.map[Minus(NextIx(m.nextAddIx), 1)] = [timestamp |-> ts, data |-> data]
  BY <1>4, EntriesBound, MinusIs, MemoryLengthAssumption DEF L
<1>6. ASSUME NEW d \in 2..(L - 1)
      PROVE  n.map[Minus(NextIx(m.nextAddIx), d)] = m.map[Minus(m.nextAddIx, d - 1)]
  <2>1. /\ Minus(NextIx(m.nextAddIx), d) = Minus(m.nextAddIx, d - 1)
        /\ d - 1 \in 1..(L - 1)
    BY EntriesBound, MinusIs, MemoryLengthAssumption DEF L
  <2>2. Minus(m.nextAddIx, d - 1) # m.nextAddIx /\ Minus(m.nextAddIx, d - 1) \in Indices
    BY <2>1, EntriesBound, MinusIs
  <2> QED BY <2>1, <2>2, <1>4, EntriesBound
<1> QED BY <1>1, <1>3, <1>5, <1>6

\* Pop removes the oldest entries and leaves the others as they are.
LEMMA PoppedIs ==
  ASSUME NEW m \in MapType, NEW ts \in Timestamps, NEW k \in 0..Entries(m)
  PROVE  /\ Popped(m, ts, k) \in MapType
         /\ Popped(m, ts, k).nextAddIx = m.nextAddIx
         /\ Entries(Popped(m, ts, k)) = Entries(m) - k - (IF Found(m, ts, k) THEN 1 ELSE 0)
         /\ \A d \in 1..Entries(Popped(m, ts, k)) :
              Popped(m, ts, k).map[Minus(m.nextAddIx, d)] = m.map[Minus(m.nextAddIx, d)]
<1> DEFINE n == Popped(m, ts, k)
<1>0. NULL \in Pointers
  BY MemoryLengthAssumption DEF NULL, Pointers, Indices
<1>1. CASE Found(m, ts, k)
  <2>1. k < Entries(m) /\ Place(m, k) = Minus(m.nextAddIx, Entries(m) - k) /\ Place(m, k) \in Indices
    BY <1>1, PlaceIs DEF Found
  <2>2. /\ n \in MapType /\ n.nextAddIx = m.nextAddIx /\ n.nextPopIx = NextIx(Place(m, k))
        /\ n.map = [m.map EXCEPT ![Place(m, k)].data = NULL]
    BY <1>0, <1>1, <2>1, NextIxIs DEF Popped, MapType
  <2>3. Entries(n) = Entries(m) - k - 1
    <3> HIDE DEF n
    <3> QED BY <2>1, <2>2, EntriesBound, PlaceIs
  <2>4. ASSUME NEW d \in 1..(Entries(m) - k - 1)
        PROVE  n.map[Minus(m.nextAddIx, d)] = m.map[Minus(m.nextAddIx, d)]
    <3>1. d \in 1..(L - 1) /\ Entries(m) - k \in 1..(L - 1) /\ d # Entries(m) - k
      BY <2>1, EntriesBound, MemoryLengthAssumption DEF L
    <3>2. Minus(m.nextAddIx, d) # Place(m, k) /\ Minus(m.nextAddIx, d) \in Indices
      BY <2>1, <3>1, EntriesBound, MinusIs
    <3> QED BY <2>2, <3>2, EntriesBound
  <2> QED BY <1>1, <2>2, <2>3, <2>4
<1>2. CASE ~Found(m, ts, k)
  <2>1. /\ n \in MapType /\ n.nextAddIx = m.nextAddIx /\ n.nextPopIx = Place(m, k)
        /\ n.map = m.map
    BY <1>2, PlaceIs DEF Popped, MapType
  <2>2. Entries(n) = Entries(m) - k
    <3> HIDE DEF n
    <3> QED BY <2>1, PlaceIs, EntriesBound
  <2> QED BY <1>2, <2>1, <2>2, EntriesBound
<1> QED BY <1>1, <1>2

-----------------------------------------------------------------------------
\* Every action preserves the invariant.
\* The initial state.
LEMMA InitOk == Init => IInv
<1> SUFFICES ASSUME Init PROVE IInv
  OBVIOUS
<1>1. NULL \in Pointers /\ 0 \in Indices /\ 0 \in Timestamps
  BY MemoryLengthAssumption, TsRangeAssumption DEF NULL, Pointers, Indices, Timestamps
<1>2. NewMap \in MapType /\ Entries(NewMap) = 0
  BY <1>1 DEF NewMap, MapType, Entries
<1>3. TypeOK
  BY <1>1, <1>2 DEF Init, TypeOK
<1>4. ~asyncExists => ~async
  BY Zenon DEF Init
<1>5. AtMostOneFrame /\ Written
  BY <1>2, <1>4 DEF Init, AtMostOneFrame, Written
<1>6. SideBySide
  BY <1>2 DEF Init, SideBySide
<1> QED BY <1>3, <1>5, <1>6 DEF IInv

\* The info written is not one an entry points to.
LEMMA DecodeFrameOk ==
  ASSUME IInv, NEW timestamp \in Timestamps, DecodeFrame(timestamp)
  PROVE  IInv'
<1>1. frame' \in Timestamps
  BY DEF DecodeFrame
<1>2. TypeOK'
  BY <1>1 DEF DecodeFrame, IInv, TypeOK, callbackVars
<1>3. SideBySide'
  <2> SUFFICES ASSUME NEW d \in 1..Entries(timestampMap) PROVE OwnInfo(timestampMap, d)'
    BY DEF SideBySide, DecodeFrame
  <2>1. d \in 1..(L - 1)
    BY EntriesBound, MemoryLengthAssumption DEF IInv, TypeOK, L
  <2>2. Minus(nextFrameInfoIdx, d) # nextFrameInfoIdx
    BY <2>1, MinusIs DEF IInv, TypeOK
  <2>3. frameInfos'[Minus(nextFrameInfoIdx, d)] = frameInfos[Minus(nextFrameInfoIdx, d)]
    BY <2>1, <2>2, MinusIs DEF IInv, TypeOK, DecodeFrame
  <2> QED BY <2>3 DEF IInv, SideBySide, OwnInfo, DecodeFrame
<1>4. AtMostOneFrame'
  BY DEF IInv, AtMostOneFrame, OneEntry, DecodeFrame, OutsideDecode, callbackVars
<1>5. Written'
  BY DEF DecodeFrame, IInv, TypeOK, Written
<1> QED BY <1>2, <1>3, <1>4, <1>5 DEF IInv

\* Both rings move on by one.
LEMMA MapFrameOk == ASSUME IInv, MapFrame PROVE IInv'
<1> DEFINE data == [decoder |-> "present", slot |-> nextFrameInfoIdx]
           i == nextFrameInfoIdx
<1>1. /\ data \in Pointers /\ timestampMap \in MapType /\ frame \in Timestamps /\ i \in Indices
      /\ timestampMap' = Add(timestampMap, frame, data)
      /\ i' = NextIx(i) /\ i' \in Indices
  BY NextIxIs DEF IInv, TypeOK, Pointers, MapFrame
<1> HIDE DEF data
<1>2. TypeOK'
  <2>1. timestampMap' \in MapType
    BY <1>1, AddIs
  <2> QED BY <1>1, <2>1 DEF MapFrame, IInv, TypeOK, callbackVars
<1>0. 1 \in 1..(L - 1)
  BY MemoryLengthAssumption DEF L
<1>3. /\ timestampMap'.nextAddIx = NextIx(timestampMap.nextAddIx)
      /\ timestampMap'.map[Minus(timestampMap'.nextAddIx, 1)] = [timestamp |-> frame, data |-> data]
      /\ Minus(i', 1) = i
      /\ Entries(timestampMap') = IF Entries(timestampMap) = L - 1 THEN L - 1
                                  ELSE Entries(timestampMap) + 1
  BY <1>0, <1>1, AddIs, MinusIs
<1>4. frameInfos' = frameInfos /\ frame' = frame
  BY DEF MapFrame
<1>5. Entries(timestampMap) \in 0..(L - 1)
  BY <1>1, EntriesBound
<1>6. ASSUME NEW d \in 1..Entries(timestampMap') PROVE OwnInfo(timestampMap, d)'
  <2>1. CASE d = 1
    <3>1. frameInfos[i] = frame
      BY DEF IInv, Written, MapFrame
    <3> QED BY <2>1, <3>1, <1>3, <1>4 DEF OwnInfo, data
  <2>2. CASE d # 1
    <3>1. d \in 2..(L - 1) /\ d - 1 \in 1..Entries(timestampMap) /\ d \in 1..(L - 1)
      BY <1>3, <1>5, <2>2, MemoryLengthAssumption DEF L
    <3>2. timestampMap'.map[Minus(timestampMap'.nextAddIx, d)]
            = timestampMap.map[Minus(timestampMap.nextAddIx, d - 1)]
      BY <3>1, <1>1, <1>3, AddIs
    <3>3. Minus(i', d) = Minus(i, d - 1)
      BY <3>1, <1>1, MinusIs
    <3>4. OwnInfo(timestampMap, d - 1)
      BY <3>1 DEF IInv, SideBySide
    <3> QED BY <3>2, <3>3, <3>4, <1>4 DEF OwnInfo
  <2> QED BY <2>1, <2>2
<1>7. AtMostOneFrame'
  BY <1>3, <1>4, MemoryLengthAssumption
  DEF IInv, AtMostOneFrame, OneEntry, MapFrame, callbackVars, data, L
<1> QED BY <1>2, <1>6, <1>7 DEF IInv, SideBySide, Written, MapFrame

\* Popping entries disturbs none of the others.
LEMMA PopKeepsInfos ==
  ASSUME IInv, NEW ts \in Timestamps, NEW k \in 0..Entries(timestampMap),
         timestampMap' = Popped(timestampMap, ts, k),
         UNCHANGED <<frameInfos, nextFrameInfoIdx>>
  PROVE  SideBySide' /\ timestampMap' \in MapType
<1>1. timestampMap \in MapType
  BY DEF IInv, TypeOK
<1>2. /\ timestampMap' \in MapType
      /\ timestampMap'.nextAddIx = timestampMap.nextAddIx
      /\ Entries(timestampMap') \in 0..Entries(timestampMap)
      /\ \A d \in 1..Entries(timestampMap') :
           timestampMap'.map[Minus(timestampMap.nextAddIx, d)]
             = timestampMap.map[Minus(timestampMap.nextAddIx, d)]
  <2>1. Entries(timestampMap) \in 0..(L - 1) /\ L \in Nat
    BY <1>1, EntriesBound, MemoryLengthAssumption DEF L
  <2>2. k < Entries(timestampMap) \/ ~Found(timestampMap, ts, k)
    BY DEF Found
  <2>3. /\ Entries(timestampMap') = Entries(timestampMap) - k - (IF Found(timestampMap, ts, k) THEN 1 ELSE 0)
        /\ timestampMap' \in MapType
        /\ timestampMap'.nextAddIx = timestampMap.nextAddIx
        /\ \A d \in 1..Entries(timestampMap') :
             timestampMap'.map[Minus(timestampMap.nextAddIx, d)]
               = timestampMap.map[Minus(timestampMap.nextAddIx, d)]
    BY <1>1, PoppedIs
  <2>4. Entries(timestampMap') \in 0..Entries(timestampMap)
    BY <2>1, <2>2, <2>3
  <2> QED BY <2>3, <2>4
<1>3. ASSUME NEW d \in 1..Entries(timestampMap') PROVE OwnInfo(timestampMap, d)'
  <2>1. d \in 1..Entries(timestampMap)
    BY <1>1, <1>2, EntriesBound, MemoryLengthAssumption DEF L
  <2>2. OwnInfo(timestampMap, d)
    BY <2>1 DEF IInv, SideBySide
  <2> QED BY <2>2, <1>2 DEF OwnInfo
<1> QED BY <1>2, <1>3 DEF SideBySide

\* With the frame's entry as the only one, Pop finds it at once.
LEMMA PopFindsFrame ==
  ASSUME IInv, OneEntry, NEW k \in 0..Entries(timestampMap), StopsAt(timestampMap, frame, k)
  PROVE  /\ Found(timestampMap, frame, k)
         /\ PopData(timestampMap, frame, k)
              = [decoder |-> "present", slot |-> Minus(nextFrameInfoIdx, 1)]
         /\ Entries(Popped(timestampMap, frame, k)) = 0
         /\ frameInfos[Minus(nextFrameInfoIdx, 1)] = frame
<1>1. timestampMap \in MapType /\ frame \in Timestamps /\ frame \in Int /\ Entries(timestampMap) = 1
  BY TsRangeAssumption DEF IInv, TypeOK, OneEntry, Timestamps
<1>2. Place(timestampMap, 0) = Minus(timestampMap.nextAddIx, 1)
  BY <1>1, PlaceIs
<1>3. timestampMap.map[Place(timestampMap, 0)] =
        [timestamp |-> frame, data |-> [decoder |-> "present", slot |-> Minus(nextFrameInfoIdx, 1)]]
  BY <1>2 DEF OneEntry
<1>4. k = 0
  BY <1>1, <1>3 DEF StopsAt
<1>5. Found(timestampMap, frame, k)
  BY <1>1, <1>3, <1>4 DEF Found
<1>6. Entries(Popped(timestampMap, frame, k)) = 0
  BY <1>1, <1>4, <1>5, PoppedIs
<1>7. OwnInfo(timestampMap, 1)
  BY <1>1 DEF IInv, SideBySide
<1>8. frameInfos[Minus(nextFrameInfoIdx, 1)] = frame
  BY <1>2, <1>3, <1>7 DEF OwnInfo
<1> QED BY <1>3, <1>4, <1>5, <1>6, <1>8 DEF PopData

\* A refused frame takes its entry with it.
LEMMA PopFrameOk == ASSUME IInv, PopFrame PROVE IInv'
<1>1. PICK k \in 0..Entries(timestampMap) :
        /\ StopsAt(timestampMap, frame, k)
        /\ timestampMap' = Popped(timestampMap, frame, k)
  BY DEF PopFrame
<1>2. frame \in Timestamps /\ UNCHANGED <<frameInfos, nextFrameInfoIdx>>
  BY DEF IInv, TypeOK, PopFrame
<1>3. SideBySide' /\ timestampMap' \in MapType
  BY <1>1, <1>2, PopKeepsInfos
<1>4. TypeOK' /\ Written'
  BY <1>3 DEF IInv, TypeOK, PopFrame, callbackVars, Written
<1>5. AtMostOneFrame'
  <2> SUFFICES ASSUME ~asyncExists' PROVE AtMostOneFrame'
    BY DEF AtMostOneFrame
  <2>1. ~asyncExists /\ ~async' /\ late' = {} /\ OneEntry /\ inside' = <<>> /\ decode' = "idle"
    BY DEF IInv, AtMostOneFrame, PopFrame
  <2>2. Entries(timestampMap') = 0
    BY <1>1, <2>1, PopFindsFrame
  <2> QED BY <2>1, <2>2 DEF AtMostOneFrame
<1> QED BY <1>3, <1>4, <1>5 DEF IInv

\* A delivered frame takes its entry with it.
LEMMA DecodedOk == ASSUME IInv, Decoded PROVE IInv'
<1>1. PICK k \in 0..Entries(timestampMap) :
        /\ StopsAt(timestampMap, Head(inside), k)
        /\ timestampMap' = Popped(timestampMap, Head(inside), k)
        /\ info' = PopData(timestampMap, Head(inside), k)
  BY DEF Decoded
<1>2. /\ Head(inside) \in Timestamps /\ Tail(inside) \in Seq(Timestamps)
      /\ UNCHANGED <<frameInfos, nextFrameInfoIdx>>
  BY DEF IInv, TypeOK, Decoded, decoderVars
<1>3. SideBySide' /\ timestampMap' \in MapType
  BY <1>1, <1>2, PopKeepsInfos
<1>4. info' \in Pointers
  <2>1. NULL \in Pointers
    BY MemoryLengthAssumption DEF NULL, Pointers, Indices
  <2>2. timestampMap \in MapType /\ Place(timestampMap, k) \in Indices
    BY PlaceIs DEF IInv, TypeOK
  <2> QED BY <1>1, <2>1, <2>2, EntriesBound DEF PopData
<1>5. TypeOK' /\ Written'
  <2>1. callback' \in {"idle", "delivers"}
    BY DEF Decoded
  <2> QED BY <1>2, <1>3, <1>4, <2>1 DEF IInv, TypeOK, Decoded, decoderVars, Written
<1>6. AtMostOneFrame'
  <2> SUFFICES ASSUME ~asyncExists' PROVE AtMostOneFrame'
    BY DEF AtMostOneFrame
  <2>1. /\ ~asyncExists /\ ~async' /\ late' = {} /\ OneEntry /\ inside = <<frame>>
        /\ decode' = "idle" /\ inside' = Tail(inside)
    BY DEF IInv, AtMostOneFrame, Decoded, decoderVars
  <2>2. Head(inside) = frame /\ inside' = <<>>
    BY <2>1
  <2>3. Entries(timestampMap') = 0
    BY <1>1, <2>1, <2>2, PopFindsFrame
  <2> QED BY <2>1, <2>2, <2>3 DEF AtMostOneFrame
<1> QED BY <1>3, <1>5, <1>6 DEF IInv

\* The decoder takes the frame, or it does not.
LEMMA CallOk == ASSUME IInv, DecoderAccepts \/ DecoderRefuses PROVE IInv'
<1>1. inside' \in Seq(Timestamps) /\ decode' \in {"idle", "pop"}
  BY DEF IInv, TypeOK, DecoderAccepts, DecoderRefuses
<1>2. TypeOK' /\ SideBySide' /\ Written'
  BY <1>1 DEF IInv, TypeOK, SideBySide, OwnInfo, Written, DecoderAccepts, DecoderRefuses, callbackVars
<1>3. AtMostOneFrame'
  <2>1. CASE DecoderAccepts
    <3>1. inside = <<>> => inside' = <<frame>>
      BY <2>1 DEF DecoderAccepts, IInv, TypeOK
    <3> QED BY <2>1, <3>1 DEF IInv, AtMostOneFrame, OneEntry, DecoderAccepts
  <2>2. CASE DecoderRefuses
    BY <2>2 DEF IInv, AtMostOneFrame, OneEntry, DecoderRefuses
  <2> QED BY <2>1, <2>2
<1> QED BY <1>2, <1>3 DEF IInv

\* Delivering an image, and losing one, leave the rings alone.
LEMMA DeliverOk == ASSUME IInv, DeliverFrame \/ DecoderLosesFrame PROVE IInv'
<1>1. inside' \in Seq(Timestamps) /\ callback' \in {"idle", "delivers"} /\ info' \in Pointers
  <2>1. NULL \in Pointers
    BY MemoryLengthAssumption DEF NULL, Pointers, Indices
  <2> QED BY <2>1 DEF IInv, TypeOK, DeliverFrame, DecoderLosesFrame, callbackVars
<1>2. TypeOK' /\ SideBySide' /\ Written'
  BY <1>1 DEF IInv, TypeOK, SideBySide, OwnInfo, Written, DeliverFrame, DecoderLosesFrame, callbackVars,
     decoderVars
<1>3. AtMostOneFrame'
  BY DEF IInv, AtMostOneFrame, OneEntry, DeliverFrame, DecoderLosesFrame, callbackVars, decoderVars
<1> QED BY <1>2, <1>3 DEF IInv

\* The entries of the old decoder point to deleted infos.
LEMMA SwitchDecoderOk == ASSUME IInv, SwitchDecoder PROVE IInv'
<1>1. timestampMap \in MapType
  BY DEF IInv, TypeOK
<1>2. \A i \in Indices : /\ Deleted(timestampMap.map[i].data) \in Pointers
                         /\ Deleted(timestampMap.map[i].data).decoder # "present"
                         /\ timestampMap.map[i].timestamp \in Timestamps
  BY <1>1 DEF MapType, Pointers, Deleted
<1>3. /\ timestampMap'.map = [i \in Indices |-> [timestamp |-> timestampMap.map[i].timestamp,
                                                data |-> Deleted(timestampMap.map[i].data)]]
      /\ timestampMap'.nextAddIx = timestampMap.nextAddIx
      /\ Entries(timestampMap') = Entries(timestampMap)
      /\ timestampMap' \in MapType
  BY <1>1, <1>2 DEF SwitchDecoder, MapType, Entries
<1>4. TypeOK'
  <2>1. 0 \in Indices
    BY MemoryLengthAssumption DEF Indices
  <2>2. async' \in BOOLEAN
    BY DEF SwitchDecoder, IInv, TypeOK
  <2>3. late' \subseteq Timestamps
    BY DEF SwitchDecoder, IInv, TypeOK, Range
  <2>4. NULL \in Pointers
    BY <2>1 DEF NULL, Pointers
  <2> QED BY <1>3, <2>1, <2>2, <2>3, <2>4 DEF SwitchDecoder, IInv, TypeOK
<1>5. ASSUME NEW d \in 1..Entries(timestampMap') PROVE OwnInfo(timestampMap, d)'
  <2>1. d \in 1..(L - 1)
    BY <1>1, <1>3, EntriesBound, MemoryLengthAssumption DEF L
  <2>2. Minus(timestampMap.nextAddIx, d) \in Indices
    BY <1>1, <2>1, EntriesBound, MinusIs
  <2> QED BY <1>2, <1>3, <2>2 DEF OwnInfo
<1>6. Written'
  BY DEF SwitchDecoder, OutsideDecode, Written
<1>7. AtMostOneFrame'
  <2>1. ~asyncExists => ~async'
    BY Zenon DEF SwitchDecoder
  <2>2. ~asyncExists => inside = <<>> /\ decode = "idle" /\ late = {}
    BY DEF SwitchDecoder, OutsideDecode, IInv, AtMostOneFrame
  <2>3. ~asyncExists => late' = {}
    BY <2>2 DEF SwitchDecoder, Range
  <2> QED BY <1>3, <2>1, <2>2, <2>3 DEF SwitchDecoder, IInv, AtMostOneFrame
<1> QED BY <1>4, <1>5, <1>6, <1>7 DEF IInv, SideBySide

-----------------------------------------------------------------------------
\* What a released decoder takes from the map disturbs none of the other entries.
LEMMA DecodedLateOk ==
  ASSUME IInv, NEW timestamp \in Timestamps, DecodedLate(timestamp)
  PROVE  IInv'
<1>1. PICK k \in 0..Entries(timestampMap) : timestampMap' = Popped(timestampMap, timestamp, k)
  BY DEF DecodedLate
<1>2. UNCHANGED <<frameInfos, nextFrameInfoIdx>>
  BY DEF DecodedLate, decoderVars
<1>3. SideBySide' /\ timestampMap' \in MapType
  BY <1>1, <1>2, PopKeepsInfos
<1>4. TypeOK' /\ Written'
  BY <1>3 DEF IInv, TypeOK, DecodedLate, decoderVars, callbackVars, Written
<1>5. AtMostOneFrame'
  BY DEF IInv, AtMostOneFrame, DecodedLate
<1> QED BY <1>3, <1>4, <1>5 DEF IInv

\* The invariant is inductive.
LEMMA Inductive == IInv /\ [Next]_vars => IInv'
<1> SUFFICES ASSUME IInv, [Next]_vars PROVE IInv'
  OBVIOUS
<1>1. CASE UNCHANGED vars
  BY <1>1 DEF vars, decoderVars, callbackVars, IInv, TypeOK, SideBySide, OwnInfo, AtMostOneFrame,
     OneEntry, Written
<1>2. CASE Next
  BY <1>2, DecodeFrameOk, MapFrameOk, CallOk, PopFrameOk, DecodedOk, DeliverOk, SwitchDecoderOk,
     DecodedLateOk
  DEF Next
<1> QED BY <1>1, <1>2

\* No info a map entry points to is overwritten for another frame, for every
\* length of the rings and all timestamps: Decode may be called at any time with
\* respect to the decoder's callback, and to those of decoders that are no more.
THEOREM InfosNotOvertaken == Spec => []EntriesPointToOwnInfo
<1>1. IInv => EntriesPointToOwnInfo
  <2> SUFFICES ASSUME IInv, NEW k \in 0..(Entries(timestampMap) - 1),
                      timestampMap.map[Place(timestampMap, k)].data.decoder = "present"
               PROVE  frameInfos[timestampMap.map[Place(timestampMap, k)].data.slot]
                        = timestampMap.map[Place(timestampMap, k)].timestamp
    BY DEF EntriesPointToOwnInfo
  <2> DEFINE d == Entries(timestampMap) - k
  <2>1. /\ timestampMap \in MapType
        /\ Entries(timestampMap) \in 0..(L - 1) /\ L \in Nat
    BY EntriesBound, MemoryLengthAssumption DEF IInv, TypeOK, L
  <2>2. k \in 0..Entries(timestampMap) /\ k < Entries(timestampMap) /\ d \in 1..Entries(timestampMap)
    BY <2>1
  <2>3. Place(timestampMap, k) = Minus(timestampMap.nextAddIx, d)
    BY <2>1, <2>2, PlaceIs
  <2>4. OwnInfo(timestampMap, d)
    BY <2>2 DEF IInv, SideBySide
  <2> QED BY <2>3, <2>4 DEF OwnInfo
<1> QED BY <1>1, InitOk, Inductive, PTL DEF Spec

\* With synchronous decoders no image is dropped and none is given the times of
\* another frame.
THEOREM SynchronousDecoding == Spec => SynchronousIsExact
<1> DEFINE Exact == ~asyncExists /\ Len(inside') < Len(inside)
             => /\ callback' = "delivers" /\ Head(inside) = frame
                /\ info'.decoder = "present" /\ frameInfos[info'.slot] = frame
<1>1. IInv /\ [Next]_vars => [Exact]_vars
  <2> SUFFICES ASSUME IInv, Next, ~asyncExists, Len(inside') < Len(inside)
               PROVE  /\ callback' = "delivers" /\ Head(inside) = frame
                      /\ info'.decoder = "present" /\ frameInfos[info'.slot] = frame
    BY DEF Exact
  <2>1. inside # <<>> /\ inside = <<frame>> /\ OneEntry /\ ~async /\ decode = "idle"
    <3>1. IInv'
      BY Inductive
    <3>2. Len(inside') \in Nat /\ (inside = <<>> => Len(inside) = 0)
      BY <3>1 DEF IInv, TypeOK
    <3>3. inside # <<>>
      BY <3>2
    <3> QED BY <3>3 DEF IInv, AtMostOneFrame
  <2>2. Decoded
    <3>1. inside' # inside
      OBVIOUS
    <3>2. ~SwitchDecoder /\ ~DecoderLosesFrame /\ ~DecoderAccepts
      BY <2>1 DEF DecoderLosesFrame, SwitchDecoder, OutsideDecode, DecoderAccepts
    <3>3. ~MapFrame /\ ~DecoderRefuses /\ ~PopFrame /\ ~DeliverFrame
      BY <3>1 DEF MapFrame, DecoderRefuses, PopFrame, DeliverFrame
    <3>4. \A timestamp \in Timestamps : ~DecodeFrame(timestamp) /\ ~DecodedLate(timestamp)
      BY <3>1 DEF DecodeFrame, DecodedLate
    <3> QED BY <3>2, <3>3, <3>4 DEF Next
  <2>3. PICK k \in 0..Entries(timestampMap) :
          /\ StopsAt(timestampMap, frame, k)
          /\ info' = PopData(timestampMap, frame, k)
    BY <2>1, <2>2 DEF Decoded
  <2>4. /\ info' = [decoder |-> "present", slot |-> Minus(nextFrameInfoIdx, 1)]
        /\ frameInfos[Minus(nextFrameInfoIdx, 1)] = frame
    BY <2>1, <2>3, PopFindsFrame
  <2>5. info' # NULL
    BY <2>4 DEF NULL
  <2> QED BY <2>1, <2>2, <2>4, <2>5 DEF Decoded
<1> QED BY <1>1, InitOk, Inductive, PTL DEF Spec, SynchronousIsExact
=============================================================================
