------------------------ MODULE ChannelAssembly_proofs ------------------------
(***************************************************************************)
(* For all metablocks and all blocks that are read, however many: the flat *)
(* storage of a channel holds together, and what the channel presents is   *)
(* what the file says.                                                     *)
(***************************************************************************)
EXTENDS ChannelAssembly, FoldLemmas, TLAPS

SegmentEnd(c, k) == c.segments[k].start_index + c.segments[k].sample_count

\* Segments cover the samples end to end.
Covered(c) ==
    /\ c.segments # <<>> /\ c.timestamps_ns = <<>>
    /\ \A k \in DOMAIN c.segments :
          c.segments[k].start_index = IF k = 1 THEN 0 ELSE SegmentEnd(c, k - 1)
    /\ SegmentEnd(c, Len(c.segments)) = Len(c.samples)

BuilderFields == {"data_type", "state", "samples", "segments", "timestamps_ns",
                  "last_timestamp_ns"}

IsBuilder(c) == c = [x \in BuilderFields |-> c[x]]

IsTime(t) == t \in Int /\ t <= MaxTime

\* A builder whose storage is that of its state, and its state that of its datatype.
Sound(c) ==
    /\ IsBuilder(c)
    /\ c.state \in BuilderStates /\ c.data_type \in DataTypes
    /\ c.state = "Unsupported" <=> c.data_type = "unsupported"
    /\ c.state = "Variable" <=> c.data_type \in VariableTypes
    /\ c.state = "Equidistant" => c.data_type \in NumericTypes
    /\ c.samples \in Seq(Nat)
    /\ c.segments \in Seq(Segment)
    /\ \A k \in DOMAIN c.segments : IsTime(c.segments[k].start)
    /\ c.timestamps_ns \in Seq(Int)
    /\ c.last_timestamp_ns = NoTime \/ IsTime(c.last_timestamp_ns)
    /\ c.state = "Pending" => c.samples = <<>>
    /\ IF c.state = "Equidistant" THEN Covered(c)
       ELSE c.segments = <<>> /\ Len(c.timestamps_ns) = Len(c.samples)

Stored ==
    /\ DOMAIN builders = Indices
    /\ \A ch \in Indices : Sound(builders[ch])

---------------------------------------------------------------------------
(* Sums of deltas. *)

LEMMA SumOverIsSum ==
    ASSUME NEW D, IsFiniteSet(D), NEW n, \A x \in D : n[x] \in Int
    PROVE  IsSum(SumOver(D, n), D, n)
  <1>. DEFINE m == [x \in D |-> n[x]]
              pick == [s \in SUBSET D |-> CHOOSE x \in s : TRUE]
              t == CHOOSE it : it = [s \in SUBSET D |->
                      IF s = {} THEN 0
                      ELSE it[s \ {CHOOSE x \in s : TRUE}] + n[CHOOSE x \in s : TRUE]]
  <1>1. SumOver(D, n) = t[D]
    BY Zenon DEF SumOver, FoldSet, MapThenFoldSet
  <1>2. ASSUME NEW s \in SUBSET D, s # {}
        PROVE  (CHOOSE x \in s : TRUE) \in s
    BY <1>2
  <1>3. Picks(pick, D)
    BY <1>2 DEF Picks
  <1>4. m \in [D -> Int]
    OBVIOUS
  <1>5. \A s \in SUBSET D : s # {} =>
           pick[s] = (CHOOSE x \in s : TRUE) /\ m[pick[s]] = n[CHOOSE x \in s : TRUE]
    BY <1>2
  <1>. HIDE DEF m, pick
  <1>6. PICK w : Summing(w, D, m, pick)
    BY <1>3, <1>4, SumExists
  <1>7. w = [s \in SUBSET D |->
                IF s = {} THEN 0
                ELSE w[s \ {CHOOSE x \in s : TRUE}] + n[CHOOSE x \in s : TRUE]]
    BY <1>5, <1>6 DEF Summing
  <1>8. t = [s \in SUBSET D |->
                IF s = {} THEN 0
                ELSE t[s \ {CHOOSE x \in s : TRUE}] + n[CHOOSE x \in s : TRUE]]
    BY <1>7, Zenon
  <1>. HIDE DEF t
  <1>9. Adds(t, D, n, pick)
    <2>. SUFFICES ASSUME NEW s \in SUBSET D
                  PROVE  t[s] = IF s = {} THEN 0 ELSE t[s \ {pick[s]}] + n[pick[s]]
      BY DEF Adds
    <2>1. t[s] = IF s = {} THEN 0
                 ELSE t[s \ {CHOOSE x \in s : TRUE}] + n[CHOOSE x \in s : TRUE]
      BY <1>8
    <2>2. s # {} => pick[s] = CHOOSE x \in s : TRUE
      BY <1>5
    <2>. QED  BY <2>1, <2>2, Zenon
  <1>10. IsSum(SumOver(D, n), D, n)
    BY <1>1, <1>3, <1>9 DEF IsSum
  <1>. QED  BY <1>10

LEMMA SumOverNothing == \A n : SumOver({}, n) = 0
  <1>. SUFFICES ASSUME NEW n PROVE SumOver({}, n) = 0
    OBVIOUS
  <1>1. IsFiniteSet({}) /\ \A x \in {} : n[x] \in Int
    BY FS_EmptySet
  <1>2. IsSum(SumOver({}, n), {}, n)
    BY <1>1, SumOverIsSum
  <1>. QED  BY <1>2, SumOfNothing

LEMMA SumOverType ==
    ASSUME NEW D, IsFiniteSet(D), NEW n, \A x \in D : n[x] \in Int
    PROVE  SumOver(D, n) \in Int
  BY SumOverIsSum, SumIsInteger

LEMMA SumOverOneMore ==
    ASSUME NEW D, IsFiniteSet(D), NEW n, \A x \in D : n[x] \in Int,
           NEW m, \A x \in D : m[x] = n[x], NEW y, y \notin D, m[y] \in Int
    PROVE  SumOver(D \cup {y}, m) = SumOver(D, n) + m[y]
  <1>1. IsFiniteSet(D \cup {y}) /\ \A x \in D \cup {y} : m[x] \in Int
    BY FS_AddElement
  <1>2. IsSum(SumOver(D \cup {y}, m), D \cup {y}, m) /\ IsSum(SumOver(D, n), D, n)
    BY <1>1, SumOverIsSum
  <1>3. IsSum(SumOver(D, n), D, n) /\ IsSum(SumOver(D \cup {y}, m), D \cup {y}, m)
    BY <1>2
  <1>. QED  BY <1>3, SumOfOneMore

\* The first k deltas.
FirstDeltas(deltas, k) == SumOver(1..k, deltas)

LEMMA FirstDeltasStep ==
    ASSUME NEW deltas \in Seq(Int), NEW k \in 1..Len(deltas)
    PROVE  FirstDeltas(deltas, k) = FirstDeltas(deltas, k - 1) + deltas[k]
  <1>. DEFINE D == 1..(k - 1)
  <1>1. /\ IsFiniteSet(D) /\ k \notin D /\ D \cup {k} = 1..k
        /\ (\A x \in D : deltas[x] \in Int) /\ deltas[k] \in Int
    <2>1. IsFiniteSet(D)
      BY FS_Interval
    <2>2. k \notin D /\ D \cup {k} = 1..k
      OBVIOUS
    <2>3. (\A x \in D : deltas[x] \in Int) /\ deltas[k] \in Int
      OBVIOUS
    <2>. QED  BY <2>1, <2>2, <2>3
  <1>. HIDE DEF D
  <1>2. SumOver(D \cup {k}, deltas) = SumOver(D, deltas) + deltas[k]
    BY <1>1, SumOverOneMore
  <1>. QED  BY <1>1, <1>2 DEF FirstDeltas, D

LEMMA FirstDeltasNone == \A deltas : FirstDeltas(deltas, 0) = 0
  <1>1. 1..0 = {}
    OBVIOUS
  <1>. QED  BY <1>1, SumOverNothing DEF FirstDeltas

\* Deltas that are not negative have sums that are not negative.
LEMMA FirstDeltasNat ==
    ASSUME NEW deltas \in Seq(Nat)
    PROVE  \A k \in 0..Len(deltas) : FirstDeltas(deltas, k) \in Nat
  <1>. DEFINE S == {k \in Nat : k \in 0..Len(deltas) => FirstDeltas(deltas, k) \in Nat}
  <1>1. 0 \in S
    BY FirstDeltasNone
  <1>2. ASSUME NEW k \in Nat, k \in S
        PROVE  k + 1 \in S
    <2>. SUFFICES ASSUME k + 1 \in 0..Len(deltas)
                  PROVE  FirstDeltas(deltas, k + 1) \in Nat
      BY <1>2
    <2>1. k + 1 \in 1..Len(deltas) /\ (k + 1) - 1 = k /\ deltas \in Seq(Int)
      OBVIOUS
    <2>2. FirstDeltas(deltas, k + 1) = FirstDeltas(deltas, k) + deltas[k + 1]
      BY <2>1, FirstDeltasStep
    <2>3. FirstDeltas(deltas, k) \in Nat /\ deltas[k + 1] \in Nat
      BY <1>2, <2>1
    <2>. QED  BY <2>2, <2>3
  <1>. HIDE DEF S
  <1>3. \A k \in Nat : k \in S
    BY <1>1, <1>2, Induction
  <1>. QED  BY <1>3 DEF S

\* Once saturated, a time stays there.
LEMMA SaturatedTwice ==
    ASSUME NEW x \in Int, NEW d \in Nat, NEW u \in Nat, NEW v \in Nat, MaxTime \in Nat
    PROVE  saturating_add(saturating_add(x, d + u), v) = saturating_add(x, d + (u + v))
  <1>1. CASE x + (d + u) > MaxTime
    BY <1>1 DEF saturating_add
  <1>2. CASE ~(x + (d + u) > MaxTime)
    BY <1>2 DEF saturating_add
  <1>. QED  BY <1>1, <1>2

\* Each relative stamp is the anchor and the deltas up to it.
LEMMA AccumulateSums ==
    ASSUME NEW x \in Int, NEW d \in Nat, NEW deltas \in Seq(Nat)
    PROVE  LET anchor == saturating_add(x, d)
           IN  /\ Accumulate(anchor, deltas) \in Seq(Int)
               /\ Len(Accumulate(anchor, deltas)) = Len(deltas)
               /\ \A k \in 1..Len(deltas) :
                     Accumulate(anchor, deltas)[k]
                       = saturating_add(x, d + FirstDeltas(deltas, k))
  <1>. DEFINE n == Len(deltas)
              anchor == saturating_add(x, d)
              G == [p \in (1..n) \X Int |-> saturating_add(p[2], deltas[p[1]])]
              t == CHOOSE g : g = [i \in 0..Len(deltas) |->
                       IF i = 0 THEN anchor ELSE saturating_add(g[i - 1], deltas[i])]
  <1>1. Accumulate(anchor, deltas) = [i \in DOMAIN deltas |-> t[i]]
    BY Zenon DEF Accumulate
  <1>2. /\ n \in Nat /\ MaxTime \in Nat /\ anchor \in Int /\ DOMAIN deltas = 1..n
        /\ \A i \in 1..n : deltas[i] \in Nat
    BY BlockAssumption DEF saturating_add
  <1>3. G \in [(1..n) \X Int -> Int]
    BY <1>2 DEF saturating_add
  <1>4. \A i \in 1..n, v \in Int : G[<<i, v>>] = saturating_add(v, deltas[i])
    OBVIOUS
  <1>. HIDE DEF G
  <1>5. PICK u \in [0..n -> Int] : StepsUp(u, n, anchor, G)
    <2>. HIDE DEF n, anchor
    <2>. QED  BY <1>2, <1>3, RecursionOverRange
  <1>6. ASSUME NEW i \in 0..n
        PROVE  u[i] = IF i = 0 THEN anchor ELSE saturating_add(u[i - 1], deltas[i])
    <2>1. i # 0 => i - 1 \in 0..n /\ i \in 1..n
      BY <1>2
    <2>2. u[i] = IF i = 0 THEN anchor ELSE G[<<i, u[i - 1]>>]
      BY <1>5 DEF StepsUp
    <2>3. i # 0 => u[i - 1] \in Int
      BY <2>1
    <2>. HIDE DEF anchor
    <2>. QED  BY <1>4, <2>1, <2>2, <2>3
  <1>7. u = [i \in 0..Len(deltas) |->
                IF i = 0 THEN anchor ELSE saturating_add(u[i - 1], deltas[i])]
    <2>1. u = [i \in 0..n |-> u[i]]
      OBVIOUS
    <2>. HIDE DEF anchor
    <2>. QED  BY <1>6, <2>1
  <1>8. t = [i \in 0..Len(deltas) |->
                IF i = 0 THEN anchor ELSE saturating_add(t[i - 1], deltas[i])]
    BY <1>7, Zenon
  <1>. HIDE DEF t
  <1>. DEFINE S == {k \in Nat : k \in 0..n =>
                       t[k] = saturating_add(x, d + FirstDeltas(deltas, k))}
  <1>9. 0 \in S
    <2>1. t[0] = anchor /\ FirstDeltas(deltas, 0) = 0
      BY <1>2, <1>8, FirstDeltasNone
    <2>. QED  BY <2>1
  <1>10. ASSUME NEW k \in Nat, k \in S
         PROVE  k + 1 \in S
    <2>. SUFFICES ASSUME k + 1 \in 0..n
                  PROVE  t[k + 1] = saturating_add(x, d + FirstDeltas(deltas, k + 1))
      BY <1>10
    <2>1. k + 1 \in 1..n /\ k \in 0..n /\ (k + 1) - 1 = k /\ k + 1 # 0 /\ deltas \in Seq(Int)
      BY <1>2
    <2>2. t[k + 1] = saturating_add(t[k], deltas[k + 1])
      BY <1>8, <2>1
    <2>3. t[k] = saturating_add(x, d + FirstDeltas(deltas, k))
      BY <1>10, <2>1
    <2>4. FirstDeltas(deltas, k + 1) = FirstDeltas(deltas, k) + deltas[k + 1]
      BY <2>1, FirstDeltasStep
    <2>5. FirstDeltas(deltas, k) \in Nat /\ deltas[k + 1] \in Nat
      BY <1>2, <2>1, FirstDeltasNat
    <2>. DEFINE w == FirstDeltas(deltas, k)
                v == deltas[k + 1]
    <2>6. w \in Nat /\ v \in Nat /\ x \in Int /\ d \in Nat /\ MaxTime \in Nat
      BY <1>2, <2>5
    <2>. HIDE DEF w, v
    <2>7. saturating_add(saturating_add(x, d + w), v) = saturating_add(x, d + (w + v))
      BY <2>6, SaturatedTwice
    <2>. QED  BY <2>2, <2>3, <2>4, <2>7 DEF w, v
  <1>11. \A k \in Nat : k \in S
    <2>. HIDE DEF S
    <2>. QED  BY <1>9, <1>10, Induction
  <1>12. \A k \in 1..n : t[k] = saturating_add(x, d + FirstDeltas(deltas, k))
    BY <1>11
  <1>13. \A k \in 1..n : saturating_add(x, d + FirstDeltas(deltas, k)) \in Int
    BY <1>2, FirstDeltasNat DEF saturating_add
  <1>. QED  BY <1>1, <1>2, <1>12, <1>13

---------------------------------------------------------------------------
LEMMA BlockFields ==
    ASSUME NEW b \in Blocks
    PROVE  /\ IsTime(b.start) /\ b.period \in Nat
           /\ b.times \in Seq(Int) /\ b.values \in Seq(Nat)
           /\ \A i \in DOMAIN b.times : IsTime(b.times[i])
           /\ b.kind \in Kinds /\ b.data_type \in DataTypes
           /\ b.data_type # "unsupported"
           /\ b.kind \in {"AbsTimestampData", "ContinuedRelStampData"} =>
                 Len(b.times) = Len(b.values)
           /\ b.kind = "ContinuedRelStampData" => b.times \in Seq(Nat)
           /\ b.kind \in {"StartData", "ContinuedData", "ContinuedRelStampData"} =>
                 b.data_type \in NumericTypes
  <1>1. b \in BlockType
    BY BlockAssumption
  <1>2. /\ b.start \in Int /\ b.period \in Nat /\ b.times \in Seq(Int) /\ b.values \in Seq(Nat)
        /\ b.kind \in Kinds /\ b.data_type \in DataTypes
    BY <1>1 DEF BlockType
  <1>3. /\ b.kind \in {"AbsTimestampData", "ContinuedRelStampData"} =>
                Len(b.times) = Len(b.values)
        /\ b.kind = "ContinuedRelStampData" => \A i \in DOMAIN b.times : b.times[i] >= 0
        /\ b.start <= MaxTime /\ \A i \in DOMAIN b.times : b.times[i] <= MaxTime
        /\ b.data_type # "unsupported"
        /\ b.kind \in {"StartData", "ContinuedData", "ContinuedRelStampData"} =>
                b.data_type \in NumericTypes
    BY BlockAssumption
  <1>4. \A i \in DOMAIN b.times : b.times[i] \in Int
    BY <1>2
  <1>5. ASSUME b.kind = "ContinuedRelStampData"
        PROVE  b.times \in Seq(Nat)
    <2>1. \A i \in 1..Len(b.times) : b.times[i] \in Nat
      BY <1>2, <1>3, <1>5
    <2>. DEFINE deltas == b.times
    <2>2. deltas \in Seq(Int) /\ \A i \in 1..Len(deltas) : deltas[i] \in Nat
      BY <1>2, <2>1
    <2>. HIDE DEF deltas
    <2>3. deltas \in Seq(Nat)
      BY <2>2
    <2>. QED  BY <2>3 DEF deltas
  <1>6. IsTime(b.start) /\ \A i \in DOMAIN b.times : IsTime(b.times[i])
    BY <1>2, <1>3, <1>4 DEF IsTime
  <1>. QED  BY <1>2, <1>3, <1>5, <1>6, Zenon

---------------------------------------------------------------------------
LEMMA UpdatedTime ==
    ASSUME NEW last, last = NoTime \/ IsTime(last), NEW start, IsTime(start),
           NEW period \in Nat, NEW count \in Nat
    PROVE  LET t == update_last_ts_from_segment(last, start, period, count)
           IN  t = NoTime \/ IsTime(t)
  <1>1. count # 0 => (count - 1) * period \in Nat
    OBVIOUS
  <1>2. start \in Int /\ MaxTime \in Nat
    BY BlockAssumption DEF IsTime
  <1>. DEFINE m == (count - 1) * period
  <1>3. count # 0 => m \in Nat
    BY <1>1
  <1>. HIDE DEF m
  <1>4. count # 0 => IsTime(saturating_add(start, m))
    BY <1>2, <1>3 DEF IsTime, saturating_add
  <1>. QED  BY <1>4 DEF update_last_ts_from_segment, m

\* A new segment begins where the samples end.
LEMMA StartKeeps ==
    ASSUME NEW c, NEW b \in Blocks, Sound(c), c.state \in {"Pending", "Equidistant"},
           c.data_type \in NumericTypes
    PROVE  Sound(apply_start(c, b))
  <1>. DEFINE d == apply_start(c, b)
              n == Len(c.segments)
              seg == [start |-> b.start, period |-> b.period,
                      start_index |-> Len(c.samples), sample_count |-> Len(b.values)]
  <1>1. /\ c.samples \in Seq(Nat) /\ c.segments \in Seq(Segment)
        /\ b.values \in Seq(Nat) /\ b.start \in Int /\ b.period \in Nat
        /\ n \in Nat /\ Len(c.samples) \in Nat /\ Len(b.values) \in Nat
    BY BlockFields DEF Sound, IsTime
  <1>2. /\ IsBuilder(d)
        /\ d.state = "Equidistant" /\ d.data_type = c.data_type
        /\ d.samples = c.samples \o b.values
        /\ d.segments = Append(c.segments, seg)
        /\ d.timestamps_ns = c.timestamps_ns
        /\ d.last_timestamp_ns = update_last_ts_from_segment(c.last_timestamp_ns, b.start,
                                                             b.period, Len(b.values))
    <2>1. IsBuilder(c)
      BY DEF Sound
    <2>. QED  BY <2>1 DEF apply_start, IsBuilder, BuilderFields
  <1>. HIDE DEF d
  <1>3. /\ seg \in Segment
        /\ seg.start_index = Len(c.samples) /\ seg.sample_count = Len(b.values)
        /\ IsTime(seg.start)
    BY <1>1, BlockFields DEF Segment
  <1>. HIDE DEF seg
  <1>4. c.timestamps_ns = <<>>
    <2>1. CASE c.state = "Equidistant"
      BY <2>1 DEF Sound, Covered
    <2>2. CASE c.state = "Pending"
      <3>1. Len(c.timestamps_ns) = 0 /\ c.timestamps_ns \in Seq(Int)
        BY <2>2 DEF Sound
      <3>. QED  BY <3>1
    <2>. QED  BY <2>1, <2>2
  <1>5. /\ \A k \in 1..n : d.segments[k] = c.segments[k]
        /\ d.segments[n + 1] = seg
        /\ Len(d.segments) = n + 1 /\ DOMAIN d.segments = 1..(n + 1)
        /\ d.segments \in Seq(Segment) /\ d.segments # <<>>
    <2>1. Append(c.segments, seg) \in Seq(Segment)
      BY <1>1, <1>3
    <2>2. /\ Len(Append(c.segments, seg)) = n + 1
          /\ DOMAIN Append(c.segments, seg) = 1..(n + 1)
          /\ Append(c.segments, seg)[n + 1] = seg
      BY <1>1
    <2>3. \A k \in 1..n : Append(c.segments, seg)[k] = c.segments[k]
      BY <1>1
    <2>4. Append(c.segments, seg) # <<>>
      BY <1>1
    <2>. QED  BY <1>2, <2>1, <2>2, <2>3, <2>4
  <1>6. n # 0 => SegmentEnd(c, n) = Len(c.samples)
    BY <1>1 DEF Sound, Covered
  <1>7. n = 0 => Len(c.samples) = 0
    <2>1. n = 0 => c.state = "Pending"
      BY <1>1 DEF Sound, Covered
    <2>. QED  BY <2>1 DEF Sound
  <1>8. \A k \in 1..n : c.segments[k].start_index = IF k = 1 THEN 0 ELSE SegmentEnd(c, k - 1)
    <2>1. CASE n = 0
      BY <2>1
    <2>2. CASE n # 0
      <3>1. c.state = "Equidistant"
        BY <2>2, <1>1 DEF Sound
      <3>. QED  BY <3>1, <1>1 DEF Sound, Covered
    <2>. QED  BY <2>1, <2>2
  <1>. HIDE DEF n
  <1>9. \A k \in 1..(n + 1) :
           d.segments[k].start_index = IF k = 1 THEN 0 ELSE SegmentEnd(d, k - 1)
    <2>. SUFFICES ASSUME NEW k \in 1..(n + 1)
                  PROVE  d.segments[k].start_index = IF k = 1 THEN 0 ELSE SegmentEnd(d, k - 1)
      OBVIOUS
    <2>1. k # 1 => k - 1 \in 1..n
      BY <1>1
    <2>2. CASE k = n + 1
      <3>1. d.segments[k].start_index = Len(c.samples)
        BY <2>2, <1>3, <1>5
      <3>2. k # 1 => SegmentEnd(d, k - 1) = SegmentEnd(c, k - 1)
        BY <2>1, <1>5 DEF SegmentEnd
      <3>3. k - 1 = n
        BY <2>2, <1>1
      <3>. QED  BY <3>1, <3>2, <3>3, <2>2, <1>1, <1>6, <1>7
    <2>3. CASE k # n + 1
      <3>1. k \in 1..n
        BY <2>3, <1>1
      <3>2. d.segments[k] = c.segments[k]
        BY <3>1, <1>5
      <3>3. k # 1 => SegmentEnd(d, k - 1) = SegmentEnd(c, k - 1)
        BY <2>1, <1>5 DEF SegmentEnd
      <3>. QED  BY <3>1, <3>2, <3>3, <1>8
    <2>. QED  BY <2>2, <2>3
  <1>. USE DEF n
  <1>10. SegmentEnd(d, Len(d.segments)) = Len(d.samples)
    <2>1. d.segments[Len(d.segments)] = seg
      BY <1>5
    <2>2. Len(d.samples) = Len(c.samples) + Len(b.values)
      BY <1>1, <1>2
    <2>. QED  BY <2>1, <2>2, <1>3 DEF SegmentEnd
  <1>11. Covered(d)
    BY <1>2, <1>4, <1>5, <1>9, <1>10 DEF Covered
  <1>12. /\ d.data_type \in DataTypes /\ d.data_type # "unsupported"
         /\ d.data_type \in NumericTypes /\ d.data_type \notin VariableTypes
    BY <1>2 DEF DataTypes, NumericTypes, VariableTypes
  <1>13. d.samples \in Seq(Nat) /\ d.state \in BuilderStates /\ d.timestamps_ns \in Seq(Int)
    BY <1>1, <1>2 DEF BuilderStates, Sound
  <1>14. d.last_timestamp_ns = NoTime \/ IsTime(d.last_timestamp_ns)
    BY <1>1, <1>2, UpdatedTime, BlockFields DEF Sound
  <1>15. \A k \in DOMAIN d.segments : IsTime(d.segments[k].start)
    <2>1. \A k \in 1..n : IsTime(c.segments[k].start)
      BY <1>1 DEF Sound
    <2>2. \A k \in 1..(n + 1) : k \in 1..n \/ k = n + 1
      BY <1>1
    <2>. QED  BY <1>3, <1>5, <2>1, <2>2
  <1>16. Sound(d)
    BY <1>2, <1>5, <1>11, <1>12, <1>13, <1>14, <1>15, Zenon DEF Sound
  <1>. QED  BY <1>16 DEF d

\* The last segment grows with the samples.
LEMMA ContinuedKeeps ==
    ASSUME NEW c, NEW b \in Blocks, Sound(c), c.state = "Equidistant"
    PROVE  Sound(apply_continued(c, b))
  <1>. DEFINE d == apply_continued(c, b)
              n == Len(c.segments)
              count == c.segments[n].sample_count + Len(b.values)
  <1>1. /\ c.samples \in Seq(Nat) /\ c.segments \in Seq(Segment)
        /\ b.values \in Seq(Nat) /\ Covered(c)
        /\ n \in Nat /\ Len(c.samples) \in Nat /\ Len(b.values) \in Nat
    BY BlockFields DEF Sound
  <1>2. n \in 1..n /\ c.segments[n] \in Segment
    BY <1>1 DEF Covered
  <1>3. /\ IsBuilder(d)
        /\ d.state = "Equidistant" /\ d.data_type = c.data_type
        /\ d.samples = c.samples \o b.values
        /\ d.segments = [c.segments EXCEPT ![n].sample_count = count]
        /\ d.timestamps_ns = c.timestamps_ns
        /\ d.last_timestamp_ns =
              update_last_ts_from_segment(c.last_timestamp_ns, c.segments[n].start,
                                          c.segments[n].period, count)
    <2>1. IsBuilder(c)
      BY DEF Sound
    <2>. QED  BY <2>1 DEF apply_continued, IsBuilder, BuilderFields
  <1>. HIDE DEF d
  <1>4. /\ c.segments[n].start_index \in Nat /\ c.segments[n].sample_count \in Nat
        /\ count \in Nat
    <2>1. c.segments[n].start_index \in Nat /\ c.segments[n].sample_count \in Nat
      BY <1>2 DEF Segment
    <2>2. Len(b.values) \in Nat
      BY <1>1
    <2>. QED  BY <2>1, <2>2
  <1>5. PICK seg \in Segment : /\ d.segments = [c.segments EXCEPT ![n] = seg]
                               /\ seg.start_index = c.segments[n].start_index
                               /\ seg.sample_count = count
                               /\ seg.start = c.segments[n].start
    <2>1. [c.segments[n] EXCEPT !.sample_count = count] \in Segment
      BY <1>2, <1>4 DEF Segment
    <2>2. /\ [c.segments[n] EXCEPT !.sample_count = count].start_index
                = c.segments[n].start_index
          /\ [c.segments[n] EXCEPT !.sample_count = count].sample_count = count
          /\ [c.segments[n] EXCEPT !.sample_count = count].start = c.segments[n].start
      BY <1>2 DEF Segment
    <2>. QED  BY <1>3, <2>1, <2>2
  <1>. HIDE DEF count
  <1>6. /\ d.segments \in Seq(Segment) /\ Len(d.segments) = n /\ DOMAIN d.segments = 1..n
        /\ d.segments[n] = seg
        /\ \A k \in 1..n : k # n => d.segments[k] = c.segments[k]
    BY <1>1, <1>2, <1>5
  <1>7. \A k \in 1..n : d.segments[k].start_index = IF k = 1 THEN 0 ELSE SegmentEnd(d, k - 1)
    <2>. SUFFICES ASSUME NEW k \in 1..n
                  PROVE  d.segments[k].start_index = IF k = 1 THEN 0 ELSE SegmentEnd(d, k - 1)
      OBVIOUS
    <2>1. d.segments[k].start_index = c.segments[k].start_index
      BY <1>5, <1>6
    <2>2. k # 1 => k - 1 \in 1..n /\ k - 1 # n
      BY <1>1
    <2>3. k # 1 => SegmentEnd(d, k - 1) = SegmentEnd(c, k - 1)
      BY <2>2, <1>6 DEF SegmentEnd
    <2>4. c.segments[k].start_index = IF k = 1 THEN 0 ELSE SegmentEnd(c, k - 1)
      BY <1>1 DEF Covered
    <2>. QED  BY <2>1, <2>3, <2>4
  <1>8. SegmentEnd(d, n) = Len(d.samples)
    <2>1. SegmentEnd(c, n) = Len(c.samples)
      BY <1>1 DEF Covered
    <2>2. Len(d.samples) = Len(c.samples) + Len(b.values)
      BY <1>1, <1>3
    <2>3. SegmentEnd(d, n) = c.segments[n].start_index + count
      BY <1>5, <1>6 DEF SegmentEnd
    <2>4. count = c.segments[n].sample_count + Len(b.values)
      BY DEF count
    <2>5. c.segments[n].start_index + c.segments[n].sample_count = Len(c.samples)
      BY <2>1 DEF SegmentEnd
    <2>6. Len(b.values) \in Nat
      BY <1>1
    <2>7. c.segments[n].start_index + (c.segments[n].sample_count + Len(b.values))
             = (c.segments[n].start_index + c.segments[n].sample_count) + Len(b.values)
      BY <2>6, <1>4
    <2>8. c.segments[n].start_index + count = Len(c.samples) + Len(b.values)
      BY <2>4, <2>5, <2>7, Zenon
    <2>. QED  BY <2>2, <2>3, <2>8, Zenon
  <1>9. Covered(d)
    <2>1. d.segments # <<>> /\ d.timestamps_ns = <<>>
      BY <1>1, <1>2, <1>3, <1>6 DEF Covered
    <2>. QED  BY <2>1, <1>6, <1>7, <1>8 DEF Covered
  <1>10. d.samples \in Seq(Nat) /\ d.timestamps_ns \in Seq(Int) /\ d.data_type \in NumericTypes
    BY <1>1, <1>3 DEF Sound
  <1>11. d.state \in BuilderStates
    BY <1>3 DEF BuilderStates
  <1>12. /\ d.data_type \in DataTypes /\ d.data_type # "unsupported"
         /\ d.data_type \notin VariableTypes
    <2>1. \A t \in NumericTypes : t \in DataTypes /\ t # "unsupported" /\ t \notin VariableTypes
      BY DEF DataTypes, NumericTypes, VariableTypes
    <2>2. d.data_type \in NumericTypes
      BY <1>10
    <2>. QED  BY <2>1, <2>2
  <1>13. d.last_timestamp_ns = NoTime \/ IsTime(d.last_timestamp_ns)
    <2>1. c.segments[n].period \in Nat /\ IsTime(c.segments[n].start)
      <3>1. n \in DOMAIN c.segments /\ c.segments[n].period \in Nat
        BY <1>2 DEF Segment
      <3>2. \A k \in DOMAIN c.segments : IsTime(c.segments[k].start)
        BY DEF Sound
      <3>. QED  BY <3>1, <3>2, Zenon
    <2>2. c.last_timestamp_ns = NoTime \/ IsTime(c.last_timestamp_ns)
      BY DEF Sound
    <2>. DEFINE t == update_last_ts_from_segment(c.last_timestamp_ns, c.segments[n].start,
                                                 c.segments[n].period, count)
    <2>3. t = NoTime \/ IsTime(t)
      BY <1>4, <2>1, <2>2, UpdatedTime
    <2>. QED  BY <1>3, <2>3
  <1>14. \A k \in DOMAIN d.segments : IsTime(d.segments[k].start)
    <2>1. \A k \in 1..n : IsTime(c.segments[k].start)
      BY <1>1 DEF Sound
    <2>. QED  BY <1>2, <1>5, <1>6, <2>1
  <1>15. Sound(d)
    BY <1>3, <1>6, <1>9, <1>10, <1>11, <1>12, <1>13, <1>14, Zenon DEF Sound
  <1>. QED  BY <1>15 DEF d

\* The values of a block and as many timestamps are put behind those of c.
Extended(c, b, d, times) ==
    /\ times \in Seq(Int) /\ Len(times) = Len(b.values)
    /\ IsBuilder(d)
    /\ d.data_type = c.data_type
    /\ d.samples = c.samples \o b.values
    /\ d.segments = c.segments
    /\ d.timestamps_ns = c.timestamps_ns \o times
    /\ d.state = IF c.state = "Pending" THEN "Timestamped" ELSE c.state
    /\ d.last_timestamp_ns = LastOr(times, c.last_timestamp_ns)

\* Timestamps and values grow together.
LEMMA TimestampedKeeps ==
    ASSUME NEW c, NEW b \in Blocks, Sound(c), NEW d, NEW times,
           c.state \in {"Pending", "Timestamped", "Variable"},
           Extended(c, b, d, times), \A i \in DOMAIN times : IsTime(times[i])
    PROVE  Sound(d)
  <1>1. /\ c.samples \in Seq(Nat) /\ b.values \in Seq(Nat)
        /\ c.timestamps_ns \in Seq(Int) /\ c.segments = <<>>
        /\ Len(c.timestamps_ns) = Len(c.samples)
        /\ c.data_type # "unsupported" /\ c.data_type \in DataTypes
        /\ times \in Seq(Int)
    BY BlockFields DEF Sound, Extended
  <1>2. /\ d.segments = <<>> /\ d.segments \in Seq(Segment)
        /\ \A k \in DOMAIN d.segments : IsTime(d.segments[k].start)
    BY <1>1 DEF Extended
  <1>3. d.samples \in Seq(Nat) /\ Len(d.samples) = Len(c.samples) + Len(b.values)
    BY <1>1 DEF Extended
  <1>4. /\ d.timestamps_ns \in Seq(Int)
        /\ Len(d.timestamps_ns) = Len(c.timestamps_ns) + Len(times)
    <2>1. d.timestamps_ns = c.timestamps_ns \o times
      BY DEF Extended
    <2>2. c.timestamps_ns \in Seq(Int) /\ times \in Seq(Int)
      BY <1>1
    <2>. QED  BY <2>1, <2>2
  <1>5. Len(d.timestamps_ns) = Len(d.samples)
    BY <1>1, <1>3, <1>4 DEF Extended
  <1>6. d.last_timestamp_ns = NoTime \/ IsTime(d.last_timestamp_ns)
    <2>1. c.last_timestamp_ns = NoTime \/ IsTime(c.last_timestamp_ns)
      BY DEF Sound
    <2>2. times # <<>> => Len(times) \in DOMAIN times
      BY <1>1
    <2>. QED  BY <2>1, <2>2 DEF Extended, LastOr
  <1>7. /\ d.state \in {"Timestamped", "Variable"} /\ d.data_type = c.data_type /\ IsBuilder(d)
        /\ d.state = "Variable" <=> d.data_type \in VariableTypes
    BY DEF Extended, Sound
  <1>. QED  BY <1>1, <1>2, <1>3, <1>4, <1>5, <1>6, <1>7, Zenon DEF Sound, BuilderStates

LEMMA AbsExtends ==
    ASSUME NEW c, NEW b \in Blocks, IsBuilder(c), b.kind = "AbsTimestampData"
    PROVE  /\ Extended(c, b, apply_abs_timestamped(c, b), b.times)
           /\ \A i \in DOMAIN b.times : IsTime(b.times[i])
  <1>1. b.times \in Seq(Int) /\ Len(b.times) = Len(b.values)
    BY BlockFields
  <1>2. \A i \in DOMAIN b.times : IsTime(b.times[i])
    BY BlockFields
  <1>. QED  BY <1>1, <1>2 DEF Extended, apply_abs_timestamped, IsBuilder, BuilderFields

LEMMA RelExtends ==
    ASSUME NEW c, NEW b \in Blocks, IsBuilder(c), b.kind = "ContinuedRelStampData",
           c.state = "Timestamped", IsTime(c.last_timestamp_ns)
    PROVE  LET times == Accumulate(c.last_timestamp_ns, b.times)
           IN  /\ Extended(c, b, apply_rel_timestamped(c, b), times)
               /\ \A i \in DOMAIN times : IsTime(times[i])
  <1>. DEFINE anchor == c.last_timestamp_ns
              times == Accumulate(anchor, b.times)
  <1>1. b.times \in Seq(Nat) /\ Len(b.times) = Len(b.values)
    BY BlockFields
  <1>2. anchor \in Int /\ anchor = saturating_add(anchor, 0) /\ 0 \in Nat /\ MaxTime \in Nat
    BY BlockAssumption DEF IsTime, saturating_add
  <1>. HIDE DEF anchor
  <1>3. /\ times \in Seq(Int) /\ Len(times) = Len(b.times)
        /\ \A k \in 1..Len(b.times) :
              times[k] = saturating_add(anchor, 0 + FirstDeltas(b.times, k))
    <2>. DEFINE t == Accumulate(saturating_add(anchor, 0), b.times)
    <2>1. /\ t \in Seq(Int) /\ Len(t) = Len(b.times)
          /\ \A k \in 1..Len(b.times) :
                t[k] = saturating_add(anchor, 0 + FirstDeltas(b.times, k))
      BY <1>1, <1>2, AccumulateSums
    <2>2. t = times
      BY <1>2
    <2>. HIDE DEF t, times
    <2>. QED  BY <2>1, <2>2
  <1>4. \A k \in 1..Len(b.times) : FirstDeltas(b.times, k) \in Nat
    BY <1>1, FirstDeltasNat
  <1>. HIDE DEF times
  <1>5. \A k \in DOMAIN times : IsTime(times[k])
    BY <1>2, <1>3, <1>4 DEF IsTime, saturating_add
  <1>6. Extended(c, b, apply_rel_timestamped(c, b), times)
    BY <1>1, <1>3 DEF Extended, apply_rel_timestamped, IsBuilder, BuilderFields, times, anchor
  <1>. QED  BY <1>5, <1>6 DEF times, anchor

\* What a block without an error finds.
Fitting(c, b) ==
    /\ b.data_type = c.data_type
    /\ b.kind \in {"StartData", "ContinuedData", "ContinuedRelStampData"} =>
          c.data_type \in NumericTypes
    /\ b.kind = "StartData" => c.state \in {"Pending", "Equidistant"}
    /\ b.kind = "ContinuedData" => c.state = "Equidistant"
    /\ b.kind = "AbsTimestampData" => c.state \in {"Pending", "Timestamped", "Variable"}
    /\ b.kind = "ContinuedRelStampData" =>
          c.state = "Timestamped" /\ c.last_timestamp_ns # NoTime

LEMMA ErrorFree ==
    ASSUME Stored, NEW b \in Blocks, Error(b) = "none"
    PROVE  /\ b.channel_index \in Indices
           /\ b.kind # "Skipped" => Fitting(builders[b.channel_index], b)
  <1>. DEFINE c == builders[b.channel_index]
  <1>1. b.channel_index \in Indices
    BY DEF Error
  <1>2. Sound(c) /\ c.state \in BuilderStates /\ b.kind \in Kinds
    BY <1>1, BlockFields DEF Stored, Sound
  <1>3. ASSUME b.kind # "Skipped"
        PROVE  Fitting(c, b)
    <2>1. b.data_type = c.data_type
      BY <1>1, <1>3 DEF Error
    <2>2. c.state # "Unsupported"
      BY <2>1, <1>2, BlockFields DEF Sound
    <2>3. /\ ~(b.kind = "ContinuedData" /\ c.state = "Pending")
          /\ ~(b.kind = "ContinuedRelStampData" /\ c.last_timestamp_ns = NoTime)
          /\ ~Mixed(c, b)
      BY <1>1, <1>3, <2>1 DEF Error
    <2>4. b.kind \in {"StartData", "ContinuedData", "ContinuedRelStampData"} =>
             c.data_type \in NumericTypes
      BY <2>1, BlockFields
    <2>. QED  BY <1>2, <2>1, <2>2, <2>3, <2>4 DEF Mixed, BuilderStates, Fitting
  <1>. QED  BY <1>1, <1>3

\* A block that fits keeps the storage together.
LEMMA AppliedKeeps ==
    ASSUME NEW c, NEW b \in Blocks, Sound(c), b.kind # "Skipped" => Fitting(c, b)
    PROVE  Sound(Applied(c, b))
  <1>1. b.kind \in Kinds /\ IsBuilder(c)
    BY BlockFields DEF Sound
  <1>2. CASE b.kind = "Skipped"
    BY <1>2 DEF Applied
  <1>3. CASE b.kind = "StartData"
    BY <1>3, StartKeeps DEF Applied, Fitting
  <1>4. CASE b.kind = "ContinuedData"
    BY <1>4, ContinuedKeeps DEF Applied, Fitting
  <1>5. CASE b.kind = "AbsTimestampData"
    <2>. DEFINE d == apply_abs_timestamped(c, b)
    <2>1. Extended(c, b, d, b.times) /\ \A i \in DOMAIN b.times : IsTime(b.times[i])
      BY <1>1, <1>5, AbsExtends
    <2>2. Applied(c, b) = d /\ c.state \in {"Pending", "Timestamped", "Variable"}
      BY <1>5 DEF Applied, Fitting
    <2>. HIDE DEF d
    <2>. QED  BY <2>1, <2>2, TimestampedKeeps
  <1>6. CASE b.kind = "ContinuedRelStampData"
    <2>. DEFINE times == Accumulate(c.last_timestamp_ns, b.times)
                d == apply_rel_timestamped(c, b)
    <2>1. c.state = "Timestamped" /\ IsTime(c.last_timestamp_ns)
      BY <1>6 DEF Fitting, Sound
    <2>2. Extended(c, b, d, times) /\ \A i \in DOMAIN times : IsTime(times[i])
      BY <1>1, <1>6, <2>1, RelExtends
    <2>3. Applied(c, b) = d /\ c.state \in {"Pending", "Timestamped", "Variable"}
      BY <1>6, <2>1 DEF Applied
    <2>. HIDE DEF d, times
    <2>. QED  BY <2>2, <2>3, TimestampedKeeps
  <1>. QED  BY <1>1, <1>2, <1>3, <1>4, <1>5, <1>6 DEF Kinds

LEMMA DefinitionIs ==
    ASSUME NEW ch \in Indices
    PROVE  Definition(ch) \in [index : Nat, name : STRING, data_type : DataTypes]
  <1>. DEFINE T == {i \in DOMAIN Channels : Channels[i].index = ch}
  <1>1. Channels \in Seq([index : Nat, name : STRING, data_type : DataTypes])
    BY MetaAssumption
  <1>2. Len(Channels) \in Nat /\ T \in SUBSET (1..Len(Channels)) /\ T # {}
    BY <1>1 DEF Indices
  <1>3. PICK i \in T : \A j \in T : i >= j
    <2>. HIDE DEF T
    <2>. QED  BY <1>2, LargestOfRange
  <1>4. /\ i \in DOMAIN Channels /\ Channels[i].index = ch
        /\ \A j \in DOMAIN Channels : Channels[j].index = ch => j <= i
    BY <1>1, <1>3
  <1>. DEFINE l == CHOOSE k \in DOMAIN Channels :
                      /\ Channels[k].index = ch
                      /\ \A j \in DOMAIN Channels : Channels[j].index = ch => j <= k
  <1>5. l \in DOMAIN Channels
    BY <1>4, Zenon
  <1>6. Definition(ch) = Channels[l]
    BY Zenon DEF Definition
  <1>. HIDE DEF l, T
  <1>7. Channels[l] \in [index : Nat, name : STRING, data_type : DataTypes]
    <2>. DEFINE R == [index : Nat, name : STRING, data_type : DataTypes]
    <2>1. Channels \in Seq(R)
      BY <1>1
    <2>. HIDE DEF R
    <2>2. Channels[l] \in R
      BY <1>5, <2>1
    <2>. QED  BY <2>2 DEF R
  <1>. QED  BY <1>6, <1>7

LEMMA NewIsSound ==
    ASSUME NEW ch \in Indices
    PROVE  Sound(NewBuilder(ch))
  <1>. DEFINE c == NewBuilder(ch)
  <1>1. /\ c.samples = <<>> /\ c.segments = <<>> /\ c.timestamps_ns = <<>>
        /\ c.data_type = Definition(ch).data_type
        /\ c.state = initial_state_for(Definition(ch).data_type)
        /\ c.last_timestamp_ns = NoTime
        /\ IsBuilder(c)
    BY DEF NewBuilder, IsBuilder, BuilderFields
  <1>2. /\ c.state \in {"Unsupported", "Variable", "Pending"}
        /\ c.state = "Unsupported" <=> c.data_type = "unsupported"
        /\ c.state = "Variable" <=> c.data_type \in VariableTypes
    BY <1>1 DEF initial_state_for, VariableTypes
  <1>3. /\ c.samples \in Seq(Nat) /\ c.segments \in Seq(Segment)
        /\ c.timestamps_ns \in Seq(Int)
        /\ Len(c.timestamps_ns) = Len(c.samples)
        /\ \A k \in DOMAIN c.segments : IsTime(c.segments[k].start)
    BY <1>1
  <1>4. c.data_type \in DataTypes
    BY <1>1, DefinitionIs
  <1>. QED  BY <1>1, <1>2, <1>3, <1>4, Zenon DEF Sound, BuilderStates

LEMMA StoredIsCovered ==
    ASSUME Stored
    PROVE  StorageCovered
  <1>. SUFFICES ASSUME NEW ch \in Indices
                PROVE  LET c == builders[ch]
                       IN  IF c.state = "Equidistant" THEN Covered(c)
                           ELSE c.segments = <<>> /\ Len(c.timestamps_ns) = Len(c.samples)
    BY DEF StorageCovered, Covered, SegmentEnd
  <1>. QED  BY DEF Stored, Sound

---------------------------------------------------------------------------
(* What the blocks of a file tell of a channel. *)

\* Data, Latest and TimeOf of a history F.
DataIn(F, ch) == {p \in DOMAIN F : F[p].channel_index = ch /\ F[p].kind # "Skipped"}

UsableIn(F, ch, kinds, p) ==
    {s \in DataIn(F, ch) : /\ s < p /\ F[s].kind \in kinds
                           /\ (F[s].kind = "StartData" \/ F[s].values # <<>>)}

LatestIn(F, ch, kinds, p) ==
    CHOOSE s \in UsableIn(F, ch, kinds, p) : \A q \in UsableIn(F, ch, kinds, p) : q <= s

\* The samples of these blocks, and the time their deltas add up to.
CountIn(F, D) == SumOver(D, [q \in D |-> Len(F[q].values)])
WaitIn(F, D)  == SumOver(D, [q \in D |-> FirstDeltas(F[q].times, Len(F[q].times))])

TimeIn(F, ch, p, k) ==
    CASE F[p].kind = "StartData" ->
           saturating_add(F[p].start, (k - 1) * F[p].period)
      [] F[p].kind = "ContinuedData" ->
           LET s == LatestIn(F, ch, {"StartData"}, p)
           IN  saturating_add(F[s].start,
                              (CountIn(F, {q \in DataIn(F, ch) : s <= q /\ q < p}) + k - 1)
                                  * F[s].period)
      [] F[p].kind = "AbsTimestampData" -> F[p].times[k]
      [] F[p].kind = "ContinuedRelStampData" ->
           LET a == LatestIn(F, ch, {"AbsTimestampData"}, p)
           IN  saturating_add(F[a].times[Len(F[a].times)],
                              WaitIn(F, {q \in DataIn(F, ch) : a < q /\ q < p})
                                  + FirstDeltas(F[p].times, k))

\* What the blocks tell of a channel: the samples, each with its time.
Told(F, ch) ==
    [p \in DOMAIN F |->
        IF p \in DataIn(F, ch)
        THEN [k \in DOMAIN F[p].values |-> <<TimeIn(F, ch, p, k), F[p].values[k]>>]
        ELSE <<>>]

\* That is what SamplesAreFed asks for.
LEMMA ToldIsTimeOf ==
    ASSUME NEW ch
    PROVE  /\ Data(ch) = DataIn(fed, ch)
           /\ FlattenSeq([p \in DOMAIN fed |->
                  IF p \in Data(ch)
                  THEN [k \in DOMAIN fed[p].values |-> <<TimeOf(ch, p, k), fed[p].values[k]>>]
                  ELSE <<>>]) = FlattenSeq(Told(fed, ch))
  <1>1. Data(ch) = DataIn(fed, ch)
    BY Zenon DEF Data, DataIn
  <1>2. \A p, k : TimeOf(ch, p, k) = TimeIn(fed, ch, p, k)
    BY Zenon DEF TimeOf, TimeIn, Latest, LatestIn, UsableIn, Data, DataIn, CountIn, WaitIn, FirstDeltas
  <1>. QED  BY <1>1, <1>2, Zenon DEF Told

\* The choice finds a block if there is one.
LEMMA LatestFound ==
    ASSUME NEW F \in Seq(Blocks), NEW ch, NEW kinds, NEW p, UsableIn(F, ch, kinds, p) # {}
    PROVE  /\ LatestIn(F, ch, kinds, p) \in UsableIn(F, ch, kinds, p)
           /\ \A q \in UsableIn(F, ch, kinds, p) : q <= LatestIn(F, ch, kinds, p)
  <1>. DEFINE U == UsableIn(F, ch, kinds, p)
              n == Len(F)
  <1>1. n \in Nat /\ U \in SUBSET (1..n) /\ U # {}
    BY DEF UsableIn, DataIn
  <1>2. \E s \in U : \A q \in U : s >= q
    <2>. HIDE DEF U, n
    <2>. QED  BY <1>1, LargestOfRange
  <1>3. \E s \in U : \A q \in U : q <= s
    <2>1. \A s, q \in U : s >= q => q <= s
      BY <1>1
    <2>. QED  BY <1>2, <2>1
  <1>. QED  BY <1>3, Zenon DEF LatestIn

\* The latest block is the only one of which none is behind.
LEMMA LatestIs ==
    ASSUME NEW F \in Seq(Blocks), NEW ch, NEW kinds, NEW p, NEW s \in UsableIn(F, ch, kinds, p),
           \A q \in UsableIn(F, ch, kinds, p) : q <= s
    PROVE  LatestIn(F, ch, kinds, p) = s
  <1>. DEFINE U == UsableIn(F, ch, kinds, p)
              l == LatestIn(F, ch, kinds, p)
  <1>1. l \in U /\ \A q \in U : q <= l
    BY LatestFound
  <1>2. U \in SUBSET Nat
    BY DEF UsableIn, DataIn
  <1>. HIDE DEF U, l
  <1>3. l <= s /\ s <= l /\ s \in Nat /\ l \in Nat
    BY <1>1, <1>2 DEF U
  <1>. QED  BY <1>3 DEF l

\* What is added to the history comes behind it.
LEMMA DataGrows ==
    ASSUME NEW F \in Seq(Blocks), NEW b \in Blocks, NEW ch
    PROVE  /\ Append(F, b) \in Seq(Blocks)
           /\ Len(F) \in Nat /\ Len(Append(F, b)) = Len(F) + 1
           /\ DataIn(F, ch) \in SUBSET (1..Len(F)) /\ IsFiniteSet(DataIn(F, ch))
           /\ \A p \in 1..Len(F) : Append(F, b)[p] = F[p] /\ F[p] \in Blocks
           /\ Append(F, b)[Len(F) + 1] = b
           /\ DOMAIN F = 1..Len(F) /\ DOMAIN Append(F, b) = 1..(Len(F) + 1)
           /\ DataIn(Append(F, b), ch) =
                 IF b.channel_index = ch /\ b.kind # "Skipped"
                 THEN DataIn(F, ch) \cup {Len(F) + 1} ELSE DataIn(F, ch)
  <1>. DEFINE F2 == Append(F, b)
              n == Len(F)
  <1>1. /\ F2 \in Seq(Blocks) /\ n \in Nat /\ Len(F2) = n + 1
        /\ DOMAIN F = 1..n /\ DOMAIN F2 = 1..(n + 1)
    OBVIOUS
  <1>2. \A p \in 1..n : F2[p] = F[p] /\ F[p] \in Blocks
    OBVIOUS
  <1>3. F2[n + 1] = b
    OBVIOUS
  <1>. HIDE DEF F2, n
  <1>4. DataIn(F, ch) \in SUBSET (1..n) /\ IsFiniteSet(DataIn(F, ch))
    <2>1. DataIn(F, ch) \in SUBSET (1..n)
      BY <1>1 DEF DataIn
    <2>2. IsFiniteSet(1..n)
      BY <1>1, FS_Interval
    <2>. QED  BY <2>1, <2>2, FS_Subset
  <1>5. DataIn(F2, ch) = IF b.channel_index = ch /\ b.kind # "Skipped"
                         THEN DataIn(F, ch) \cup {n + 1} ELSE DataIn(F, ch)
    <2>1. \A p \in 1..(n + 1) : p \in 1..n \/ p = n + 1
      BY <1>1
    <2>2. 1..n \subseteq 1..(n + 1) /\ n + 1 \in 1..(n + 1)
      BY <1>1
    <2>. QED  BY <1>1, <1>2, <1>3, <2>1, <2>2 DEF DataIn
  <1>. QED  BY <1>1, <1>2, <1>3, <1>4, <1>5 DEF F2, n

\* What comes behind is not found by what came before.
LEMMA UsableKept ==
    ASSUME NEW F \in Seq(Blocks), NEW b \in Blocks, NEW ch, NEW kinds,
           NEW p \in 1..(Len(F) + 1)
    PROVE  /\ UsableIn(Append(F, b), ch, kinds, p) = UsableIn(F, ch, kinds, p)
           /\ LatestIn(Append(F, b), ch, kinds, p) = LatestIn(F, ch, kinds, p)
  <1>1. UsableIn(Append(F, b), ch, kinds, p) = UsableIn(F, ch, kinds, p)
    <2>. DEFINE F2 == Append(F, b)
                n == Len(F)
    <2>1. /\ n \in Nat /\ DataIn(F, ch) \in SUBSET (1..n)
          /\ \A q \in 1..n : F2[q] = F[q]
          /\ \/ DataIn(F2, ch) = DataIn(F, ch)
             \/ DataIn(F2, ch) = DataIn(F, ch) \cup {n + 1}
      BY DataGrows
    <2>2. ~(n + 1 < p)
      BY <2>1
    <2>. HIDE DEF F2, n
    <2>3. UsableIn(F2, ch, kinds, p) = UsableIn(F, ch, kinds, p)
      BY <2>1, <2>2 DEF UsableIn
    <2>. QED  BY <2>3 DEF F2
  <1>. QED  BY <1>1, Zenon DEF LatestIn

\* What comes behind is not counted by what came before.
LEMMA CountKept ==
    ASSUME NEW F \in Seq(Blocks), NEW b \in Blocks, NEW D \in SUBSET (1..Len(F))
    PROVE  CountIn(Append(F, b), D) = CountIn(F, D) /\ WaitIn(Append(F, b), D) = WaitIn(F, D)
  <1>1. \A q \in D : Append(F, b)[q] = F[q]
    OBVIOUS
  <1>2. [q \in D |-> Len(Append(F, b)[q].values)] = [q \in D |-> Len(F[q].values)]
    BY <1>1
  <1>3. [q \in D |-> FirstDeltas(Append(F, b)[q].times, Len(Append(F, b)[q].times))]
            = [q \in D |-> FirstDeltas(F[q].times, Len(F[q].times))]
    BY <1>1
  <1>. QED  BY <1>2, <1>3, Zenon DEF CountIn, WaitIn

\* Counts and times are integers.
LEMMA SetTypes ==
    ASSUME NEW F \in Seq(Blocks), NEW D \in SUBSET (1..Len(F))
    PROVE  /\ IsFiniteSet(D)
           /\ \A q \in D : /\ F[q].values \in Seq(Nat) /\ F[q].times \in Seq(Int)
                           /\ Len(F[q].values) \in Nat
                           /\ FirstDeltas(F[q].times, Len(F[q].times)) \in Int
           /\ CountIn(F, D) \in Int /\ WaitIn(F, D) \in Int
  <1>1. IsFiniteSet(D)
    <2>1. Len(F) \in Nat
      OBVIOUS
    <2>2. IsFiniteSet(1..Len(F))
      BY <2>1, FS_Interval
    <2>. QED  BY <2>2, FS_Subset
  <1>2. ASSUME NEW q \in D
        PROVE  /\ F[q].values \in Seq(Nat) /\ F[q].times \in Seq(Int)
               /\ Len(F[q].values) \in Nat
               /\ FirstDeltas(F[q].times, Len(F[q].times)) \in Int
    <2>1. F[q] \in Blocks
      OBVIOUS
    <2>. DEFINE deltas == F[q].times
                E == 1..Len(deltas)
    <2>2. F[q].values \in Seq(Nat) /\ deltas \in Seq(Int)
      BY <2>1, BlockFields
    <2>. HIDE DEF deltas
    <2>3. \A i \in E : deltas[i] \in Int
      BY <2>2
    <2>4. IsFiniteSet(E)
      BY <2>2, FS_Interval
    <2>. HIDE DEF E
    <2>5. SumOver(E, deltas) \in Int
      BY <2>3, <2>4, SumOverType
    <2>. QED  BY <2>2, <2>5 DEF FirstDeltas, E, deltas
  <1>. DEFINE m == [q \in D |-> Len(F[q].values)]
              w == [q \in D |-> FirstDeltas(F[q].times, Len(F[q].times))]
  <1>3. (\A q \in D : m[q] \in Int) /\ (\A q \in D : w[q] \in Int)
    BY <1>2
  <1>. HIDE DEF m, w
  <1>4. SumOver(D, m) \in Int
    BY <1>1, <1>3, SumOverType
  <1>5. SumOver(D, w) \in Int
    BY <1>1, <1>3, SumOverType
  <1>. QED  BY <1>1, <1>2, <1>4, <1>5 DEF CountIn, WaitIn, m, w

\* The block that comes is counted last.
LEMMA CountGrows ==
    ASSUME NEW F \in Seq(Blocks), NEW b \in Blocks, NEW D, \A q \in D : q \in 1..Len(F)
    PROVE  LET E == D \cup {Len(F) + 1}
           IN  /\ CountIn(Append(F, b), E) = CountIn(F, D) + Len(b.values)
               /\ WaitIn(Append(F, b), E) = WaitIn(F, D) + FirstDeltas(b.times, Len(b.times))
  <1>. DEFINE F2 == Append(F, b)
              y == Len(F) + 1
              E == D \cup {y}
              n == [q \in D |-> Len(F[q].values)]
              m == [q \in E |-> Len(F2[q].values)]
              v == [q \in D |-> FirstDeltas(F[q].times, Len(F[q].times))]
              w == [q \in E |-> FirstDeltas(F2[q].times, Len(F2[q].times))]
  <1>1. /\ F2 \in Seq(Blocks) /\ Len(F) \in Nat /\ Len(F2) = y /\ F2[y] = b
        /\ \A q \in D : F2[q] = F[q]
    BY DataGrows
  <1>2. y \notin D /\ E \in SUBSET (1..y)
    <2>. DEFINE l == Len(F)
    <2>1. \A q \in D : q \in 1..l
      OBVIOUS
    <2>2. l \in Nat /\ y = l + 1
      BY <1>1
    <2>. HIDE DEF l, y, F2
    <2>. QED  BY <2>1, <2>2
  <1>. HIDE DEF F2, y
  <1>3. /\ IsFiniteSet(D)
        /\ \A q \in D : Len(F[q].values) \in Int
        /\ \A q \in D : FirstDeltas(F[q].times, Len(F[q].times)) \in Int
    <2>1. \A q \in D : /\ Len(F[q].values) \in Nat
                       /\ FirstDeltas(F[q].times, Len(F[q].times)) \in Int
      BY SetTypes
    <2>2. IsFiniteSet(D)
      BY SetTypes
    <2>. QED  BY <2>1, <2>2
  <1>4. Len(b.values) \in Int /\ FirstDeltas(b.times, Len(b.times)) \in Int
    <2>1. \A q \in E : /\ Len(F2[q].values) \in Nat
                       /\ FirstDeltas(F2[q].times, Len(F2[q].times)) \in Int
      BY <1>1, <1>2, SetTypes
    <2>2. y \in E
      OBVIOUS
    <2>. QED  BY <1>1, <2>1, <2>2
  <1>5. /\ \A q \in D : n[q] \in Int
        /\ \A q \in D : m[q] = n[q]
        /\ m[y] = Len(b.values) /\ m[y] \in Int
    BY <1>1, <1>3, <1>4
  <1>6. /\ \A q \in D : v[q] \in Int
        /\ \A q \in D : w[q] = v[q]
        /\ w[y] = FirstDeltas(b.times, Len(b.times)) /\ w[y] \in Int
    BY <1>1, <1>3, <1>4
  <1>. HIDE DEF n, m, v, w
  <1>7. SumOver(D \cup {y}, m) = SumOver(D, n) + m[y]
    <2>1. IsFiniteSet(D) /\ y \notin D
      BY <1>2, <1>3
    <2>2. \A q \in D : n[q] \in Int
      BY <1>5
    <2>3. \A q \in D : m[q] = n[q]
      BY <1>5
    <2>4. m[y] \in Int
      BY <1>5
    <2>. QED  BY <2>1, <2>2, <2>3, <2>4, SumOverOneMore
  <1>8. SumOver(D \cup {y}, w) = SumOver(D, v) + w[y]
    <2>1. IsFiniteSet(D) /\ y \notin D
      BY <1>2, <1>3
    <2>2. \A q \in D : v[q] \in Int
      BY <1>6
    <2>3. \A q \in D : w[q] = v[q]
      BY <1>6
    <2>4. w[y] \in Int
      BY <1>6
    <2>. QED  BY <2>1, <2>2, <2>3, <2>4, SumOverOneMore
  <1>. QED  BY <1>5, <1>6, <1>7, <1>8 DEF CountIn, WaitIn, n, m, v, w, F2, y

---------------------------------------------------------------------------
(* What a builder presents. *)

Sample == Int \X Nat

\* The samples of a segment.
OfSegment(c, seg) ==
    [i \in 1..seg.sample_count |->
        <<segment_timestamp(seg, i - 1), c.samples[seg.start_index + i]>>]

Segments(c) == [k \in DOMAIN c.segments |-> OfSegment(c, c.segments[k])]

\* samples_with_time() of a channel that was built as c.
Presented(c) ==
    IF c.state = "Equidistant" THEN FlattenSeq(Segments(c))
    ELSE [i \in DOMAIN c.samples |-> <<c.timestamps_ns[i], c.samples[i]>>]

\* Values, each with its time.
Stamped(times, values) == [k \in DOMAIN values |-> <<times[k], values[k]>>]

\* A function over the first numbers is a sequence.
LEMMA MadeSequence ==
    ASSUME NEW n \in Nat, NEW S, NEW f, f = [i \in 1..n |-> f[i]], \A i \in 1..n : f[i] \in S
    PROVE  f \in Seq(S) /\ Len(f) = n /\ DOMAIN f = 1..n
  <1>1. f \in [1..n -> S] /\ DOMAIN f = 1..n
    OBVIOUS
  <1>2. f \in Seq(S)
    BY <1>1
  <1>3. Len(f) = n
    BY <1>1, <1>2
  <1>. QED  BY <1>1, <1>2, <1>3

\* What a concatenation is made of.
LEMMA PutTogether ==
    ASSUME NEW S, NEW s \in Seq(S), NEW t \in Seq(S)
    PROVE  /\ s \o t \in Seq(S)
           /\ Len(s) \in Nat /\ Len(t) \in Nat /\ Len(s \o t) = Len(s) + Len(t)
           /\ \A i \in 1..Len(s) : (s \o t)[i] = s[i]
           /\ \A i \in 1..Len(t) : (s \o t)[Len(s) + i] = t[i]
  <1>1. s \o t \in Seq(S) /\ Len(s) \in Nat /\ Len(t) \in Nat /\ Len(s \o t) = Len(s) + Len(t)
    OBVIOUS
  <1>2. \A i \in 1..Len(s) : (s \o t)[i] = s[i]
    OBVIOUS
  <1>3. \A i \in 1..Len(t) : (s \o t)[Len(s) + i] = t[i]
    OBVIOUS
  <1>. QED  BY <1>1, <1>2, <1>3

\* The types of a segment.
LEMMA SegmentFields ==
    ASSUME NEW s \in Seq(Segment)
    PROVE  \A k \in 1..Len(s) : /\ s[k] \in Segment
                                /\ s[k].start \in Int /\ s[k].period \in Nat
                                /\ s[k].start_index \in Nat /\ s[k].sample_count \in Nat
  <1>1. \A k \in 1..Len(s) : s[k] \in Segment
    OBVIOUS
  <1>2. \A g \in Segment : /\ g.start \in Int /\ g.period \in Nat
                           /\ g.start_index \in Nat /\ g.sample_count \in Nat
    BY DEF Segment
  <1>. QED  BY <1>1, <1>2

\* What the model presents depends on the builder only.
LEMMA PresentedIs ==
    ASSUME NEW ch
    PROVE  samples_with_time(ch) = Presented(builders[ch])
  BY Zenon DEF samples_with_time, Presented, Segments, OfSegment

\* No segment reaches beyond the samples.
LEMMA SegmentsInside ==
    ASSUME NEW c, Sound(c), c.state = "Equidistant"
    PROVE  \A k \in DOMAIN c.segments : SegmentEnd(c, k) <= Len(c.samples)
  <1>. DEFINE n == Len(c.segments)
              S == {j \in Nat : n - j \in 1..n => SegmentEnd(c, n - j) <= Len(c.samples)}
  <1>1. /\ n \in Nat /\ Len(c.samples) \in Nat /\ DOMAIN c.segments = 1..n /\ Covered(c)
        /\ c.segments \in Seq(Segment)
    BY DEF Sound
  <1>2. \A k \in 1..n : c.segments[k].start_index \in Nat /\ c.segments[k].sample_count \in Nat
    BY <1>1, SegmentFields
  <1>3. 0 \in S
    <2>1. SegmentEnd(c, n) = Len(c.samples)
      BY <1>1 DEF Covered
    <2>2. n - 0 = n
      BY <1>1
    <2>. HIDE DEF n
    <2>. QED  BY <1>1, <2>1, <2>2
  <1>4. ASSUME NEW j \in Nat, j \in S
        PROVE  j + 1 \in S
    <2>. SUFFICES ASSUME n - (j + 1) \in 1..n
                  PROVE  SegmentEnd(c, n - (j + 1)) <= Len(c.samples)
      BY <1>4
    <2>. DEFINE k == n - (j + 1)
    <2>1. k \in 1..n /\ k + 1 \in 1..n /\ k + 1 = n - j /\ k + 1 # 1 /\ (k + 1) - 1 = k
      BY <1>1
    <2>2. SegmentEnd(c, k + 1) <= Len(c.samples)
      BY <1>4, <2>1
    <2>3. c.segments[k + 1].start_index = SegmentEnd(c, k)
      <3>. HIDE DEF k, n
      <3>1. c.segments[k + 1].start_index =
               IF k + 1 = 1 THEN 0 ELSE SegmentEnd(c, (k + 1) - 1)
        BY <1>1, <2>1 DEF Covered
      <3>. QED  BY <2>1, <3>1
    <2>. HIDE DEF k, n
    <2>4. SegmentEnd(c, k) <= SegmentEnd(c, k + 1) /\ SegmentEnd(c, k) \in Nat
      BY <1>2, <2>1, <2>3 DEF SegmentEnd
    <2>5. SegmentEnd(c, k + 1) \in Nat
      BY <1>2, <2>1 DEF SegmentEnd
    <2>6. SegmentEnd(c, k) <= Len(c.samples)
      BY <1>1, <2>2, <2>4, <2>5
    <2>. QED  BY <2>6 DEF k
  <1>5. \A j \in Nat : j \in S
    <2>. HIDE DEF S
    <2>. QED  BY <1>3, <1>4, Induction
  <1>6. ASSUME NEW k \in 1..n
        PROVE  SegmentEnd(c, k) <= Len(c.samples)
    <2>1. n - k \in Nat /\ n - (n - k) = k
      BY <1>1
    <2>. QED  BY <1>5, <2>1
  <1>. QED  BY <1>1, <1>6

\* A segment inside the samples has as many as it counts.
LEMMA OfSegmentType ==
    ASSUME NEW c, c.samples \in Seq(Nat), NEW seg \in Segment,
           seg.start_index + seg.sample_count <= Len(c.samples)
    PROVE  OfSegment(c, seg) \in Seq(Sample) /\ Len(OfSegment(c, seg)) = seg.sample_count
  <1>1. /\ seg.start \in Int /\ seg.period \in Nat
        /\ seg.start_index \in Nat /\ seg.sample_count \in Nat /\ MaxTime \in Nat
    BY BlockAssumption DEF Segment
  <1>2. ASSUME NEW i \in 1..seg.sample_count
        PROVE  <<segment_timestamp(seg, i - 1), c.samples[seg.start_index + i]>> \in Sample
    <2>1. (i - 1) * seg.period \in Int
      BY <1>1
    <2>2. segment_timestamp(seg, i - 1) \in Int
      BY <1>1, <2>1 DEF segment_timestamp, saturating_add
    <2>3. seg.start_index + i \in 1..Len(c.samples)
      BY <1>1
    <2>4. c.samples[seg.start_index + i] \in Nat
      BY <2>3
    <2>. QED  BY <2>2, <2>4 DEF Sample
  <1>. DEFINE f == OfSegment(c, seg)
              n == seg.sample_count
  <1>3. n \in Nat /\ f = [i \in 1..n |-> f[i]] /\ \A i \in 1..n : f[i] \in Sample
    BY <1>1, <1>2 DEF OfSegment
  <1>. HIDE DEF f, n
  <1>4. f \in Seq(Sample) /\ Len(f) = n
    BY <1>3, MadeSequence
  <1>. QED  BY <1>4 DEF f, n

\* The segments of a builder that holds together.
LEMMA SegmentsType ==
    ASSUME NEW c, Sound(c)
    PROVE  /\ Segments(c) \in Seq(Seq(Sample))
           /\ Len(Segments(c)) = Len(c.segments)
           /\ \A k \in DOMAIN c.segments : Segments(c)[k] = OfSegment(c, c.segments[k])
  <1>1. c.segments \in Seq(Segment) /\ c.samples \in Seq(Nat)
    BY DEF Sound
  <1>2. c.state # "Equidistant" => c.segments = <<>>
    BY DEF Sound
  <1>3. ASSUME NEW k \in DOMAIN c.segments
        PROVE  OfSegment(c, c.segments[k]) \in Seq(Sample)
    <2>1. c.state = "Equidistant"
      BY <1>2, <1>3
    <2>2. SegmentEnd(c, k) <= Len(c.samples)
      BY <2>1, SegmentsInside
    <2>3. c.segments[k] \in Segment
      BY <1>1
    <2>. QED  BY <1>1, <2>2, <2>3, OfSegmentType DEF SegmentEnd
  <1>. DEFINE f == Segments(c)
              n == Len(c.segments)
  <1>4. n \in Nat /\ DOMAIN c.segments = 1..n
    BY <1>1
  <1>5. /\ f = [k \in 1..n |-> f[k]]
        /\ \A k \in 1..n : f[k] = OfSegment(c, c.segments[k])
        /\ \A k \in 1..n : f[k] \in Seq(Sample)
    <2>. HIDE DEF n
    <2>. QED  BY <1>3, <1>4 DEF Segments
  <1>. HIDE DEF f, n
  <1>6. f \in Seq(Seq(Sample)) /\ Len(f) = n
    BY <1>4, <1>5, MadeSequence
  <1>. QED  BY <1>4, <1>5, <1>6 DEF f, n

\* What a builder that holds together presents.
LEMMA PresentedType ==
    ASSUME NEW c, Sound(c)
    PROVE  Presented(c) \in Seq(Sample)
  <1>1. CASE c.state = "Equidistant"
    BY <1>1, SegmentsType, FlattenType DEF Presented
  <1>2. CASE c.state # "Equidistant"
    <2>1. /\ c.samples \in Seq(Nat) /\ c.timestamps_ns \in Seq(Int)
          /\ Len(c.timestamps_ns) = Len(c.samples)
      BY <1>2 DEF Sound
    <2>. DEFINE f == Presented(c)
                n == Len(c.samples)
    <2>2. n \in Nat /\ DOMAIN c.samples = 1..n
      BY <2>1
    <2>3. \A i \in 1..n : c.samples[i] \in Nat /\ c.timestamps_ns[i] \in Int
      BY <2>1
    <2>. HIDE DEF n
    <2>4. f = [i \in 1..n |-> f[i]] /\ \A i \in 1..n : f[i] \in Sample
      BY <1>2, <2>2, <2>3 DEF Presented, Sample
    <2>. HIDE DEF f
    <2>5. f \in Seq(Sample)
      BY <2>2, <2>4, MadeSequence
    <2>. QED  BY <2>5 DEF f
  <1>. QED  BY <1>1, <1>2

\* As many samples as values.
LEMMA StampedType ==
    ASSUME NEW values \in Seq(Nat), NEW times, \A k \in DOMAIN values : times[k] \in Int
    PROVE  Stamped(times, values) \in Seq(Sample) /\ Len(Stamped(times, values)) = Len(values)
  BY DEF Stamped, Sample

\* The time of sample k of a block, when n samples of its segment go before it.
Regular(start, period, n, values) ==
    [k \in DOMAIN values |-> saturating_add(start, (n + k - 1) * period)]

\* The shortcut for the first sample and for no rate makes no difference.
LEMMA SegmentTime ==
    ASSUME NEW seg, IsTime(seg.start), seg.period \in Nat, NEW i \in Nat
    PROVE  segment_timestamp(seg, i) = saturating_add(seg.start, i * seg.period)
  <1>1. seg.start \in Int /\ seg.start <= MaxTime /\ MaxTime \in Nat
    BY BlockAssumption DEF IsTime
  <1>2. seg.period = 0 \/ i = 0 => i * seg.period = 0
    OBVIOUS
  <1>3. saturating_add(seg.start, 0) = seg.start
    BY <1>1 DEF saturating_add
  <1>. QED  BY <1>2, <1>3 DEF segment_timestamp

\* A block that starts a segment adds its samples, counted from its own start.
LEMMA StartPresents ==
    ASSUME NEW c, NEW b \in Blocks, Sound(c), c.state \in {"Pending", "Equidistant"},
           c.data_type \in NumericTypes
    PROVE  Presented(apply_start(c, b))
             = Presented(c) \o Stamped(Regular(b.start, b.period, 0, b.values), b.values)
  <1>. DEFINE d == apply_start(c, b)
              n == Len(c.segments)
              m == Len(c.samples)
              seg == [start |-> b.start, period |-> b.period,
                      start_index |-> Len(c.samples), sample_count |-> Len(b.values)]
              e == Stamped(Regular(b.start, b.period, 0, b.values), b.values)
  <1>1. /\ c.samples \in Seq(Nat) /\ c.segments \in Seq(Segment)
        /\ b.values \in Seq(Nat) /\ b.start \in Int /\ b.period \in Nat /\ IsTime(b.start)
        /\ n \in Nat /\ m \in Nat /\ Len(b.values) \in Nat
    BY BlockFields DEF Sound, IsTime
  <1>2. /\ d.state = "Equidistant"
        /\ d.samples = c.samples \o b.values
        /\ d.segments = Append(c.segments, seg)
    <2>1. IsBuilder(c)
      BY DEF Sound
    <2>. QED  BY <2>1 DEF apply_start, IsBuilder, BuilderFields
  <1>3. Sound(d)
    BY StartKeeps
  <1>. HIDE DEF d
  <1>4. Presented(c) = FlattenSeq(Segments(c))
    <2>1. CASE c.state = "Equidistant"
      BY <2>1 DEF Presented
    <2>2. CASE c.state = "Pending"
      <3>1. c.samples = <<>> /\ c.segments = <<>>
        BY <2>2 DEF Sound
      <3>2. Presented(c) = <<>>
        BY <2>2, <3>1 DEF Presented
      <3>3. Segments(c) = <<>>
        BY <3>1 DEF Segments
      <3>. QED  BY <3>2, <3>3, FlattenNothing
    <2>. QED  BY <2>1, <2>2
  <1>5. /\ \A i \in 1..m : d.samples[i] = c.samples[i]
        /\ \A i \in 1..Len(b.values) : d.samples[m + i] = b.values[i]
    <2>. DEFINE s == c.samples
                t == b.values
    <2>1. s \in Seq(Nat) /\ t \in Seq(Nat) /\ d.samples = s \o t
      BY <1>1, <1>2
    <2>. HIDE DEF s, t
    <2>2. /\ \A i \in 1..Len(s) : (s \o t)[i] = s[i]
          /\ \A i \in 1..Len(t) : (s \o t)[Len(s) + i] = t[i]
      BY <2>1, PutTogether
    <2>. QED  BY <2>1, <2>2 DEF s, t
  <1>6. OfSegment(d, seg) = e
    <2>1. /\ seg.start = b.start /\ seg.period = b.period
          /\ seg.start_index = m /\ seg.sample_count = Len(b.values)
      OBVIOUS
    <2>. HIDE DEF seg, m
    <2>2. ASSUME NEW i \in 1..Len(b.values)
          PROVE  <<segment_timestamp(seg, i - 1), d.samples[m + i]>> = e[i]
      <3>1. segment_timestamp(seg, i - 1) = saturating_add(b.start, (i - 1) * b.period)
        <4>1. i - 1 \in Nat
          OBVIOUS
        <4>. QED  BY <1>1, <2>1, <4>1, SegmentTime
      <3>2. i \in DOMAIN b.values /\ 0 + i - 1 = i - 1
        BY <1>1
      <3>3. e[i] = <<saturating_add(b.start, (i - 1) * b.period), b.values[i]>>
        BY <3>2 DEF Stamped, Regular
      <3>. QED  BY <1>5, <3>1, <3>3
    <2>3. e = [i \in 1..Len(b.values) |-> e[i]]
      BY <1>1 DEF Stamped
    <2>. HIDE DEF e
    <2>. QED  BY <2>1, <2>2, <2>3 DEF OfSegment
  <1>7. Segments(d) = Append(Segments(c), e)
    <2>1. /\ Segments(c) \in Seq(Seq(Sample)) /\ Len(Segments(c)) = n
          /\ \A k \in 1..n : Segments(c)[k] = OfSegment(c, c.segments[k])
      BY <1>1, SegmentsType
    <2>2. /\ Segments(d) \in Seq(Seq(Sample)) /\ Len(Segments(d)) = Len(d.segments)
          /\ \A k \in DOMAIN d.segments : Segments(d)[k] = OfSegment(d, d.segments[k])
      BY <1>3, SegmentsType
    <2>. HIDE DEF seg
    <2>3. /\ Len(d.segments) = n + 1 /\ DOMAIN d.segments = 1..(n + 1) /\ d.segments[n + 1] = seg
          /\ \A k \in 1..n : d.segments[k] = c.segments[k]
      BY <1>1, <1>2
    <2>4. ASSUME NEW k \in 1..n
          PROVE  OfSegment(d, c.segments[k]) = OfSegment(c, c.segments[k])
      <3>. DEFINE g == c.segments[k]
      <3>1. g \in Segment /\ g.start_index \in Nat /\ g.sample_count \in Nat
        BY <1>1, SegmentFields
      <3>2. g.start_index + g.sample_count <= m
        <4>1. c.state = "Equidistant"
          BY <1>1, <2>4 DEF Sound
        <4>2. SegmentEnd(c, k) <= m
          BY <1>1, <4>1, SegmentsInside
        <4>. QED  BY <4>2 DEF SegmentEnd
      <3>. HIDE DEF g, m
      <3>3. \A i \in 1..g.sample_count : g.start_index + i \in 1..m
        BY <1>1, <3>1, <3>2
      <3>4. \A i \in 1..g.sample_count : d.samples[g.start_index + i] = c.samples[g.start_index + i]
        BY <1>5, <3>3
      <3>5. OfSegment(d, g) = OfSegment(c, g)
        BY <3>4 DEF OfSegment
      <3>. QED  BY <3>5 DEF g
    <2>5. \A k \in 1..n : Segments(d)[k] = Segments(c)[k]
      <3>1. \A k \in 1..n : k \in DOMAIN d.segments
        BY <1>1, <2>3
      <3>. QED  BY <2>1, <2>2, <2>3, <2>4, <3>1
    <2>6. Segments(d)[n + 1] = e
      <3>1. n + 1 \in DOMAIN d.segments
        BY <1>1, <2>3
      <3>. QED  BY <1>6, <2>2, <2>3, <3>1
    <2>7. e \in Seq(Sample)
      BY <1>6, <2>2, <2>3, <2>6
    <2>. HIDE DEF e, n
    <2>. QED  BY <1>1, <2>1, <2>2, <2>3, <2>5, <2>6, <2>7
  <1>8. e \in Seq(Sample)
    <2>1. Len(Segments(d)) \in 1..Len(Segments(d)) /\ Segments(d)[Len(Segments(d))] = e
      BY <1>7, SegmentsType
    <2>. QED  BY <1>3, <2>1, SegmentsType
  <1>. HIDE DEF e
  <1>9. FlattenSeq(Append(Segments(c), e)) = FlattenSeq(Segments(c)) \o e
    BY <1>8, SegmentsType, FlattenAppend
  <1>10. Presented(d) = Presented(c) \o e
    BY <1>2, <1>4, <1>7, <1>9 DEF Presented
  <1>. QED  BY <1>10 DEF d, e

\* A sequence that begins as one and goes on as another is their concatenation.
LEMMA Joined ==
    ASSUME NEW S, NEW x \in Seq(S), NEW e \in Seq(S), NEW y \in Seq(S),
           Len(y) = Len(x) + Len(e),
           \A i \in 1..Len(x) : y[i] = x[i],
           \A i \in 1..Len(e) : y[Len(x) + i] = e[i]
    PROVE  y = x \o e
  <1>. DEFINE l == Len(x)
              m == Len(e)
  <1>1. l \in Nat /\ m \in Nat /\ Len(y) = l + m
    OBVIOUS
  <1>2. /\ x \o e \in Seq(S) /\ Len(x \o e) = l + m
        /\ \A i \in 1..l : (x \o e)[i] = x[i]
        /\ \A i \in 1..m : (x \o e)[l + i] = e[i]
    BY PutTogether
  <1>3. (\A i \in 1..l : y[i] = x[i]) /\ \A i \in 1..m : y[l + i] = e[i]
    OBVIOUS
  <1>. HIDE DEF l, m
  <1>4. ASSUME NEW i \in 1..(l + m)
        PROVE  y[i] = (x \o e)[i]
    <2>1. CASE i \in 1..l
      BY <1>2, <1>3, <2>1
    <2>2. CASE i \notin 1..l
      <3>. DEFINE j == i - l
      <3>1. j \in 1..m /\ i = l + j
        BY <1>1, <2>2
      <3>. HIDE DEF j
      <3>. QED  BY <1>2, <1>3, <3>1
    <2>. QED  BY <2>1, <2>2
  <1>. DEFINE z == x \o e
  <1>5. z \in Seq(S) /\ Len(z) = l + m /\ \A i \in 1..(l + m) : y[i] = z[i]
    BY <1>2, <1>4
  <1>. HIDE DEF z
  <1>6. y = z
    BY <1>1, <1>5
  <1>. QED  BY <1>6 DEF z

\* A block that continues a segment adds its samples, counted on from those before.
LEMMA ContinuedPresents ==
    ASSUME NEW c, NEW b \in Blocks, Sound(c), c.state = "Equidistant"
    PROVE  LET seg == c.segments[Len(c.segments)]
           IN  Presented(apply_continued(c, b))
                 = Presented(c)
                     \o Stamped(Regular(seg.start, seg.period, seg.sample_count, b.values),
                                b.values)
  <1>. DEFINE d == apply_continued(c, b)
              n == Len(c.segments)
              m == Len(c.samples)
              seg == c.segments[n]
              count == seg.sample_count + Len(b.values)
              e == Stamped(Regular(seg.start, seg.period, seg.sample_count, b.values), b.values)
  <1>1. /\ c.samples \in Seq(Nat) /\ c.segments \in Seq(Segment)
        /\ b.values \in Seq(Nat) /\ Covered(c)
        /\ n \in Nat /\ m \in Nat /\ Len(b.values) \in Nat
    BY BlockFields DEF Sound
  <1>2. n \in 1..n /\ DOMAIN c.segments = 1..n
    BY <1>1 DEF Covered
  <1>3. /\ seg \in Segment /\ IsTime(seg.start) /\ seg.start \in Int
        /\ seg.period \in Nat /\ seg.start_index \in Nat
        /\ seg.sample_count \in Nat /\ count \in Nat
    BY <1>1, <1>2, SegmentFields DEF Sound
  <1>4. seg.start_index + seg.sample_count = m
    BY <1>1 DEF Covered, SegmentEnd
  <1>5. /\ d.state = "Equidistant"
        /\ d.samples = c.samples \o b.values
        /\ d.segments = [c.segments EXCEPT ![n].sample_count = count]
    <2>1. IsBuilder(c)
      BY DEF Sound
    <2>. QED  BY <2>1 DEF apply_continued, IsBuilder, BuilderFields
  <1>6. Sound(d)
    BY ContinuedKeeps
  <1>. HIDE DEF d
  <1>7. PICK g \in Segment : /\ d.segments = [c.segments EXCEPT ![n] = g]
                             /\ g.start_index = seg.start_index /\ g.sample_count = count
                             /\ g.start = seg.start /\ g.period = seg.period
    <2>. DEFINE g == [seg EXCEPT !.sample_count = count]
    <2>1. /\ g \in Segment
          /\ g.start_index = seg.start_index /\ g.sample_count = count
          /\ g.start = seg.start /\ g.period = seg.period
      <3>. HIDE DEF seg, count
      <3>. QED  BY <1>3 DEF Segment
    <2>2. d.segments = [c.segments EXCEPT ![n] = g]
      BY <1>5
    <2>. HIDE DEF g
    <2>. QED  BY <2>1, <2>2
  <1>8. /\ \A i \in 1..m : d.samples[i] = c.samples[i]
        /\ \A i \in 1..Len(b.values) : d.samples[m + i] = b.values[i]
    <2>. DEFINE s == c.samples
                t == b.values
    <2>1. s \in Seq(Nat) /\ t \in Seq(Nat) /\ d.samples = s \o t
      BY <1>1, <1>5
    <2>. HIDE DEF s, t
    <2>2. /\ \A i \in 1..Len(s) : (s \o t)[i] = s[i]
          /\ \A i \in 1..Len(t) : (s \o t)[Len(s) + i] = t[i]
      BY <2>1, PutTogether
    <2>. QED  BY <2>1, <2>2 DEF s, t
  <1>9. /\ Segments(c) \in Seq(Seq(Sample)) /\ Len(Segments(c)) = n
        /\ \A k \in 1..n : Segments(c)[k] = OfSegment(c, c.segments[k])
    BY <1>2, SegmentsType
  <1>10. /\ Segments(d) \in Seq(Seq(Sample)) /\ Len(Segments(d)) = n
         /\ \A k \in 1..n : Segments(d)[k] = OfSegment(d, d.segments[k])
    <2>1. /\ Segments(d) \in Seq(Seq(Sample)) /\ Len(Segments(d)) = Len(d.segments)
          /\ \A k \in DOMAIN d.segments : Segments(d)[k] = OfSegment(d, d.segments[k])
      BY <1>6, SegmentsType
    <2>2. Len(d.segments) = n /\ DOMAIN d.segments = 1..n
      <3>. HIDE DEF n
      <3>. QED  BY <1>1, <1>2, <1>7 DEF n
    <2>. QED  BY <2>1, <2>2
  <1>11. d.segments[n] = g /\ \A k \in 1..n : k # n => d.segments[k] = c.segments[k]
    <2>. HIDE DEF n
    <2>. QED  BY <1>1, <1>2, <1>7
  <1>12. e \in Seq(Sample) /\ Len(e) = Len(b.values)
         /\ \A k \in 1..Len(b.values) :
               e[k] = <<saturating_add(seg.start, (seg.sample_count + k - 1) * seg.period),
                        b.values[k]>>
    <2>. DEFINE T == Regular(seg.start, seg.period, seg.sample_count, b.values)
    <2>1. DOMAIN b.values = 1..Len(b.values)
      BY <1>1
    <2>2. ASSUME NEW k \in 1..Len(b.values)
          PROVE  /\ T[k] = saturating_add(seg.start, (seg.sample_count + k - 1) * seg.period)
                 /\ T[k] \in Int
      <3>1. T[k] = saturating_add(seg.start, (seg.sample_count + k - 1) * seg.period)
        BY <2>1 DEF Regular
      <3>2. (seg.sample_count + k - 1) * seg.period \in Int
        BY <1>3
      <3>3. MaxTime \in Nat
        BY BlockAssumption
      <3>. HIDE DEF T, seg
      <3>. QED  BY <1>3, <3>1, <3>2, <3>3 DEF saturating_add
    <2>. HIDE DEF T, seg
    <2>3. e \in Seq(Sample) /\ Len(e) = Len(b.values)
      BY <1>1, <2>1, <2>2, StampedType DEF T
    <2>4. \A k \in 1..Len(b.values) : e[k] = <<T[k], b.values[k]>>
      BY <2>1 DEF Stamped, T
    <2>. HIDE DEF e
    <2>. QED  BY <2>2, <2>3, <2>4
  <1>. HIDE DEF e
  <1>13. OfSegment(d, g) = OfSegment(c, seg) \o e
    <2>. DEFINE x == OfSegment(c, seg)
                y == OfSegment(d, g)
                z == seg.start_index
                l == seg.sample_count
                k == Len(b.values)
    <2>1. z \in Nat /\ l \in Nat /\ k \in Nat /\ z + l = m /\ count = l + k
      BY <1>1, <1>3, <1>4
    <2>2. x \in Seq(Sample) /\ Len(x) = l
      <3>1. z + l <= m
        BY <1>1, <2>1
      <3>. HIDE DEF seg
      <3>. QED  BY <1>1, <1>3, <3>1, OfSegmentType
    <2>3. g.start_index = z /\ g.sample_count = count /\ g.start = seg.start /\ g.period = seg.period
      BY <1>7
    <2>4. d.samples \in Seq(Nat) /\ Len(d.samples) = m + k
      <3>. DEFINE u == c.samples
                  v == b.values
      <3>1. u \in Seq(Nat) /\ v \in Seq(Nat) /\ d.samples = u \o v
        BY <1>1, <1>5
      <3>2. Len(u) = m /\ Len(v) = k
        OBVIOUS
      <3>. HIDE DEF u, v, m, k
      <3>3. u \o v \in Seq(Nat) /\ Len(u \o v) = Len(u) + Len(v)
        BY <3>1
      <3>. QED  BY <3>1, <3>2, <3>3
    <2>. HIDE DEF m, k, seg, count
    <2>5. y \in Seq(Sample) /\ Len(y) = l + k
      <3>1. g \in Segment /\ g.start_index + g.sample_count <= Len(d.samples)
        BY <1>1, <1>7, <2>1, <2>3, <2>4
      <3>2. y \in Seq(Sample) /\ Len(y) = g.sample_count
        BY <2>4, <3>1, OfSegmentType
      <3>. QED  BY <2>1, <2>3, <3>2
    <2>6. ASSUME NEW i \in 1..l
          PROVE  y[i] = x[i]
      <3>1. i \in 1..count /\ z + i \in 1..m
        BY <2>1
      <3>2. x[i] = <<segment_timestamp(seg, i - 1), c.samples[z + i]>>
        BY DEF OfSegment
      <3>3. y[i] = <<segment_timestamp(g, i - 1), d.samples[z + i]>>
        BY <2>3, <3>1 DEF OfSegment
      <3>4. segment_timestamp(g, i - 1) = segment_timestamp(seg, i - 1)
        BY <2>3 DEF segment_timestamp
      <3>5. d.samples[z + i] = c.samples[z + i]
        BY <1>8, <3>1
      <3>. QED  BY <3>2, <3>3, <3>4, <3>5
    <2>7. ASSUME NEW i \in 1..k
          PROVE  y[l + i] = e[i]
      <3>1. l + i \in 1..count /\ (l + i) - 1 \in Nat /\ l + i - 1 = (l + i) - 1
            /\ z + (l + i) = m + i
        BY <2>1
      <3>2. y[l + i] = <<segment_timestamp(g, (l + i) - 1), d.samples[z + (l + i)]>>
        BY <2>3, <3>1 DEF OfSegment
      <3>3. segment_timestamp(g, (l + i) - 1) = saturating_add(seg.start, ((l + i) - 1) * seg.period)
        <4>1. IsTime(g.start) /\ g.period \in Nat
          BY <1>3, <2>3
        <4>2. segment_timestamp(g, (l + i) - 1) = saturating_add(g.start, ((l + i) - 1) * g.period)
          BY <3>1, <4>1, SegmentTime
        <4>. QED  BY <2>3, <4>2
      <3>4. d.samples[z + (l + i)] = b.values[i]
        <4>1. d.samples[m + i] = b.values[i]
          BY <1>8 DEF k
        <4>. QED  BY <3>1, <4>1
      <3>5. e[i] = <<saturating_add(seg.start, (l + i - 1) * seg.period), b.values[i]>>
        BY <1>12 DEF k
      <3>. QED  BY <3>1, <3>2, <3>3, <3>4, <3>5
    <2>8. e \in Seq(Sample) /\ Len(e) = k
      BY <1>12 DEF k
    <2>. HIDE DEF x, y, l
    <2>9. y = x \o e
      <3>1. Len(y) = Len(x) + Len(e)
        BY <2>2, <2>5, <2>8
      <3>2. \A i \in 1..Len(x) : y[i] = x[i]
        BY <2>2, <2>6
      <3>3. \A i \in 1..Len(e) : y[Len(x) + i] = e[i]
        BY <2>2, <2>7, <2>8
      <3>. QED  BY <2>2, <2>5, <2>8, <3>1, <3>2, <3>3, Joined
    <2>. QED  BY <2>9 DEF x, y
  <1>14. Segments(d) = [Segments(c) EXCEPT ![n] = @ \o e]
    <2>1. ASSUME NEW k \in 1..n, k # n
          PROVE  Segments(d)[k] = Segments(c)[k]
      <3>. DEFINE h == c.segments[k]
      <3>1. h \in Segment /\ h.start_index \in Nat /\ h.sample_count \in Nat
        BY <1>1, SegmentFields
      <3>2. h.start_index + h.sample_count <= m
        <4>1. SegmentEnd(c, k) <= m
          BY <1>2, SegmentsInside
        <4>. QED  BY <4>1 DEF SegmentEnd
      <3>. HIDE DEF h, m
      <3>3. \A i \in 1..h.sample_count : h.start_index + i \in 1..m
        BY <1>1, <3>1, <3>2
      <3>4. \A i \in 1..h.sample_count : d.samples[h.start_index + i] = c.samples[h.start_index + i]
        BY <1>8, <3>3
      <3>5. OfSegment(d, h) = OfSegment(c, h)
        BY <3>4 DEF OfSegment
      <3>. QED  BY <1>9, <1>10, <1>11, <2>1, <3>5 DEF h
    <2>2. Segments(d)[n] = Segments(c)[n] \o e
      BY <1>2, <1>9, <1>10, <1>11, <1>13
    <2>. HIDE DEF n
    <2>. QED  BY <1>2, <1>9, <1>10, <2>1, <2>2
  <1>15. FlattenSeq([Segments(c) EXCEPT ![Len(Segments(c))] = @ \o e])
            = FlattenSeq(Segments(c)) \o e
    <2>1. Segments(c) # <<>>
      BY <1>2, <1>9
    <2>. QED  BY <1>9, <1>12, <2>1, FlattenGrows
  <1>16. Presented(d) = Presented(c) \o e
    BY <1>5, <1>9, <1>14, <1>15 DEF Presented
  <1>. QED  BY <1>16 DEF d, e

\* A block with timestamps adds its samples, each at its own.
LEMMA ExtendedPresents ==
    ASSUME NEW c, NEW b \in Blocks, Sound(c), NEW d, NEW times, Sound(d),
           c.state \in {"Pending", "Timestamped", "Variable"}, Extended(c, b, d, times)
    PROVE  Presented(d) = Presented(c) \o Stamped(times, b.values)
  <1>. DEFINE s == c.samples
              t == c.timestamps_ns
              v == b.values
              m == Len(s)
              l == Len(v)
              sv == d.samples
              tt == d.timestamps_ns
              x == Presented(c)
              y == Presented(d)
              e == Stamped(times, v)
  <1>1. s \in Seq(Nat) /\ v \in Seq(Nat) /\ t \in Seq(Int) /\ times \in Seq(Int)
    BY BlockFields DEF Sound, Extended
  <1>2. m \in Nat /\ l \in Nat /\ DOMAIN s = 1..m /\ DOMAIN v = 1..l
    BY <1>1
  <1>3. Len(t) = m /\ Len(times) = l
    BY DEF Sound, Extended
  <1>4. sv = s \o v /\ tt = t \o times /\ d.state # "Equidistant" /\ c.state # "Equidistant"
    BY DEF Extended
  <1>5. /\ x = [i \in DOMAIN s |-> <<t[i], s[i]>>]
        /\ y = [i \in DOMAIN sv |-> <<tt[i], sv[i]>>]
        /\ e = [k \in DOMAIN v |-> <<times[k], v[k]>>]
    BY <1>4 DEF Presented, Stamped
  <1>6. x \in Seq(Sample) /\ y \in Seq(Sample)
    BY PresentedType
  <1>. HIDE DEF s, t, v, m, l, sv, tt, x, y, e
  <1>7. /\ DOMAIN sv = 1..(m + l)
        /\ \A i \in 1..m : sv[i] = s[i]
        /\ \A i \in 1..l : sv[m + i] = v[i]
    <2>1. /\ s \o v \in Seq(Nat) /\ Len(s \o v) = Len(s) + Len(v)
          /\ \A i \in 1..Len(s) : (s \o v)[i] = s[i]
          /\ \A i \in 1..Len(v) : (s \o v)[Len(s) + i] = v[i]
      BY <1>1, PutTogether
    <2>2. sv \in Seq(Nat) /\ Len(sv) = m + l
      BY <1>4, <2>1 DEF m, l
    <2>3. DOMAIN sv = 1..(m + l)
      BY <2>2
    <2>. QED  BY <1>4, <2>1, <2>3 DEF m, l
  <1>8. /\ \A i \in 1..m : tt[i] = t[i]
        /\ \A i \in 1..l : tt[m + i] = times[i]
    <2>1. /\ \A i \in 1..Len(t) : (t \o times)[i] = t[i]
          /\ \A i \in 1..Len(times) : (t \o times)[Len(t) + i] = times[i]
      BY <1>1, PutTogether
    <2>. QED  BY <1>3, <1>4, <2>1
  <1>9. Len(x) = m /\ \A i \in 1..m : x[i] = <<t[i], s[i]>>
    BY <1>2, <1>5, <1>6
  <1>10. Len(y) = m + l /\ \A i \in 1..(m + l) : y[i] = <<tt[i], sv[i]>>
    BY <1>2, <1>5, <1>6, <1>7
  <1>11. e \in Seq(Sample) /\ Len(e) = l /\ \A i \in 1..l : e[i] = <<times[i], v[i]>>
    <2>1. \A k \in DOMAIN v : times[k] \in Int
      BY <1>1, <1>2, <1>3
    <2>2. e \in Seq(Sample) /\ Len(e) = Len(v)
      BY <1>1, <2>1, StampedType DEF e
    <2>. QED  BY <1>2, <1>5, <2>2 DEF l
  <1>12. y = x \o e
    <2>1. Len(y) = Len(x) + Len(e)
      BY <1>9, <1>10, <1>11
    <2>2. \A i \in 1..m : i \in 1..(m + l)
      BY <1>2
    <2>3. \A i \in 1..l : m + i \in 1..(m + l)
      BY <1>2
    <2>4. ASSUME NEW i \in 1..Len(x)
          PROVE  y[i] = x[i]
      <3>1. i \in 1..m /\ i \in 1..(m + l)
        BY <1>9, <2>2
      <3>2. sv[i] = s[i] /\ tt[i] = t[i]
        BY <1>7, <1>8, <3>1
      <3>3. x[i] = <<t[i], s[i]>> /\ y[i] = <<tt[i], sv[i]>>
        BY <1>9, <1>10, <3>1
      <3>. QED  BY <3>2, <3>3
    <2>5. ASSUME NEW i \in 1..Len(e)
          PROVE  y[Len(x) + i] = e[i]
      <3>1. i \in 1..l /\ m + i \in 1..(m + l) /\ Len(x) = m
        BY <1>9, <1>11, <2>3
      <3>2. sv[m + i] = v[i] /\ tt[m + i] = times[i]
        BY <1>7, <1>8, <3>1
      <3>3. e[i] = <<times[i], v[i]>> /\ y[m + i] = <<tt[m + i], sv[m + i]>>
        BY <1>10, <1>11, <3>1
      <3>. QED  BY <3>1, <3>2, <3>3
    <2>. QED  BY <1>6, <1>11, <2>1, <2>4, <2>5, Joined
  <1>. QED  BY <1>12 DEF x, y, e, v

\* The segment that is in progress.
LastSegment(c) == c.segments[Len(c.segments)]

\* The times a block that fits gives its samples.
TimesOf(c, b) ==
    CASE b.kind = "StartData"     -> Regular(b.start, b.period, 0, b.values)
      [] b.kind = "ContinuedData" -> Regular(LastSegment(c).start, LastSegment(c).period,
                                             LastSegment(c).sample_count, b.values)
      [] b.kind = "AbsTimestampData" -> b.times
      [] b.kind = "ContinuedRelStampData" -> Accumulate(c.last_timestamp_ns, b.times)

\* What equidistant times are.
LEMMA RegularType ==
    ASSUME NEW b \in Blocks, NEW start \in Int, NEW period \in Nat, NEW n \in Nat
    PROVE  \A k \in 1..Len(b.values) : 
              /\ Regular(start, period, n, b.values)[k] = saturating_add(start, (n + k - 1) * period)
              /\ Regular(start, period, n, b.values)[k] \in Int
  <1>. SUFFICES ASSUME NEW k \in 1..Len(b.values)
                PROVE  /\ Regular(start, period, n, b.values)[k]
                             = saturating_add(start, (n + k - 1) * period)
                       /\ Regular(start, period, n, b.values)[k] \in Int
    OBVIOUS
  <1>1. DOMAIN b.values = 1..Len(b.values)
    BY BlockFields
  <1>2. Regular(start, period, n, b.values)[k] = saturating_add(start, (n + k - 1) * period)
    BY <1>1 DEF Regular
  <1>3. (n + k - 1) * period \in Int /\ MaxTime \in Nat
    BY BlockAssumption
  <1>4. saturating_add(start, (n + k - 1) * period) \in Int
    BY <1>3 DEF saturating_add
  <1>. QED  BY <1>2, <1>4

\* The types of the last segment.
LEMMA LastSegmentFields ==
    ASSUME NEW c, Sound(c), c.state = "Equidistant"
    PROVE  /\ LastSegment(c).start \in Int /\ LastSegment(c).period \in Nat
           /\ LastSegment(c).sample_count \in Nat
           /\ IsTime(LastSegment(c).start)
  <1>. DEFINE n == Len(c.segments)
  <1>1. c.segments \in Seq(Segment) /\ c.segments # <<>>
    BY DEF Sound, Covered
  <1>2. n \in 1..n /\ n \in DOMAIN c.segments
    BY <1>1
  <1>. HIDE DEF n
  <1>3. c.segments[n].start \in Int /\ c.segments[n].period \in Nat
        /\ c.segments[n].sample_count \in Nat
    BY <1>1, <1>2, SegmentFields DEF n
  <1>4. IsTime(c.segments[n].start)
    BY <1>2 DEF Sound
  <1>. QED  BY <1>3, <1>4 DEF LastSegment, n

\* A block that fits puts its samples, with their times, behind those that are presented.
LEMMA AppliedPresents ==
    ASSUME NEW c, NEW b \in Blocks, Sound(c), b.kind # "Skipped", Fitting(c, b)
    PROVE  /\ Presented(Applied(c, b)) = Presented(c) \o Stamped(TimesOf(c, b), b.values)
           /\ \A k \in 1..Len(b.values) : TimesOf(c, b)[k] \in Int
  <1>1. /\ b.kind \in Kinds /\ IsBuilder(c) /\ b.start \in Int /\ b.period \in Nat
        /\ b.values \in Seq(Nat) /\ DOMAIN b.values = 1..Len(b.values)
    BY BlockFields DEF Sound, IsTime
  <1>2. CASE b.kind = "StartData"
    <2>1. /\ Applied(c, b) = apply_start(c, b)
          /\ TimesOf(c, b) = Regular(b.start, b.period, 0, b.values)
      BY <1>2 DEF Applied, TimesOf
    <2>2. c.state \in {"Pending", "Equidistant"} /\ c.data_type \in NumericTypes
      BY <1>2 DEF Fitting
    <2>3. Presented(apply_start(c, b))
             = Presented(c) \o Stamped(Regular(b.start, b.period, 0, b.values), b.values)
      BY <2>2, StartPresents
    <2>4. \A k \in 1..Len(b.values) : Regular(b.start, b.period, 0, b.values)[k] \in Int
      BY <1>1, RegularType
    <2>. QED  BY <2>1, <2>3, <2>4
  <1>3. CASE b.kind = "ContinuedData"
    <2>1. /\ Applied(c, b) = apply_continued(c, b)
          /\ TimesOf(c, b) = Regular(LastSegment(c).start, LastSegment(c).period,
                                     LastSegment(c).sample_count, b.values)
      BY <1>3 DEF Applied, TimesOf
    <2>2. c.state = "Equidistant"
      BY <1>3 DEF Fitting
    <2>3. Presented(apply_continued(c, b))
             = Presented(c) \o Stamped(Regular(LastSegment(c).start, LastSegment(c).period,
                                               LastSegment(c).sample_count, b.values), b.values)
      BY <2>2, ContinuedPresents DEF LastSegment
    <2>4. \A k \in 1..Len(b.values) :
             Regular(LastSegment(c).start, LastSegment(c).period,
                     LastSegment(c).sample_count, b.values)[k] \in Int
      <3>. DEFINE s == LastSegment(c).start
                  p == LastSegment(c).period
                  n == LastSegment(c).sample_count
      <3>1. s \in Int /\ p \in Nat /\ n \in Nat
        BY <2>2, LastSegmentFields
      <3>. HIDE DEF s, p, n
      <3>2. \A k \in 1..Len(b.values) : Regular(s, p, n, b.values)[k] \in Int
        BY <3>1, RegularType
      <3>. QED  BY <3>2 DEF s, p, n
    <2>. QED  BY <2>1, <2>3, <2>4
  <1>4. CASE b.kind = "AbsTimestampData"
    <2>. DEFINE d == apply_abs_timestamped(c, b)
    <2>1. Applied(c, b) = d /\ TimesOf(c, b) = b.times /\ Sound(Applied(c, b))
      BY <1>4, AppliedKeeps DEF Applied, TimesOf
    <2>2. Extended(c, b, d, b.times) /\ c.state \in {"Pending", "Timestamped", "Variable"}
      BY <1>1, <1>4, AbsExtends DEF Fitting
    <2>. HIDE DEF d
    <2>3. Presented(d) = Presented(c) \o Stamped(b.times, b.values)
      <3>. DEFINE times == b.times
      <3>1. Sound(d) /\ Extended(c, b, d, times)
        BY <2>1, <2>2
      <3>. HIDE DEF times
      <3>2. Presented(d) = Presented(c) \o Stamped(times, b.values)
        BY <2>2, <3>1, ExtendedPresents
      <3>. QED  BY <3>2 DEF times
    <2>4. \A k \in 1..Len(b.values) : b.times[k] \in Int
      BY <2>2 DEF Extended
    <2>. QED  BY <2>1, <2>3, <2>4
  <1>5. CASE b.kind = "ContinuedRelStampData"
    <2>. DEFINE times == Accumulate(c.last_timestamp_ns, b.times)
                d == apply_rel_timestamped(c, b)
    <2>1. c.state = "Timestamped" /\ IsTime(c.last_timestamp_ns)
      BY <1>5 DEF Fitting, Sound
    <2>2. Applied(c, b) = d /\ TimesOf(c, b) = times /\ Sound(Applied(c, b))
      BY <1>5, AppliedKeeps DEF Applied, TimesOf
    <2>3. Extended(c, b, d, times)
      BY <1>1, <1>5, <2>1, RelExtends
    <2>. HIDE DEF d, times
    <2>4. Presented(d) = Presented(c) \o Stamped(times, b.values)
      BY <2>1, <2>2, <2>3, ExtendedPresents
    <2>5. \A k \in 1..Len(b.values) : times[k] \in Int
      BY <2>3 DEF Extended
    <2>. QED  BY <2>2, <2>4, <2>5
  <1>. QED  BY <1>1, <1>2, <1>3, <1>4, <1>5 DEF Kinds

\* The anchor is the time of the last sample of the last segment.
SegmentTimed(c) ==
    c.state = "Equidistant" =>
        (LastSegment(c).sample_count # 0 =>
            c.last_timestamp_ns =
                saturating_add(LastSegment(c).start,
                               (LastSegment(c).sample_count - 1) * LastSegment(c).period))

\* What a block that fits does to the anchor, the state and the last segment.
LEMMA AppliedLast ==
    ASSUME NEW c, NEW b \in Blocks, Sound(c), b.kind # "Skipped", Fitting(c, b),
           SegmentTimed(c)
    PROVE  /\ SegmentTimed(Applied(c, b))
           /\ Applied(c, b).last_timestamp_ns =
                 IF b.values = <<>> THEN c.last_timestamp_ns
                 ELSE TimesOf(c, b)[Len(b.values)]
           /\ Applied(c, b).state =
                 CASE b.kind = "StartData" -> "Equidistant"
                   [] b.kind = "ContinuedData" -> "Equidistant"
                   [] OTHER -> IF c.state = "Pending" THEN "Timestamped" ELSE c.state
           /\ Applied(c, b).data_type = c.data_type
           /\ b.kind = "StartData" =>
                 /\ LastSegment(Applied(c, b)).start = b.start
                 /\ LastSegment(Applied(c, b)).period = b.period
                 /\ LastSegment(Applied(c, b)).sample_count = Len(b.values)
           /\ b.kind = "ContinuedData" =>
                 /\ LastSegment(Applied(c, b)).start = LastSegment(c).start
                 /\ LastSegment(Applied(c, b)).period = LastSegment(c).period
                 /\ LastSegment(Applied(c, b)).sample_count
                       = LastSegment(c).sample_count + Len(b.values)
  <1>. DEFINE l == Len(b.values)
  <1>1. /\ b.kind \in Kinds /\ IsBuilder(c) /\ b.start \in Int /\ b.period \in Nat
        /\ b.values \in Seq(Nat) /\ DOMAIN b.values = 1..l
        /\ l \in Nat /\ (b.values = <<>> <=> l = 0)
        /\ c.segments \in Seq(Segment)
    BY BlockFields DEF Sound, IsTime
  <1>2. CASE b.kind = "StartData"
    <2>. DEFINE seg == [start |-> b.start, period |-> b.period,
                        start_index |-> Len(c.samples), sample_count |-> l]
                d == apply_start(c, b)
    <2>1. /\ Applied(c, b) = d
          /\ TimesOf(c, b) = Regular(b.start, b.period, 0, b.values)
      BY <1>2 DEF Applied, TimesOf
    <2>2. /\ d.state = "Equidistant" /\ d.data_type = c.data_type
          /\ d.segments = Append(c.segments, seg)
          /\ d.last_timestamp_ns =
                update_last_ts_from_segment(c.last_timestamp_ns, b.start, b.period, l)
      BY <1>1 DEF apply_start, IsBuilder, BuilderFields
    <2>3. LastSegment(d) = seg
      <3>. DEFINE s == c.segments
      <3>. HIDE DEF seg, d
      <3>1. s \in Seq(Segment) /\ d.segments = Append(s, seg)
        BY <1>1, <2>2
      <3>. HIDE DEF s
      <3>2. Len(Append(s, seg)) = Len(s) + 1 /\ Append(s, seg)[Len(s) + 1] = seg
        BY <3>1
      <3>. QED  BY <3>1, <3>2 DEF LastSegment
    <2>4. seg.start = b.start /\ seg.period = b.period /\ seg.sample_count = l
      OBVIOUS
    <2>. HIDE DEF seg, d
    <2>5. l # 0 => TimesOf(c, b)[l] = saturating_add(b.start, (l - 1) * b.period)
      <3>1. l # 0 => l \in 1..l /\ 0 + l - 1 = l - 1
        BY <1>1
      <3>2. \A k \in 1..l : Regular(b.start, b.period, 0, b.values)[k]
                              = saturating_add(b.start, (0 + k - 1) * b.period)
        <4>. DEFINE x == b.start
                    p == b.period
        <4>1. x \in Int /\ p \in Nat /\ 0 \in Nat
          BY <1>1
        <4>. HIDE DEF x, p
        <4>2. \A k \in 1..l : Regular(x, p, 0, b.values)[k] = saturating_add(x, (0 + k - 1) * p)
          BY <4>1, RegularType
        <4>. QED  BY <4>2 DEF x, p
      <3>. QED  BY <2>1, <3>1, <3>2
    <2>6. d.last_timestamp_ns = IF l = 0 THEN c.last_timestamp_ns
                                ELSE saturating_add(b.start, (l - 1) * b.period)
      BY <2>2 DEF update_last_ts_from_segment
    <2>7. SegmentTimed(d)
      BY <2>2, <2>3, <2>4, <2>6 DEF SegmentTimed
    <2>. HIDE DEF l
    <2>. QED  BY <1>1, <1>2, <2>1, <2>2, <2>3, <2>4, <2>5, <2>6, <2>7 DEF l
  <1>3. CASE b.kind = "ContinuedData"
    <2>. DEFINE n == Len(c.segments)
                seg == c.segments[n]
                d == apply_continued(c, b)
                count == seg.sample_count + l
                time == update_last_ts_from_segment(c.last_timestamp_ns, seg.start,
                                                    seg.period, count)
    <2>1. /\ Applied(c, b) = d /\ LastSegment(c) = seg /\ c.state = "Equidistant"
          /\ TimesOf(c, b) = Regular(seg.start, seg.period, seg.sample_count, b.values)
      BY <1>3 DEF Applied, TimesOf, LastSegment, Fitting
    <2>2. /\ d.state = "Equidistant" /\ d.data_type = c.data_type
          /\ d.segments = [c.segments EXCEPT ![n].sample_count = count]
          /\ d.last_timestamp_ns = time
      BY <1>1, <2>1 DEF apply_continued, IsBuilder, BuilderFields
    <2>3. /\ n \in 1..n /\ n \in Nat /\ seg \in Segment
          /\ seg.start \in Int /\ seg.period \in Nat /\ seg.sample_count \in Nat
      <3>1. n \in 1..n /\ n \in Nat
        BY <1>1, <2>1 DEF Sound, Covered
      <3>. QED  BY <1>1, <3>1, SegmentFields
    <2>. HIDE DEF d, time
    <2>4. /\ LastSegment(d).start = seg.start /\ LastSegment(d).period = seg.period
          /\ LastSegment(d).sample_count = count
      <3>. DEFINE g == [seg EXCEPT !.sample_count = count]
                  s == c.segments
      <3>1. d.segments = [s EXCEPT ![n] = g]
        BY <2>2
      <3>2. g.start = seg.start /\ g.period = seg.period /\ g.sample_count = count
        <4>. HIDE DEF seg, count
        <4>. QED  BY <2>3 DEF Segment
      <3>3. s \in Seq(Segment) /\ n = Len(s)
        BY <1>1
      <3>4. Len(d.segments) = n /\ d.segments[n] = g
        <4>. HIDE DEF g, s, n
        <4>1. DOMAIN s = 1..n
          BY <2>3, <3>3
        <4>2. DOMAIN d.segments = 1..n
          BY <3>1, <4>1
        <4>3. d.segments = [i \in 1..n |-> d.segments[i]]
          BY <3>1, <4>2
        <4>4. d.segments[n] = g
          BY <2>3, <3>1, <4>1
        <4>5. Len(d.segments) = n
          <5>1. \A i \in 1..n : d.segments[i] \in {d.segments[j] : j \in 1..n}
            OBVIOUS
          <5>. DEFINE S == {d.segments[j] : j \in 1..n}
          <5>2. \A i \in 1..n : d.segments[i] \in S
            BY <5>1
          <5>. HIDE DEF S
          <5>. QED  BY <2>3, <4>3, <5>2, MadeSequence
        <4>. QED  BY <4>4, <4>5
      <3>. QED  BY <3>2, <3>4 DEF LastSegment
    <2>. HIDE DEF seg, n
    <2>5. count \in Nat /\ (l # 0 => count # 0) /\ (l = 0 => count = seg.sample_count)
      BY <1>1, <2>3
    <2>6. l # 0 => TimesOf(c, b)[l] = saturating_add(seg.start, (count - 1) * seg.period)
      <3>1. l # 0 => l \in 1..l /\ seg.sample_count + l - 1 = count - 1
        BY <1>1, <2>3
      <3>2. \A k \in 1..l : Regular(seg.start, seg.period, seg.sample_count, b.values)[k]
                     = saturating_add(seg.start, (seg.sample_count + k - 1) * seg.period)
        <4>. DEFINE x == seg.start
                    p == seg.period
                    m == seg.sample_count
        <4>1. x \in Int /\ p \in Nat /\ m \in Nat
          BY <2>3
        <4>. HIDE DEF x, p, m
        <4>2. \A k \in 1..l : Regular(x, p, m, b.values)[k] = saturating_add(x, (m + k - 1) * p)
          BY <4>1, RegularType
        <4>. QED  BY <4>2 DEF x, p, m
      <3>. HIDE DEF l, count
      <3>. QED  BY <2>1, <3>1, <3>2
    <2>7. time = IF count = 0 THEN c.last_timestamp_ns
                 ELSE saturating_add(seg.start, (count - 1) * seg.period)
      BY DEF update_last_ts_from_segment, time
    <2>8. SegmentTimed(d)
      BY <2>2, <2>4, <2>7 DEF SegmentTimed
    <2>9. l = 0 => time = c.last_timestamp_ns
      BY <2>1, <2>5, <2>7 DEF SegmentTimed
    <2>10. time = IF l = 0 THEN c.last_timestamp_ns ELSE TimesOf(c, b)[l]
      BY <2>5, <2>6, <2>7, <2>9
    <2>. HIDE DEF l
    <2>. QED  BY <1>1, <1>3, <2>1, <2>2, <2>4, <2>8, <2>10 DEF l, count
  <1>4. CASE b.kind \in {"AbsTimestampData", "ContinuedRelStampData"}
    <2>1. PICK times : Extended(c, b, Applied(c, b), times) /\ times = TimesOf(c, b)
      <3>1. CASE b.kind = "AbsTimestampData"
        <4>1. Applied(c, b) = apply_abs_timestamped(c, b) /\ TimesOf(c, b) = b.times
          BY <3>1 DEF Applied, TimesOf
        <4>. QED  BY <1>1, <3>1, <4>1, AbsExtends
      <3>2. CASE b.kind = "ContinuedRelStampData"
        <4>1. c.state = "Timestamped" /\ IsTime(c.last_timestamp_ns)
          BY <3>2 DEF Fitting, Sound
        <4>2. /\ Applied(c, b) = apply_rel_timestamped(c, b)
              /\ TimesOf(c, b) = Accumulate(c.last_timestamp_ns, b.times)
          BY <3>2 DEF Applied, TimesOf
        <4>. QED  BY <1>1, <3>2, <4>1, <4>2, RelExtends
      <3>. QED  BY <1>4, <3>1, <3>2
    <2>2. c.state \in {"Pending", "Timestamped", "Variable"}
      BY <1>4 DEF Fitting
    <2>. DEFINE d == Applied(c, b)
    <2>. HIDE DEF d
    <2>3. /\ times \in Seq(Int) /\ Len(times) = l
          /\ d.state = IF c.state = "Pending" THEN "Timestamped" ELSE c.state
          /\ d.data_type = c.data_type
          /\ d.last_timestamp_ns = LastOr(times, c.last_timestamp_ns)
      BY <2>1 DEF Extended, d
    <2>4. times = <<>> <=> l = 0
      BY <2>3
    <2>5. d.last_timestamp_ns = IF b.values = <<>> THEN c.last_timestamp_ns ELSE times[l]
      BY <1>1, <2>3, <2>4 DEF LastOr
    <2>6. d.state # "Equidistant" /\ SegmentTimed(d)
      BY <2>2, <2>3 DEF SegmentTimed
    <2>7. b.kind # "StartData" /\ b.kind # "ContinuedData"
      BY <1>4
    <2>. QED  BY <2>1, <2>3, <2>5, <2>6, <2>7 DEF d
  <1>. QED  BY <1>1, <1>2, <1>3, <1>4 DEF Kinds

\* The anchor is the time of the last sample that is presented.
LastTimed(c) ==
    c.last_timestamp_ns =
        IF Presented(c) = <<>> THEN NoTime ELSE Presented(c)[Len(Presented(c))][1]

\* The anchor stays the time of the last sample.
LEMMA AppliedTimed ==
    ASSUME NEW c, NEW b \in Blocks, Sound(c), b.kind # "Skipped", Fitting(c, b),
           SegmentTimed(c), LastTimed(c)
    PROVE  LastTimed(Applied(c, b))
  <1>. DEFINE d == Applied(c, b)
              x == Presented(c)
              T == TimesOf(c, b)
              v == b.values
              e == Stamped(T, v)
  <1>1. /\ Presented(d) = x \o e
        /\ \A k \in 1..Len(v) : T[k] \in Int
    BY AppliedPresents
  <1>2. d.last_timestamp_ns = IF v = <<>> THEN c.last_timestamp_ns ELSE T[Len(v)]
    BY AppliedLast
  <1>3. x \in Seq(Sample) /\ v \in Seq(Nat)
    BY PresentedType, BlockFields
  <1>4. c.last_timestamp_ns = IF x = <<>> THEN NoTime ELSE x[Len(x)][1]
    BY DEF LastTimed
  <1>. HIDE DEF d, x, T, v, e
  <1>5. e \in Seq(Sample) /\ Len(e) = Len(v) /\ \A k \in 1..Len(v) : e[k][1] = T[k]
    <2>1. DOMAIN v = 1..Len(v)
      BY <1>3
    <2>2. e \in Seq(Sample) /\ Len(e) = Len(v)
      BY <1>1, <1>3, <2>1, StampedType DEF e
    <2>. QED  BY <2>1, <2>2 DEF e, Stamped
  <1>6. CASE v = <<>>
    <2>1. e = <<>>
      BY <1>5, <1>6
    <2>2. x \o <<>> = x
      BY <1>3
    <2>3. Presented(d) = x
      BY <1>1, <2>1, <2>2
    <2>4. LastTimed(d)
      BY <1>2, <1>4, <1>6, <2>3 DEF LastTimed
    <2>. QED  BY <2>4 DEF d
  <1>7. CASE v # <<>>
    <2>. DEFINE k == Len(v)
                m == Len(x)
                y == x \o e
    <2>1. k \in 1..k /\ k \in Nat /\ m \in Nat
      BY <1>3, <1>7
    <2>2. y \in Seq(Sample) /\ Len(y) = m + k /\ y[m + k] = e[k]
      <3>1. y \in Seq(Sample) /\ Len(y) = Len(x) + Len(e)
        BY <1>3, <1>5, PutTogether
      <3>2. \A i \in 1..Len(e) : y[Len(x) + i] = e[i]
        BY <1>3, <1>5, PutTogether
      <3>. QED  BY <1>5, <2>1, <3>1, <3>2
    <2>3. y # <<>>
      <3>. HIDE DEF y, k, m
      <3>. QED  BY <2>1, <2>2
    <2>4. y[Len(y)][1] = T[k]
      <3>. HIDE DEF y, m
      <3>. QED  BY <1>5, <2>1, <2>2
    <2>5. LastTimed(d)
      <3>. HIDE DEF k, m
      <3>. QED  BY <1>1, <1>2, <1>7, <2>3, <2>4 DEF LastTimed, k
    <2>. QED  BY <2>5 DEF d
  <1>. QED  BY <1>6, <1>7

---------------------------------------------------------------------------
(* What is told grows with what is read. *)

\* Where the next block of a history goes.
After(F) == Len(F) + 1

\* A block of these kinds that a later one can build on.
IsUsable(b, kinds) == b.kind \in kinds /\ (b.kind = "StartData" \/ b.values # <<>>)

\* A block of the channel is behind all that were read.
LEMMA UsableGrows ==
    ASSUME NEW F \in Seq(Blocks), NEW b \in Blocks, NEW ch, NEW kinds
    PROVE  UsableIn(Append(F, b), ch, kinds, After(Append(F, b))) =
              IF b.channel_index = ch /\ b.kind # "Skipped" /\ IsUsable(b, kinds)
              THEN UsableIn(F, ch, kinds, After(F)) \cup {After(F)}
              ELSE UsableIn(F, ch, kinds, After(F))
  <1>. DEFINE F2 == Append(F, b)
              n == Len(F)
              D == DataIn(F, ch)
              U == UsableIn(F2, ch, kinds, After(F2))
  <1>1. /\ n \in Nat /\ D \in SUBSET (1..n) /\ Len(F2) = n + 1
        /\ \A q \in 1..n : F2[q] = F[q]
        /\ F2[n + 1] = b
        /\ DataIn(F2, ch) = IF b.channel_index = ch /\ b.kind # "Skipped"
                            THEN D \cup {n + 1} ELSE D
    BY DataGrows
  <1>2. \A s \in 1..n : s < n + 1 /\ s < n + 1 + 1
    BY <1>1
  <1>3. n + 1 < n + 1 + 1
    BY <1>1
  <1>4. U = {s \in DataIn(F2, ch) : s < n + 1 + 1 /\ IsUsable(F2[s], kinds)}
    BY <1>1, Zenon DEF UsableIn, After, IsUsable
  <1>5. UsableIn(F, ch, kinds, After(F)) = {s \in D : s < n + 1 /\ IsUsable(F[s], kinds)}
    BY Zenon DEF UsableIn, After, IsUsable
  <1>6. After(F) = n + 1
    BY DEF After
  <1>. HIDE DEF F2, n, D, U
  <1>7. ASSUME NEW s
        PROVE  s \in U <=> \/ s \in UsableIn(F, ch, kinds, After(F))
                           \/ s = n + 1 /\ b.channel_index = ch /\ b.kind # "Skipped"
                              /\ IsUsable(b, kinds)
    BY <1>1, <1>2, <1>3, <1>4, <1>5
  <1>. QED  BY <1>6, <1>7 DEF U, F2

\* Every block that continues another has one to continue.
Begun(F, ch) ==
    \A p \in DataIn(F, ch) :
        /\ F[p].kind = "ContinuedData" => UsableIn(F, ch, {"StartData"}, p) # {}
        /\ F[p].kind = "ContinuedRelStampData" => UsableIn(F, ch, {"AbsTimestampData"}, p) # {}

\* What the counts of TimeIn range over.
Between(D, lo, p) == {q \in D : lo <= q /\ q < p}
Behind(D, lo, p)  == {q \in D : lo < q /\ q < p}

\* What is read later moves no sample.
LEMMA TimeKept ==
    ASSUME NEW F \in Seq(Blocks), NEW b \in Blocks, NEW ch, Begun(F, ch),
           NEW p \in DataIn(F, ch)
    PROVE  \A k : TimeIn(Append(F, b), ch, p, k) = TimeIn(F, ch, p, k)
  <1>. DEFINE F2 == Append(F, b)
              n == Len(F)
              D == DataIn(F, ch)
              D2 == DataIn(F2, ch)
  <1>1. /\ n \in Nat /\ D \in SUBSET (1..n) /\ Len(F2) = n + 1
        /\ \A q \in 1..n : F2[q] = F[q]
        /\ F2[n + 1] = b
        /\ D2 = D \/ D2 = D \cup {n + 1}
    BY DataGrows
  <1>2. p \in 1..n /\ p \in 1..(n + 1) /\ F2[p] = F[p] /\ ~(n + 1 < p)
    BY <1>1
  <1>3. \A kinds : LatestIn(F2, ch, kinds, p) = LatestIn(F, ch, kinds, p)
    BY <1>2, UsableKept
  <1>4. \A lo : Between(D2, lo, p) = Between(D, lo, p) /\ Behind(D2, lo, p) = Behind(D, lo, p)
    <2>. HIDE DEF F2, D, D2, n
    <2>. QED  BY <1>1, <1>2 DEF Between, Behind
  <1>5. \A lo : /\ CountIn(F2, Between(D, lo, p)) = CountIn(F, Between(D, lo, p))
                /\ WaitIn(F2, Behind(D, lo, p)) = WaitIn(F, Behind(D, lo, p))
    <2>. SUFFICES ASSUME NEW lo
                  PROVE  /\ CountIn(F2, Between(D, lo, p)) = CountIn(F, Between(D, lo, p))
                         /\ WaitIn(F2, Behind(D, lo, p)) = WaitIn(F, Behind(D, lo, p))
      OBVIOUS
    <2>1. Between(D, lo, p) \in SUBSET (1..n) /\ Behind(D, lo, p) \in SUBSET (1..n)
      BY <1>1 DEF Between, Behind
    <2>. HIDE DEF D
    <2>. QED  BY <2>1, CountKept
  <1>6. ASSUME NEW kinds, UsableIn(F, ch, kinds, p) # {}
        PROVE  F2[LatestIn(F, ch, kinds, p)] = F[LatestIn(F, ch, kinds, p)]
    <2>1. LatestIn(F, ch, kinds, p) \in UsableIn(F, ch, kinds, p)
      BY <1>6, LatestFound
    <2>2. LatestIn(F, ch, kinds, p) \in D
      BY <2>1 DEF UsableIn
    <2>. QED  BY <1>1, <2>2
  <1>. SUFFICES ASSUME NEW k
                PROVE  TimeIn(F2, ch, p, k) = TimeIn(F, ch, p, k)
    OBVIOUS
  <1>. HIDE DEF F2, D, D2, n
  <1>7. CASE F[p].kind = "StartData"
    BY <1>2, <1>7 DEF TimeIn
  <1>8. CASE F[p].kind = "ContinuedData"
    <2>. DEFINE s == LatestIn(F, ch, {"StartData"}, p)
    <2>1. UsableIn(F, ch, {"StartData"}, p) # {}
      BY <1>8 DEF Begun
    <2>2. F2[s] = F[s]
      BY <1>6, <2>1
    <2>3. TimeIn(F, ch, p, k) =
             saturating_add(F[s].start, (CountIn(F, Between(D, s, p)) + k - 1) * F[s].period)
      BY <1>8 DEF TimeIn, Between, D
    <2>4. LatestIn(F2, ch, {"StartData"}, p) = s
      BY <1>3
    <2>. HIDE DEF s
    <2>5. TimeIn(F2, ch, p, k) =
             saturating_add(F2[s].start, (CountIn(F2, Between(D2, s, p)) + k - 1) * F2[s].period)
      BY <1>2, <1>8, <2>4 DEF TimeIn, Between, D2
    <2>. QED  BY <1>4, <1>5, <2>2, <2>3, <2>5
  <1>9. CASE F[p].kind = "AbsTimestampData"
    BY <1>2, <1>9 DEF TimeIn
  <1>10. CASE F[p].kind = "ContinuedRelStampData"
    <2>. DEFINE s == LatestIn(F, ch, {"AbsTimestampData"}, p)
    <2>1. UsableIn(F, ch, {"AbsTimestampData"}, p) # {}
      BY <1>10 DEF Begun
    <2>2. F2[s] = F[s]
      BY <1>6, <2>1
    <2>3. TimeIn(F, ch, p, k) =
             saturating_add(F[s].times[Len(F[s].times)],
                            WaitIn(F, Behind(D, s, p)) + FirstDeltas(F[p].times, k))
      BY <1>10 DEF TimeIn, Behind, D
    <2>4. LatestIn(F2, ch, {"AbsTimestampData"}, p) = s
      BY <1>3
    <2>. HIDE DEF s
    <2>5. TimeIn(F2, ch, p, k) =
             saturating_add(F2[s].times[Len(F2[s].times)],
                            WaitIn(F2, Behind(D2, s, p)) + FirstDeltas(F2[p].times, k))
      BY <1>2, <1>10, <2>4 DEF TimeIn, Behind, D2
    <2>. QED  BY <1>2, <1>4, <1>5, <2>2, <2>3, <2>5
  <1>11. F[p].kind \in Kinds /\ F[p].kind # "Skipped"
    <2>1. F[p] \in Blocks
      BY <1>2 DEF n
    <2>2. F[p].kind # "Skipped"
      BY DEF DataIn
    <2>. QED  BY <2>1, <2>2, BlockFields
  <1>. QED  BY <1>7, <1>8, <1>9, <1>10, <1>11 DEF Kinds

\* What a block tells of its channel, when it is the last that was read.
Tells(F, b, ch) ==
    IF b.channel_index = ch /\ b.kind # "Skipped"
    THEN [k \in DOMAIN b.values |-> <<TimeIn(Append(F, b), ch, After(F), k), b.values[k]>>]
    ELSE <<>>

\* What is told of a channel grows at the end.
LEMMA ToldGrows ==
    ASSUME NEW F \in Seq(Blocks), NEW b \in Blocks, NEW ch, Begun(F, ch),
           Told(F, ch) \in Seq(Seq(Sample)), Tells(F, b, ch) \in Seq(Sample)
    PROVE  /\ Told(Append(F, b), ch) \in Seq(Seq(Sample))
           /\ FlattenSeq(Told(Append(F, b), ch)) = FlattenSeq(Told(F, ch)) \o Tells(F, b, ch)
  <1>. DEFINE F2 == Append(F, b)
              n == Len(F)
              D == DataIn(F, ch)
              D2 == DataIn(F2, ch)
              T == Told(F, ch)
              T2 == Told(F2, ch)
              e == Tells(F, b, ch)
  <1>1. /\ n \in Nat /\ D \in SUBSET (1..n) /\ Len(F2) = n + 1
        /\ \A q \in 1..n : F2[q] = F[q]
        /\ F2[n + 1] = b
        /\ DOMAIN F = 1..n /\ DOMAIN F2 = 1..(n + 1)
        /\ D2 = IF b.channel_index = ch /\ b.kind # "Skipped" THEN D \cup {n + 1} ELSE D
    BY DataGrows
  <1>2. \A p \in D : \A k : TimeIn(F2, ch, p, k) = TimeIn(F, ch, p, k)
    BY TimeKept
  <1>3. T = [p \in 1..n |-> T[p]] /\ T2 = [p \in 1..(n + 1) |-> T2[p]]
    BY <1>1 DEF Told
  <1>4. \A p \in 1..n : T2[p] = T[p]
    <2>. SUFFICES ASSUME NEW p \in 1..n
                  PROVE  T2[p] = T[p]
      OBVIOUS
    <2>1. p \in DOMAIN F /\ p \in DOMAIN F2 /\ p # n + 1 /\ F2[p] = F[p]
      BY <1>1
    <2>2. p \in D2 <=> p \in D
      BY <1>1, <2>1
    <2>3. T[p] = IF p \in D
                 THEN [k \in DOMAIN F[p].values |-> <<TimeIn(F, ch, p, k), F[p].values[k]>>]
                 ELSE <<>>
      BY <2>1 DEF Told
    <2>4. T2[p] = IF p \in D2
                  THEN [k \in DOMAIN F2[p].values |-> <<TimeIn(F2, ch, p, k), F2[p].values[k]>>]
                  ELSE <<>>
      BY <2>1 DEF Told
    <2>5. CASE p \in D
      <3>1. \A k : TimeIn(F2, ch, p, k) = TimeIn(F, ch, p, k)
        BY <1>2, <2>5
      <3>. HIDE DEF T, T2, D, D2, F2
      <3>. QED  BY <2>1, <2>2, <2>3, <2>4, <2>5, <3>1
    <2>6. CASE p \notin D
      BY <2>2, <2>3, <2>4, <2>6
    <2>. QED  BY <2>5, <2>6
  <1>5. T2[n + 1] = e
    <2>1. n + 1 \in DOMAIN F2 /\ n + 1 \notin D /\ After(F) = n + 1
      BY <1>1 DEF After
    <2>2. T2[n + 1] = IF n + 1 \in D2
                  THEN [k \in DOMAIN b.values |-> <<TimeIn(F2, ch, n + 1, k), b.values[k]>>]
                  ELSE <<>>
      BY <1>1, <2>1 DEF Told
    <2>3. e = IF b.channel_index = ch /\ b.kind # "Skipped"
              THEN [k \in DOMAIN b.values |-> <<TimeIn(F2, ch, n + 1, k), b.values[k]>>]
              ELSE <<>>
      BY <2>1 DEF Tells
    <2>. HIDE DEF T2, e, D, D2, F2
    <2>. QED  BY <1>1, <2>1, <2>2, <2>3
  <1>6. T \in Seq(Seq(Sample)) /\ e \in Seq(Sample)
    OBVIOUS
  <1>. HIDE DEF T, T2, e, D, D2, F2, n
  <1>7. Len(T) = n
    <2>1. DOMAIN T = 1..n
      BY <1>3
    <2>. QED  BY <1>1, <1>6, <2>1
  <1>8. T2 = Append(T, e) /\ Append(T, e) \in Seq(Seq(Sample))
    <2>. DEFINE A == Append(T, e)
    <2>1. /\ A \in Seq(Seq(Sample)) /\ Len(A) = n + 1 /\ A[n + 1] = e
          /\ \A p \in 1..n : A[p] = T[p]
      BY <1>6, <1>7
    <2>2. \A p \in 1..(n + 1) : p \in 1..n \/ p = n + 1
      BY <1>1
    <2>. HIDE DEF A
    <2>3. \A p \in 1..(n + 1) : T2[p] = A[p]
      BY <1>4, <1>5, <2>1, <2>2
    <2>4. A = [p \in 1..(n + 1) |-> A[p]]
      BY <1>1, <2>1
    <2>5. T2 = A
      BY <1>3, <2>3, <2>4
    <2>. QED  BY <2>1, <2>5 DEF A
  <1>9. FlattenSeq(Append(T, e)) = FlattenSeq(T) \o e
    BY <1>6, FlattenAppend
  <1>10. T2 \in Seq(Seq(Sample)) /\ FlattenSeq(T2) = FlattenSeq(T) \o e
    BY <1>8, <1>9
  <1>. QED  BY <1>10 DEF T, T2, e, F2

---------------------------------------------------------------------------
(* A builder is what the blocks of its channel made of it. *)

\* The kinds of the blocks of a channel.
KindsIn(F, ch) == {F[p].kind : p \in DataIn(F, ch)}

\* The state of a builder tells which blocks the channel has had.
KindsFit(c, F, ch) ==
    /\ c.state \in {"Pending", "Unsupported"} => KindsIn(F, ch) = {}
    /\ c.state = "Equidistant" =>
          KindsIn(F, ch) # {} /\ KindsIn(F, ch) \subseteq {"StartData", "ContinuedData"}
    /\ c.state = "Timestamped" =>
          /\ KindsIn(F, ch) # {}
          /\ KindsIn(F, ch) \subseteq {"AbsTimestampData", "ContinuedRelStampData"}
    /\ c.state = "Variable" => KindsIn(F, ch) \subseteq {"AbsTimestampData"}

\* The blocks from lo on, and those behind it.
Since(D, lo) == {q \in D : lo <= q}
Past(D, lo)  == {q \in D : lo < q}

\* The block that the next one would build on.
LatestOf(F, ch, kind) == LatestIn(F, ch, {kind}, After(F))
HasLatest(F, ch, kind) == UsableIn(F, ch, {kind}, After(F)) # {}

\* The last segment is that of the latest bcStartData block, and counts what followed.
SegmentIsLatest(c, F, ch) ==
    LET s == LatestOf(F, ch, "StartData")
    IN  /\ HasLatest(F, ch, "StartData")
        /\ LastSegment(c).start = F[s].start /\ LastSegment(c).period = F[s].period
        /\ LastSegment(c).sample_count = CountIn(F, Since(DataIn(F, ch), s))

\* The anchor is the last absolute time and the deltas that followed.
AnchorIsLatest(c, F, ch) ==
    LET a == LatestOf(F, ch, "AbsTimestampData")
        d == WaitIn(F, Past(DataIn(F, ch), a))
    IN  c.last_timestamp_ns # NoTime =>
            /\ HasLatest(F, ch, "AbsTimestampData")
            /\ d \in Nat
            /\ c.last_timestamp_ns = saturating_add(F[a].times[Len(F[a].times)], d)

\* A builder is what the blocks of its channel made of it.
Matches(c, F, ch) ==
    /\ Begun(F, ch) /\ Told(F, ch) \in Seq(Seq(Sample))
    /\ Presented(c) = FlattenSeq(Told(F, ch))
    /\ KindsFit(c, F, ch)
    /\ c.state = "Equidistant" => SegmentIsLatest(c, F, ch)
    /\ c.state = "Timestamped" => AnchorIsLatest(c, F, ch)

\* The latest block is one of the channel, of that kind.
LEMMA LatestFacts ==
    ASSUME NEW F \in Seq(Blocks), NEW b \in Blocks, NEW ch, NEW kind, HasLatest(F, ch, kind)
    PROVE  /\ LatestOf(F, ch, kind) \in DataIn(F, ch)
           /\ LatestOf(F, ch, kind) \in 1..Len(F)
           /\ Append(F, b)[LatestOf(F, ch, kind)] = F[LatestOf(F, ch, kind)]
           /\ F[LatestOf(F, ch, kind)] \in Blocks
           /\ F[LatestOf(F, ch, kind)].kind = kind
           /\ kind = "StartData" \/ F[LatestOf(F, ch, kind)].values # <<>>
  <1>. DEFINE s == LatestOf(F, ch, kind)
  <1>1. s \in UsableIn(F, ch, {kind}, After(F))
    BY LatestFound DEF HasLatest, LatestOf
  <1>. HIDE DEF s
  <1>2. /\ s \in DataIn(F, ch) /\ F[s].kind = kind
        /\ kind = "StartData" \/ F[s].values # <<>>
    BY <1>1 DEF UsableIn
  <1>3. /\ DataIn(F, ch) \in SUBSET (1..Len(F))
        /\ \A q \in 1..Len(F) : Append(F, b)[q] = F[q] /\ F[q] \in Blocks
    BY DataGrows
  <1>. QED  BY <1>2, <1>3 DEF s

\* Blocks of other channels, and skipped ones, change nothing.
LEMMA MatchesKept ==
    ASSUME NEW c, NEW F \in Seq(Blocks), NEW b \in Blocks, NEW ch, Matches(c, F, ch),
           b.channel_index # ch \/ b.kind = "Skipped"
    PROVE  Matches(c, Append(F, b), ch)
  <1>. DEFINE F2 == Append(F, b)
              n == Len(F)
              D == DataIn(F, ch)
  <1>1. /\ n \in Nat /\ D \in SUBSET (1..n) /\ F2 \in Seq(Blocks)
        /\ \A q \in 1..n : F2[q] = F[q]
        /\ DataIn(F2, ch) = D
    BY DataGrows
  <1>2. \A kinds : UsableIn(F2, ch, kinds, After(F2)) = UsableIn(F, ch, kinds, After(F))
    BY UsableGrows
  <1>3. \A kind : /\ LatestOf(F2, ch, kind) = LatestOf(F, ch, kind)
                  /\ HasLatest(F2, ch, kind) = HasLatest(F, ch, kind)
    BY <1>2, Zenon DEF LatestOf, LatestIn, HasLatest
  <1>4. \A kind : HasLatest(F, ch, kind) => F2[LatestOf(F, ch, kind)] = F[LatestOf(F, ch, kind)]
    BY LatestFacts
  <1>5. \A lo : /\ CountIn(F2, Since(D, lo)) = CountIn(F, Since(D, lo))
                /\ WaitIn(F2, Past(D, lo)) = WaitIn(F, Past(D, lo))
    <2>. SUFFICES ASSUME NEW lo
                  PROVE  /\ CountIn(F2, Since(D, lo)) = CountIn(F, Since(D, lo))
                         /\ WaitIn(F2, Past(D, lo)) = WaitIn(F, Past(D, lo))
      OBVIOUS
    <2>1. Since(D, lo) \in SUBSET (1..n) /\ Past(D, lo) \in SUBSET (1..n)
      BY <1>1 DEF Since, Past
    <2>. HIDE DEF D
    <2>. QED  BY <2>1, CountKept
  <1>6. Begun(F2, ch)
    <2>1. \A p \in 1..n : \A kinds : UsableIn(F2, ch, kinds, p) = UsableIn(F, ch, kinds, p)
      <3>1. \A p \in 1..n : p \in 1..(n + 1)
        BY <1>1
      <3>. QED  BY <3>1, UsableKept
    <2>2. Begun(F, ch)
      BY DEF Matches
    <2>. HIDE DEF F2, D, n
    <2>. QED  BY <1>1, <2>1, <2>2 DEF Begun, D
  <1>7. KindsIn(F2, ch) = KindsIn(F, ch)
    <2>. HIDE DEF F2, n
    <2>. QED  BY <1>1 DEF KindsIn, D
  <1>8. KindsFit(c, F2, ch)
    BY <1>7 DEF KindsFit, Matches
  <1>9. Told(F2, ch) \in Seq(Seq(Sample)) /\ FlattenSeq(Told(F2, ch)) = FlattenSeq(Told(F, ch))
    <2>1. Tells(F, b, ch) = <<>> /\ Tells(F, b, ch) \in Seq(Sample)
      BY DEF Tells
    <2>2. /\ Told(F2, ch) \in Seq(Seq(Sample))
          /\ FlattenSeq(Told(F2, ch)) = FlattenSeq(Told(F, ch)) \o Tells(F, b, ch)
      BY <2>1, ToldGrows DEF Matches
    <2>3. FlattenSeq(Told(F, ch)) \in Seq(Sample)
      BY FlattenType DEF Matches
    <2>. DEFINE x == FlattenSeq(Told(F, ch))
    <2>. HIDE DEF x, F2
    <2>4. x \o <<>> = x
      BY <2>3 DEF x
    <2>. QED  BY <2>1, <2>2, <2>4 DEF x
  <1>10. ASSUME SegmentIsLatest(c, F, ch)
         PROVE  SegmentIsLatest(c, F2, ch)
    <2>. HIDE DEF F2, D
    <2>. QED  BY <1>1, <1>3, <1>4, <1>5, <1>10 DEF SegmentIsLatest, D
  <1>11. ASSUME AnchorIsLatest(c, F, ch)
         PROVE  AnchorIsLatest(c, F2, ch)
    <2>. HIDE DEF F2, D
    <2>. QED  BY <1>1, <1>3, <1>4, <1>5, <1>11 DEF AnchorIsLatest, D
  <1>. QED  BY <1>6, <1>8, <1>9, <1>10, <1>11 DEF Matches

\* A new builder has had no block.
LEMMA NewMatches ==
    ASSUME NEW ch \in Indices
    PROVE  /\ Matches(NewBuilder(ch), <<>>, ch)
           /\ LastTimed(NewBuilder(ch)) /\ SegmentTimed(NewBuilder(ch))
  <1>. DEFINE c == NewBuilder(ch)
  <1>1. /\ c.samples = <<>> /\ c.timestamps_ns = <<>>
        /\ c.last_timestamp_ns = NoTime
        /\ c.state \in {"Unsupported", "Variable", "Pending"}
    BY DEF NewBuilder, initial_state_for
  <1>. HIDE DEF c
  <1>2. DataIn(<<>>, ch) = {}
    BY DEF DataIn
  <1>3. Presented(c) = <<>>
    BY <1>1 DEF Presented
  <1>4. Told(<<>>, ch) = <<>>
    BY DEF Told
  <1>5. Presented(c) = FlattenSeq(Told(<<>>, ch)) /\ Told(<<>>, ch) \in Seq(Seq(Sample))
    <2>1. Presented(c) = FlattenSeq(Told(<<>>, ch))
      BY <1>3, <1>4, FlattenNothing, Zenon
    <2>2. \A S : <<>> \in Seq(S)
      OBVIOUS
    <2>. QED  BY <1>4, <2>1, <2>2, Zenon
  <1>6. Begun(<<>>, ch) /\ KindsFit(c, <<>>, ch)
    BY <1>1, <1>2 DEF Begun, KindsFit, KindsIn
  <1>7. Matches(c, <<>>, ch)
    BY <1>1, <1>5, <1>6 DEF Matches
  <1>8. LastTimed(c) /\ SegmentTimed(c)
    BY <1>1, <1>3 DEF LastTimed, SegmentTimed
  <1>. QED  BY <1>7, <1>8 DEF c

\* A data block joins those of its channel.
LEMMA GrowingData ==
    ASSUME NEW F \in Seq(Blocks), NEW b \in Blocks, NEW ch, b.channel_index = ch,
           b.kind # "Skipped"
    PROVE  /\ DataIn(Append(F, b), ch) = DataIn(F, ch) \cup {After(F)}
           /\ After(F) \in Nat /\ After(F) \notin DataIn(F, ch)
           /\ DataIn(F, ch) \in SUBSET (1..Len(F))
           /\ KindsIn(Append(F, b), ch) = KindsIn(F, ch) \cup {b.kind}
           /\ Append(F, b)[After(F)] = b
           /\ \A p \in DataIn(F, ch) : Append(F, b)[p] = F[p]
           /\ \A p \in DataIn(F, ch) : p < After(F) /\ p \in Nat
  <1>. DEFINE F2 == Append(F, b)
              n == Len(F)
              D == DataIn(F, ch)
              y == After(F)
  <1>1. /\ n \in Nat /\ D \in SUBSET (1..n) /\ F2 \in Seq(Blocks) /\ Len(F2) = n + 1
        /\ \A q \in 1..n : F2[q] = F[q]
        /\ F2[n + 1] = b
        /\ DataIn(F2, ch) = D \cup {n + 1}
    BY DataGrows
  <1>2. y = n + 1
    BY <1>1 DEF After
  <1>3. y \in Nat /\ y \notin D /\ \A p \in D : F2[p] = F[p] /\ p < y /\ p \in Nat
    BY <1>1, <1>2
  <1>4. KindsIn(F2, ch) = KindsIn(F, ch) \cup {b.kind}
    <2>. HIDE DEF F2, D, n, y
    <2>. QED  BY <1>1, <1>2, <1>3 DEF KindsIn, D
  <1>. HIDE DEF F2, n, D, y
  <1>5. DataIn(F2, ch) = D \cup {y} /\ F2[y] = b
    BY <1>1, <1>2
  <1>6. D \in SUBSET (1..Len(F))
    BY <1>1 DEF n
  <1>. QED  BY <1>3, <1>4, <1>5, <1>6 DEF F2, D, y

\* The block that joins is the latest if another can build on it.
LEMMA GrowingLatest ==
    ASSUME NEW F \in Seq(Blocks), NEW b \in Blocks, NEW ch, b.channel_index = ch,
           b.kind # "Skipped", NEW kinds
    PROVE  LET F2 == Append(F, b)
           IN  /\ IsUsable(b, kinds) =>
                     /\ UsableIn(F2, ch, kinds, After(F2)) # {}
                     /\ LatestIn(F2, ch, kinds, After(F2)) = After(F)
               /\ ~IsUsable(b, kinds) =>
                     /\ UsableIn(F2, ch, kinds, After(F2)) = UsableIn(F, ch, kinds, After(F))
                     /\ LatestIn(F2, ch, kinds, After(F2)) = LatestIn(F, ch, kinds, After(F))
  <1>. DEFINE F2 == Append(F, b)
              D == DataIn(F, ch)
              y == After(F)
              U == UsableIn(F2, ch, kinds, After(F2))
              V == UsableIn(F, ch, kinds, After(F))
  <1>1. F2 \in Seq(Blocks)
    OBVIOUS
  <1>2. y \in Nat
    BY GrowingData
  <1>3. \A p \in V : p < y /\ p \in Nat
    <2>1. \A p \in D : p < y /\ p \in Nat
      BY GrowingData
    <2>2. V \subseteq D
      BY DEF UsableIn
    <2>. HIDE DEF D, y, V
    <2>. QED  BY <2>1, <2>2
  <1>4. ASSUME IsUsable(b, kinds)
        PROVE  U # {} /\ LatestIn(F2, ch, kinds, After(F2)) = y
    <2>1. U = V \cup {y}
      BY <1>4, UsableGrows
    <2>. HIDE DEF V, y
    <2>2. \A q \in U : q <= y
      <3>. HIDE DEF U
      <3>. QED  BY <1>2, <1>3, <2>1
    <2>3. y \in U
      BY <2>1
    <2>. HIDE DEF F2
    <2>4. LatestIn(F2, ch, kinds, After(F2)) = y
      BY <1>1, <2>2, <2>3, LatestIs
    <2>. QED  BY <2>3, <2>4
  <1>5. ASSUME ~IsUsable(b, kinds)
        PROVE  U = V /\ LatestIn(F2, ch, kinds, After(F2)) = LatestIn(F, ch, kinds, After(F))
    <2>1. U = V
      BY <1>5, UsableGrows
    <2>. QED  BY <2>1, Zenon DEF LatestIn
  <1>. QED  BY <1>4, <1>5

\* A block that fits finds a block to continue.
LEMMA BegunGrows ==
    ASSUME NEW c, NEW F \in Seq(Blocks), NEW b \in Blocks, NEW ch, b.channel_index = ch,
           b.kind # "Skipped", Fitting(c, b), Matches(c, F, ch)
    PROVE  Begun(Append(F, b), ch)
  <1>. DEFINE F2 == Append(F, b)
              y == After(F)
              D == DataIn(F, ch)
  <1>1. /\ DataIn(F2, ch) = D \cup {y} /\ F2[y] = b
        /\ \A p \in D : F2[p] = F[p]
    <2>1. DataIn(F2, ch) = D \cup {y}
      BY GrowingData
    <2>2. F2[y] = b
      BY GrowingData
    <2>3. y \in Nat
      BY GrowingData
    <2>4. \A p \in D : F2[p] = F[p]
      BY GrowingData
    <2>. QED  BY <2>1, <2>4, <2>2, <2>3
  <1>2. \A p \in D \cup {y} : p \in 1..(Len(F) + 1)
    <2>1. D \in SUBSET (1..Len(F)) /\ Len(F) \in Nat
      BY GrowingData
    <2>. QED  BY <2>1 DEF After
  <1>3. \A p \in D \cup {y} : \A kinds : UsableIn(F2, ch, kinds, p) = UsableIn(F, ch, kinds, p)
    BY <1>2, UsableKept
  <1>4. b.kind = "ContinuedData" => UsableIn(F, ch, {"StartData"}, y) # {}
    BY DEF Fitting, Matches, SegmentIsLatest, HasLatest
  <1>5. b.kind = "ContinuedRelStampData" => UsableIn(F, ch, {"AbsTimestampData"}, y) # {}
    BY DEF Fitting, Matches, AnchorIsLatest, HasLatest
  <1>6. Begun(F, ch)
    BY DEF Matches
  <1>. HIDE DEF F2, y, D
  <1>7. Begun(F2, ch)
    BY <1>1, <1>3, <1>4, <1>5, <1>6 DEF Begun, D
  <1>. QED  BY <1>7 DEF F2

\* A block that fits tells the times the builder gives its samples.
LEMMA TellsTimes ==
    ASSUME NEW c, NEW F \in Seq(Blocks), NEW b \in Blocks, NEW ch, b.channel_index = ch,
           b.kind # "Skipped", Sound(c), Fitting(c, b), Matches(c, F, ch)
    PROVE  \A k \in 1..Len(b.values) :
              TimeIn(Append(F, b), ch, After(F), k) = TimesOf(c, b)[k]
  <1>. DEFINE F2 == Append(F, b)
              y == After(F)
              D == DataIn(F, ch)
              n == Len(F)
  <1>1. /\ DataIn(F2, ch) = D \cup {y} /\ F2[y] = b /\ y \in Nat
        /\ \A p \in D : F2[p] = F[p]
    <2>1. DataIn(F2, ch) = D \cup {y}
      BY GrowingData
    <2>2. F2[y] = b
      BY GrowingData
    <2>3. y \in Nat
      BY GrowingData
    <2>4. \A p \in D : F2[p] = F[p]
      BY GrowingData
    <2>. QED  BY <2>1, <2>4, <2>2, <2>3
  <1>2. \A p \in D : p < y /\ p \in Nat
    BY GrowingData
  <1>3. D \in SUBSET (1..n)
    BY GrowingData
  <1>4. \A kinds : LatestIn(F2, ch, kinds, y) = LatestIn(F, ch, kinds, y)
    <2>1. y \in 1..(n + 1)
      BY DEF After
    <2>. QED  BY <2>1, UsableKept
  <1>5. DOMAIN b.values = 1..Len(b.values)
    BY BlockFields
  <1>. HIDE DEF F2, y, D, n
  <1>6. DataIn(F2, ch) = D \cup {y} /\ y \in Nat /\ ~(y < y)
    BY <1>1
  <1>7. \A lo : Between(DataIn(F2, ch), lo, y) = Since(D, lo)
    BY <1>2, <1>6 DEF Between, Since
  <1>8. \A lo : Behind(DataIn(F2, ch), lo, y) = Past(D, lo)
    BY <1>2, <1>6 DEF Behind, Past
  <1>9. \A lo : /\ CountIn(F2, Since(D, lo)) = CountIn(F, Since(D, lo))
                /\ WaitIn(F2, Past(D, lo)) = WaitIn(F, Past(D, lo))
    <2>. SUFFICES ASSUME NEW lo
                  PROVE  /\ CountIn(F2, Since(D, lo)) = CountIn(F, Since(D, lo))
                         /\ WaitIn(F2, Past(D, lo)) = WaitIn(F, Past(D, lo))
      OBVIOUS
    <2>1. Since(D, lo) \in SUBSET (1..n) /\ Past(D, lo) \in SUBSET (1..n)
      BY <1>3 DEF Since, Past
    <2>. QED  BY <2>1, CountKept DEF F2, n
  <1>. SUFFICES ASSUME NEW k \in 1..Len(b.values)
                PROVE  TimeIn(F2, ch, y, k) = TimesOf(c, b)[k]
    BY DEF F2, y
  <1>10. CASE b.kind = "StartData"
    <2>1. TimeIn(F2, ch, y, k) = saturating_add(b.start, (k - 1) * b.period)
      BY <1>1, <1>10 DEF TimeIn
    <2>2. TimesOf(c, b)[k] = saturating_add(b.start, (0 + k - 1) * b.period)
      BY <1>5, <1>10 DEF TimesOf, Regular
    <2>3. 0 + k - 1 = k - 1
      OBVIOUS
    <2>. QED  BY <2>1, <2>2, <2>3
  <1>11. CASE b.kind = "ContinuedData"
    <2>. DEFINE s == LatestOf(F, ch, "StartData")
                m == LastSegment(c).sample_count
    <2>1. SegmentIsLatest(c, F, ch)
      BY <1>11 DEF Fitting, Matches
    <2>2. F2[s] = F[s]
      BY <2>1, LatestFacts DEF SegmentIsLatest, F2
    <2>3. LatestIn(F2, ch, {"StartData"}, y) = s
      BY <1>4 DEF LatestOf, y
    <2>4. /\ LastSegment(c).start = F[s].start /\ LastSegment(c).period = F[s].period
          /\ m = CountIn(F, Since(D, s))
      BY <2>1 DEF SegmentIsLatest, D
    <2>5. TimesOf(c, b)[k] = saturating_add(F[s].start, (m + k - 1) * F[s].period)
      BY <1>5, <1>11, <2>4 DEF TimesOf, Regular
    <2>. HIDE DEF s, m
    <2>6. TimeIn(F2, ch, y, k) =
             saturating_add(F2[s].start,
                 (CountIn(F2, Between(DataIn(F2, ch), s, y)) + k - 1) * F2[s].period)
      BY <1>1, <1>11, <2>3 DEF TimeIn, Between
    <2>. QED  BY <1>7, <1>9, <2>2, <2>4, <2>5, <2>6
  <1>12. CASE b.kind = "AbsTimestampData"
    BY <1>1, <1>12 DEF TimeIn, TimesOf
  <1>13. CASE b.kind = "ContinuedRelStampData"
    <2>. DEFINE a == LatestOf(F, ch, "AbsTimestampData")
                x == F[a].times[Len(F[a].times)]
                d == WaitIn(F, Past(D, a))
    <2>1. AnchorIsLatest(c, F, ch) /\ c.last_timestamp_ns # NoTime
      BY <1>13 DEF Fitting, Matches
    <2>2. /\ HasLatest(F, ch, "AbsTimestampData") /\ d \in Nat
          /\ c.last_timestamp_ns = saturating_add(x, d)
      BY <2>1 DEF AnchorIsLatest, D
    <2>3. F2[a] = F[a]
      BY <2>2, LatestFacts DEF F2
    <2>4. x \in Int
      <3>1. F[a] \in Blocks /\ F[a].values # <<>> /\ F[a].kind = "AbsTimestampData"
        BY <2>2, LatestFacts
      <3>. DEFINE g == F[a]
      <3>2. g \in Blocks /\ g.values # <<>> /\ g.kind = "AbsTimestampData"
        BY <3>1
      <3>. HIDE DEF g
      <3>3. g.times \in Seq(Int) /\ g.values \in Seq(Nat) /\ Len(g.times) = Len(g.values)
        BY <3>2, BlockFields
      <3>4. g.times[Len(g.times)] \in Int
        BY <3>2, <3>3
      <3>. QED  BY <3>4 DEF g
    <2>5. LatestIn(F2, ch, {"AbsTimestampData"}, y) = a
      BY <1>4 DEF LatestOf, y
    <2>6. b.times \in Seq(Nat) /\ Len(b.times) = Len(b.values)
      BY <1>13, BlockFields
    <2>7. d = WaitIn(F, Past(D, a)) /\ F2[a].times[Len(F2[a].times)] = x
      BY <2>3
    <2>. HIDE DEF a, x, d
    <2>8. TimesOf(c, b)[k] = saturating_add(x, d + FirstDeltas(b.times, k))
      <3>. DEFINE T == Accumulate(saturating_add(x, d), b.times)
      <3>1. TimesOf(c, b) = T
        BY <1>13, <2>2 DEF TimesOf
      <3>2. \A i \in 1..Len(b.times) : T[i] = saturating_add(x, d + FirstDeltas(b.times, i))
        <4>. DEFINE deltas == b.times
        <4>1. deltas \in Seq(Nat)
          BY <2>6
        <4>. HIDE DEF deltas
        <4>2. \A i \in 1..Len(deltas) : Accumulate(saturating_add(x, d), deltas)[i]
                  = saturating_add(x, d + FirstDeltas(deltas, i))
          BY <2>2, <2>4, <4>1, AccumulateSums
        <4>. QED  BY <4>2 DEF deltas
      <3>. HIDE DEF T
      <3>. QED  BY <2>6, <3>1, <3>2
    <2>9. TimeIn(F2, ch, y, k) =
             saturating_add(F2[a].times[Len(F2[a].times)],
                 WaitIn(F2, Behind(DataIn(F2, ch), a, y)) + FirstDeltas(b.times, k))
      BY <1>1, <1>13, <2>5 DEF TimeIn, Behind
    <2>. QED  BY <1>8, <1>9, <2>7, <2>8, <2>9
  <1>14. b.kind \in Kinds
    BY BlockFields
  <1>. QED  BY <1>10, <1>11, <1>12, <1>13, <1>14 DEF Kinds

\* A block that fits is of a kind its state allows.
LEMMA KindsGrow ==
    ASSUME NEW c, NEW F \in Seq(Blocks), NEW b \in Blocks, NEW ch, b.channel_index = ch,
           b.kind # "Skipped", Sound(c), Fitting(c, b), KindsFit(c, F, ch), SegmentTimed(c)
    PROVE  KindsFit(Applied(c, b), Append(F, b), ch)
  <1>. DEFINE d == Applied(c, b)
              K == KindsIn(F, ch)
              L == KindsIn(Append(F, b), ch)
  <1>1. L = K \cup {b.kind}
    BY GrowingData
  <1>2. d.state = CASE b.kind = "StartData" -> "Equidistant"
                    [] b.kind = "ContinuedData" -> "Equidistant"
                    [] OTHER -> IF c.state = "Pending" THEN "Timestamped" ELSE c.state
    BY AppliedLast
  <1>3. b.kind \in Kinds
    BY BlockFields
  <1>. HIDE DEF d, L
  <1>4. CASE b.kind \in {"StartData", "ContinuedData"}
    <2>1. d.state = "Equidistant"
      BY <1>2, <1>4
    <2>2. c.state \in {"Pending", "Equidistant"}
      BY <1>4 DEF Fitting
    <2>3. K \subseteq {"StartData", "ContinuedData"}
      BY <2>2 DEF KindsFit
    <2>. HIDE DEF K
    <2>4. KindsFit(d, Append(F, b), ch)
      BY <1>1, <1>4, <2>1, <2>3 DEF KindsFit, L
    <2>. QED  BY <2>4 DEF d
  <1>5. CASE b.kind \in {"AbsTimestampData", "ContinuedRelStampData"}
    <2>1. /\ c.state \in {"Pending", "Timestamped", "Variable"}
          /\ b.kind = "ContinuedRelStampData" => c.state = "Timestamped"
      BY <1>5 DEF Fitting
    <2>2. d.state = IF c.state = "Pending" THEN "Timestamped" ELSE c.state
      BY <1>2, <1>5
    <2>3. /\ K \subseteq {"AbsTimestampData", "ContinuedRelStampData"}
          /\ c.state = "Variable" => K \subseteq {"AbsTimestampData"}
      BY <2>1 DEF KindsFit
    <2>. HIDE DEF K
    <2>4. KindsFit(d, Append(F, b), ch)
      BY <1>1, <1>5, <2>1, <2>2, <2>3 DEF KindsFit, L
    <2>. QED  BY <2>4 DEF d
  <1>. QED  BY <1>3, <1>4, <1>5 DEF Kinds

\* The last segment goes on to count since the latest start.
LEMMA SegmentGrows ==
    ASSUME NEW c, NEW F \in Seq(Blocks), NEW b \in Blocks, NEW ch, b.channel_index = ch,
           b.kind \in {"StartData", "ContinuedData"}, Sound(c), Fitting(c, b),
           Matches(c, F, ch), SegmentTimed(c)
    PROVE  SegmentIsLatest(Applied(c, b), Append(F, b), ch)
  <1>. DEFINE d == Applied(c, b)
              F2 == Append(F, b)
              D == DataIn(F, ch)
              E == DataIn(F2, ch)
              y == After(F)
              l == Len(b.values)
  <1>1. b.kind # "Skipped"
    OBVIOUS
  <1>2. E = D \cup {y} /\ F2[y] = b /\ y \in Nat
    <2>1. E = D \cup {y}
      BY <1>1, GrowingData
    <2>2. F2[y] = b
      BY <1>1, GrowingData
    <2>3. y \in Nat
      BY <1>1, GrowingData
    <2>. QED  BY <2>1, <2>2, <2>3
  <1>3. (\A p \in D : p < y /\ p \in Nat) /\ \A p \in D : p \in 1..Len(F)
    <2>1. \A p \in D : p < y /\ p \in Nat
      BY <1>1, GrowingData
    <2>2. D \in SUBSET (1..Len(F))
      BY <1>1, GrowingData
    <2>. QED  BY <2>1, <2>2
  <1>. HIDE DEF D, E
  <1>4. CASE b.kind = "StartData"
    <2>1. /\ LastSegment(d).start = b.start /\ LastSegment(d).period = b.period
          /\ LastSegment(d).sample_count = l
      BY <1>4, AppliedLast
    <2>2. IsUsable(b, {"StartData"})
      BY <1>4 DEF IsUsable
    <2>3. HasLatest(F2, ch, "StartData") /\ LatestOf(F2, ch, "StartData") = y
      BY <1>1, <2>2, GrowingLatest DEF HasLatest, LatestOf
    <2>4. Since(E, y) = {} \cup {y}
      <3>. HIDE DEF y
      <3>. QED  BY <1>2, <1>3 DEF Since
    <2>5. CountIn(F2, {} \cup {y}) = l
      <3>. DEFINE S == {}
      <3>1. \A q \in S : q \in 1..Len(F)
        OBVIOUS
      <3>2. CountIn(F, S) = 0
        BY SumOverNothing DEF CountIn
      <3>. HIDE DEF S
      <3>3. CountIn(Append(F, b), S \cup {Len(F) + 1}) = CountIn(F, S) + Len(b.values)
        BY <3>1, CountGrows
      <3>4. l \in Nat
        BY BlockFields
      <3>. QED  BY <3>2, <3>3, <3>4 DEF After, S
    <2>. HIDE DEF d, F2, y, l
    <2>6. SegmentIsLatest(d, F2, ch)
      BY <1>2, <2>1, <2>3, <2>4, <2>5 DEF SegmentIsLatest, E
    <2>. QED  BY <2>6 DEF d, F2
  <1>5. CASE b.kind = "ContinuedData"
    <2>. DEFINE s == LatestOf(F, ch, "StartData")
    <2>1. /\ LastSegment(d).start = LastSegment(c).start
          /\ LastSegment(d).period = LastSegment(c).period
          /\ LastSegment(d).sample_count = LastSegment(c).sample_count + l
      BY <1>5, AppliedLast
    <2>2. SegmentIsLatest(c, F, ch)
      BY <1>5 DEF Fitting, Matches
    <2>3. ~IsUsable(b, {"StartData"})
      BY <1>5 DEF IsUsable
    <2>4. HasLatest(F, ch, "StartData")
      BY <2>2 DEF SegmentIsLatest
    <2>5. HasLatest(F2, ch, "StartData") /\ LatestOf(F2, ch, "StartData") = s
      BY <1>1, <2>3, <2>4, GrowingLatest DEF HasLatest, LatestOf
    <2>6. s \in D /\ F2[s] = F[s]
      BY <2>4, LatestFacts DEF D
    <2>7. /\ LastSegment(c).start = F[s].start /\ LastSegment(c).period = F[s].period
          /\ LastSegment(c).sample_count = CountIn(F, Since(D, s))
      BY <2>2 DEF SegmentIsLatest, D
    <2>. HIDE DEF s
    <2>8. Since(E, s) = Since(D, s) \cup {y}
      <3>1. s <= y
        BY <1>2, <1>3, <2>6
      <3>. HIDE DEF y
      <3>. QED  BY <1>2, <3>1 DEF Since
    <2>9. CountIn(F2, Since(D, s) \cup {y}) = CountIn(F, Since(D, s)) + l
      <3>. DEFINE S == Since(D, s)
      <3>1. \A q \in S : q \in 1..Len(F)
        BY <1>3 DEF Since
      <3>. HIDE DEF S
      <3>2. CountIn(Append(F, b), S \cup {Len(F) + 1}) = CountIn(F, S) + Len(b.values)
        BY <3>1, CountGrows
      <3>. QED  BY <3>2 DEF After, S
    <2>. HIDE DEF d, F2, y, l
    <2>10. SegmentIsLatest(d, F2, ch)
      BY <2>1, <2>5, <2>6, <2>7, <2>8, <2>9 DEF SegmentIsLatest, E
    <2>. QED  BY <2>10 DEF d, F2
  <1>. QED  BY <1>4, <1>5

\* The anchor goes on to be the latest absolute time and the deltas since.
LEMMA AnchorGrows ==
    ASSUME NEW c, NEW F \in Seq(Blocks), NEW b \in Blocks, NEW ch, b.channel_index = ch,
           b.kind \in {"AbsTimestampData", "ContinuedRelStampData"}, Sound(c), Fitting(c, b),
           c.state = "Pending" => c.last_timestamp_ns = NoTime,
           c.state # "Variable", Matches(c, F, ch), SegmentTimed(c)
    PROVE  AnchorIsLatest(Applied(c, b), Append(F, b), ch)
  <1>. DEFINE d == Applied(c, b)
              F2 == Append(F, b)
              D == DataIn(F, ch)
              E == DataIn(F2, ch)
              y == After(F)
              l == Len(b.values)
  <1>1. b.kind # "Skipped"
    OBVIOUS
  <1>2. E = D \cup {y} /\ F2[y] = b /\ y \in Nat
    <2>1. E = D \cup {y}
      BY <1>1, GrowingData
    <2>2. F2[y] = b
      BY <1>1, GrowingData
    <2>3. y \in Nat
      BY <1>1, GrowingData
    <2>. QED  BY <2>1, <2>2, <2>3
  <1>3. (\A p \in D : p < y /\ p \in Nat) /\ \A p \in D : p \in 1..Len(F)
    <2>1. \A p \in D : p < y /\ p \in Nat
      BY <1>1, GrowingData
    <2>2. D \in SUBSET (1..Len(F))
      BY <1>1, GrowingData
    <2>. QED  BY <2>1, <2>2
  <1>4. d.last_timestamp_ns = IF b.values = <<>> THEN c.last_timestamp_ns
                              ELSE TimesOf(c, b)[l]
    BY <1>1, AppliedLast
  <1>5. /\ b.values \in Seq(Nat) /\ b.times \in Seq(Int) /\ Len(b.times) = l /\ l \in Nat
        /\ \A i \in DOMAIN b.times : IsTime(b.times[i])
        /\ b.kind = "ContinuedRelStampData" => b.times \in Seq(Nat)
    BY BlockFields
  <1>. HIDE DEF D, E
  <1>6. CASE b.kind = "AbsTimestampData" /\ b.values # <<>>
    <2>1. IsUsable(b, {"AbsTimestampData"})
      BY <1>6 DEF IsUsable
    <2>2. HasLatest(F2, ch, "AbsTimestampData") /\ LatestOf(F2, ch, "AbsTimestampData") = y
      BY <1>1, <2>1, GrowingLatest DEF HasLatest, LatestOf
    <2>3. Past(E, y) = {}
      <3>. HIDE DEF y
      <3>. QED  BY <1>2, <1>3 DEF Past
    <2>4. WaitIn(F2, {}) = 0
      BY SumOverNothing DEF WaitIn
    <2>5. l \in DOMAIN b.times /\ IsTime(b.times[l])
      BY <1>5, <1>6
    <2>6. TimesOf(c, b)[l] = saturating_add(b.times[Len(b.times)], 0)
      BY <1>5, <1>6, <2>5, BlockAssumption DEF TimesOf, saturating_add, IsTime
    <2>7. d.last_timestamp_ns = saturating_add(b.times[Len(b.times)], 0)
      BY <1>4, <1>6, <2>6
    <2>. HIDE DEF d, F2, y, l
    <2>8. F2[y].times[Len(F2[y].times)] = b.times[Len(b.times)]
      BY <1>2
    <2>9. WaitIn(F2, Past(E, y)) = 0 /\ 0 \in Nat
      BY <2>3, <2>4
    <2>10. AnchorIsLatest(d, F2, ch)
      BY <2>2, <2>7, <2>8, <2>9, Zenon DEF AnchorIsLatest, E
    <2>. QED  BY <2>10 DEF d, F2
  <1>7. CASE ~(b.kind = "AbsTimestampData" /\ b.values # <<>>)
    <2>. DEFINE a == LatestOf(F, ch, "AbsTimestampData")
                x == F[a].times[Len(F[a].times)]
                w == WaitIn(F, Past(D, a))
                z == FirstDeltas(b.times, l)
    <2>. SUFFICES ASSUME d.last_timestamp_ns # NoTime
                  PROVE  /\ HasLatest(F2, ch, "AbsTimestampData")
                         /\ WaitIn(F2, Past(E, LatestOf(F2, ch, "AbsTimestampData"))) \in Nat
                         /\ d.last_timestamp_ns =
                              saturating_add(F2[LatestOf(F2, ch, "AbsTimestampData")].times[
                                   Len(F2[LatestOf(F2, ch, "AbsTimestampData")].times)],
                                WaitIn(F2, Past(E, LatestOf(F2, ch, "AbsTimestampData"))))
      BY DEF AnchorIsLatest, E
    <2>1. c.last_timestamp_ns # NoTime
      BY <1>4, <1>7 DEF Fitting
    <2>2. c.state = "Timestamped"
      BY <2>1 DEF Fitting
    <2>3. AnchorIsLatest(c, F, ch)
      BY <2>2 DEF Matches
    <2>4. /\ HasLatest(F, ch, "AbsTimestampData") /\ w \in Nat
          /\ c.last_timestamp_ns = saturating_add(x, w)
      BY <2>1, <2>3 DEF AnchorIsLatest, D
    <2>5. ~IsUsable(b, {"AbsTimestampData"})
      BY <1>7 DEF IsUsable
    <2>6. HasLatest(F2, ch, "AbsTimestampData") /\ LatestOf(F2, ch, "AbsTimestampData") = a
      BY <1>1, <2>4, <2>5, GrowingLatest DEF HasLatest, LatestOf
    <2>7. a \in D /\ F2[a] = F[a]
      BY <2>4, LatestFacts DEF D
    <2>8. x \in Int
      <3>1. F[a] \in Blocks /\ F[a].values # <<>> /\ F[a].kind = "AbsTimestampData"
        BY <2>4, LatestFacts
      <3>. DEFINE g == F[a]
      <3>2. g \in Blocks /\ g.values # <<>> /\ g.kind = "AbsTimestampData"
        BY <3>1
      <3>. HIDE DEF g
      <3>3. g.times \in Seq(Int) /\ g.values \in Seq(Nat) /\ Len(g.times) = Len(g.values)
        BY <3>2, BlockFields
      <3>4. g.times[Len(g.times)] \in Int
        BY <3>2, <3>3
      <3>. QED  BY <3>4 DEF g
    <2>9. F2[a].times[Len(F2[a].times)] = x
      BY <2>7
    <2>. HIDE DEF a, x, w
    <2>10. Past(E, a) = Past(D, a) \cup {y}
      <3>1. a < y
        BY <1>2, <1>3, <2>7
      <3>. HIDE DEF y
      <3>. QED  BY <1>2, <3>1 DEF Past
    <2>11. WaitIn(F2, Past(D, a) \cup {y}) = w + z
      <3>. DEFINE S == Past(D, a)
      <3>1. \A q \in S : q \in 1..Len(F)
        BY <1>3 DEF Past
      <3>. HIDE DEF S
      <3>2. WaitIn(Append(F, b), S \cup {Len(F) + 1})
              = WaitIn(F, S) + FirstDeltas(b.times, Len(b.times))
        BY <3>1, CountGrows
      <3>3. FirstDeltas(b.times, Len(b.times)) = z
        BY <1>5
      <3>. QED  BY <3>2, <3>3 DEF After, S, w
    <2>12. z \in Nat /\ d.last_timestamp_ns = saturating_add(x, w + z)
      <3>1. CASE l = 0
        <4>1. b.values = <<>> /\ z = 0
          BY <1>5, <3>1, FirstDeltasNone
        <4>. QED  BY <1>4, <2>4, <4>1
      <3>2. CASE l # 0
        <4>1. b.values # <<>> /\ b.kind = "ContinuedRelStampData" /\ b.times \in Seq(Nat)
          BY <1>5, <1>7, <3>2
        <4>. DEFINE deltas == b.times
        <4>2. deltas \in Seq(Nat) /\ Len(deltas) = l /\ l \in 1..l /\ l \in 0..l
          BY <1>5, <3>2, <4>1
        <4>3. TimesOf(c, b) = Accumulate(saturating_add(x, w), deltas)
          BY <2>4, <4>1 DEF TimesOf
        <4>4. z = FirstDeltas(deltas, l)
          OBVIOUS
        <4>. HIDE DEF deltas, z, l
        <4>5. Accumulate(saturating_add(x, w), deltas)[l] = saturating_add(x, w + z)
          BY <2>4, <2>8, <4>2, <4>4, AccumulateSums
        <4>6. z \in Nat
          BY <4>2, <4>4, FirstDeltasNat
        <4>. QED  BY <1>4, <4>1, <4>3, <4>5, <4>6
      <3>. QED  BY <3>1, <3>2
    <2>. HIDE DEF z, d, F2, y
    <2>13. w + z \in Nat
      BY <2>4, <2>12
    <2>. QED  BY <2>6, <2>9, <2>10, <2>11, <2>12, <2>13
  <1>. QED  BY <1>6, <1>7

\* A block that fits does to the builder what it tells of the channel.
LEMMA MatchesGrows ==
    ASSUME NEW c, NEW F \in Seq(Blocks), NEW b \in Blocks, NEW ch, b.channel_index = ch,
           b.kind # "Skipped", Sound(c), Fitting(c, b),
           SegmentTimed(c), LastTimed(c), Matches(c, F, ch)
    PROVE  Matches(Applied(c, b), Append(F, b), ch)
  <1>. DEFINE d == Applied(c, b)
              F2 == Append(F, b)
              T == TimesOf(c, b)
  <1>1. Begun(F2, ch)
    BY BegunGrows
  <1>2. KindsFit(d, F2, ch)
    BY KindsGrow DEF Matches
  <1>3. b.values \in Seq(Nat) /\ b.kind \in Kinds /\ DOMAIN b.values = 1..Len(b.values)
    BY BlockFields
  <1>4. /\ Presented(d) = Presented(c) \o Stamped(T, b.values)
        /\ \A k \in 1..Len(b.values) : T[k] \in Int
    BY AppliedPresents
  <1>5. \A k \in 1..Len(b.values) : TimeIn(F2, ch, After(F), k) = T[k]
    BY TellsTimes
  <1>6. d.state = CASE b.kind = "StartData" -> "Equidistant"
                    [] b.kind = "ContinuedData" -> "Equidistant"
                    [] OTHER -> IF c.state = "Pending" THEN "Timestamped" ELSE c.state
    BY AppliedLast
  <1>7. Tells(F, b, ch) = Stamped(T, b.values)
    <2>1. Tells(F, b, ch) =
             [k \in DOMAIN b.values |-> <<TimeIn(F2, ch, After(F), k), b.values[k]>>]
      BY DEF Tells
    <2>. HIDE DEF T, F2
    <2>. QED  BY <1>3, <1>5, <2>1 DEF Stamped
  <1>8. Stamped(T, b.values) \in Seq(Sample)
    <2>1. \A k \in DOMAIN b.values : T[k] \in Int
      BY <1>3, <1>4
    <2>. HIDE DEF T
    <2>. QED  BY <1>3, <2>1, StampedType
  <1>9. /\ Told(F2, ch) \in Seq(Seq(Sample))
        /\ FlattenSeq(Told(F2, ch)) = FlattenSeq(Told(F, ch)) \o Tells(F, b, ch)
    <2>1. Begun(F, ch) /\ Told(F, ch) \in Seq(Seq(Sample))
      BY DEF Matches
    <2>2. Tells(F, b, ch) \in Seq(Sample)
      BY <1>7, <1>8
    <2>. QED  BY <2>1, <2>2, ToldGrows
  <1>10. Presented(c) = FlattenSeq(Told(F, ch))
    BY DEF Matches
  <1>11. d.state = "Equidistant" => SegmentIsLatest(d, F2, ch)
    <2>1. d.state = "Equidistant" => b.kind \in {"StartData", "ContinuedData"}
      BY <1>3, <1>6 DEF Fitting, Kinds
    <2>. QED  BY <2>1, SegmentGrows
  <1>12. d.state = "Timestamped" => AnchorIsLatest(d, F2, ch)
    <2>1. d.state = "Timestamped" =>
             b.kind \in {"AbsTimestampData", "ContinuedRelStampData"} /\ c.state # "Variable"
      BY <1>3, <1>6 DEF Kinds
    <2>2. c.state = "Pending" => c.last_timestamp_ns = NoTime
      BY DEF LastTimed, Presented, Sound
    <2>. QED  BY <2>1, <2>2, AnchorGrows
  <1>. HIDE DEF d, F2, T
  <1>13. Matches(d, F2, ch)
    BY <1>1, <1>2, <1>4, <1>7, <1>9, <1>10, <1>11, <1>12 DEF Matches
  <1>. QED  BY <1>13 DEF d, F2

---------------------------------------------------------------------------
(* The channels of a file. *)

\* Every builder holds together and is what the blocks of its channel made of it.
Assembled ==
    /\ Stored
    /\ fed \in Seq(Blocks)
    /\ \A ch \in Indices :
          /\ builders[ch].data_type = Definition(ch).data_type
          /\ SegmentTimed(builders[ch]) /\ LastTimed(builders[ch])
          /\ Matches(builders[ch], fed, ch)

\* Init: no builder has had a block.
LEMMA InitAssembled ==
    ASSUME Init
    PROVE  Assembled
  <1>1. Stored
    BY NewIsSound DEF Init, Stored
  <1>2. fed \in Seq(Blocks) /\ fed = <<>>
    BY DEF Init
  <1>3. ASSUME NEW ch \in Indices
        PROVE  /\ builders[ch].data_type = Definition(ch).data_type
               /\ SegmentTimed(builders[ch]) /\ LastTimed(builders[ch])
               /\ Matches(builders[ch], fed, ch)
    <2>1. builders[ch] = NewBuilder(ch)
      BY DEF Init
    <2>2. builders[ch].data_type = Definition(ch).data_type
      BY <2>1 DEF NewBuilder
    <2>. QED  BY <1>2, <2>1, <2>2, NewMatches
  <1>. QED  BY <1>1, <1>2, <1>3 DEF Assembled

\* A block that is applied is told of its channel, and of no other.
LEMMA AppliedAssembled ==
    ASSUME Assembled, NEW b \in Blocks, apply_block(b)
    PROVE  Assembled'
  <1>. DEFINE x == b.channel_index
              c == builders[x]
  <1>1. /\ Error(b) = "none" /\ builders' = [builders EXCEPT ![x] = Applied(c, b)]
        /\ fed' = Append(fed, b)
    BY DEF apply_block
  <1>2. Stored /\ fed \in Seq(Blocks)
    BY DEF Assembled
  <1>3. x \in Indices /\ (b.kind # "Skipped" => Fitting(c, b)) /\ Sound(c)
    BY <1>1, <1>2, ErrorFree DEF Stored
  <1>4. Sound(Applied(c, b))
    BY <1>3, AppliedKeeps
  <1>5. DOMAIN builders = Indices
    BY <1>2 DEF Stored
  <1>6. /\ builders'[x] = Applied(c, b)
        /\ \A ch \in Indices : ch # x => builders'[ch] = builders[ch]
    BY <1>1, <1>3, <1>5
  <1>7. Stored'
    BY <1>1, <1>2, <1>4, <1>5, <1>6 DEF Stored
  <1>8. fed' \in Seq(Blocks)
    BY <1>1, <1>2
  <1>9. /\ c.data_type = Definition(x).data_type
        /\ SegmentTimed(c) /\ LastTimed(c) /\ Matches(c, fed, x)
    BY <1>3 DEF Assembled
  <1>10. /\ Applied(c, b).data_type = Definition(x).data_type
         /\ SegmentTimed(Applied(c, b)) /\ LastTimed(Applied(c, b))
         /\ Matches(Applied(c, b), Append(fed, b), x)
    <2>1. CASE b.kind = "Skipped"
      <3>1. Applied(c, b) = c
        BY <2>1 DEF Applied
      <3>2. Matches(c, Append(fed, b), x)
        BY <1>2, <1>9, <2>1, MatchesKept
      <3>. QED  BY <1>9, <3>1, <3>2
    <2>2. CASE b.kind # "Skipped"
      <3>1. Fitting(c, b)
        BY <1>3, <2>2
      <3>2. SegmentTimed(Applied(c, b)) /\ Applied(c, b).data_type = c.data_type
        BY <1>3, <1>9, <2>2, <3>1, AppliedLast
      <3>3. LastTimed(Applied(c, b))
        BY <1>3, <1>9, <2>2, <3>1, AppliedTimed
      <3>4. Matches(Applied(c, b), Append(fed, b), x)
        BY <1>2, <1>3, <1>9, <2>2, <3>1, MatchesGrows
      <3>. QED  BY <1>9, <3>2, <3>3, <3>4
    <2>. QED  BY <2>1, <2>2
  <1>11. ASSUME NEW ch \in Indices
         PROVE  /\ builders'[ch].data_type = Definition(ch).data_type
                /\ SegmentTimed(builders'[ch]) /\ LastTimed(builders'[ch])
                /\ Matches(builders'[ch], fed', ch)
    <2>1. CASE ch = x
      BY <1>1, <1>6, <1>10, <2>1
    <2>2. CASE ch # x
      <3>1. /\ builders[ch].data_type = Definition(ch).data_type
            /\ SegmentTimed(builders[ch]) /\ LastTimed(builders[ch])
            /\ Matches(builders[ch], fed, ch)
        BY DEF Assembled
      <3>2. Matches(builders[ch], Append(fed, b), ch)
        <4>. DEFINE g == builders[ch]
        <4>1. Matches(g, fed, ch) /\ b.channel_index # ch
          BY <2>2, <3>1
        <4>. HIDE DEF g
        <4>2. Matches(g, Append(fed, b), ch)
          BY <1>2, <4>1, MatchesKept
        <4>. QED  BY <4>2 DEF g
      <3>. QED  BY <1>1, <1>6, <2>2, <3>1, <3>2
    <2>. QED  BY <2>1, <2>2
  <1>12. Indices' = Indices /\ \A ch : Definition(ch)' = Definition(ch)
    BY DEF Indices, Definition
  <1>. QED  BY <1>7, <1>8, <1>11 DEF Assembled, Matches, LastTimed, SegmentTimed

\* Whatever is read, in whatever order.
LEMMA AlwaysAssembled == Spec => []Assembled
  <1>1. Init => Assembled
    BY InitAssembled
  <1>2. Assembled /\ [Next]_vars => Assembled'
    <2>. SUFFICES ASSUME Assembled, [Next]_vars
                  PROVE  Assembled'
      OBVIOUS
    <2>1. ASSUME NEW b \in Blocks, apply_block(b)
          PROVE  Assembled'
      BY <2>1, AppliedAssembled
    <2>2. CASE \/ \E b \in Blocks : Len(fed) < MaxBlocks /\ RejectBlock(b)
               \/ \E error \in IteratorErrors : Fail(error)
               \/ Finish \/ UNCHANGED vars
      <3>1. UNCHANGED <<builders, fed>>
        BY <2>2 DEF RejectBlock, Fail, Finish, vars
      <3>. QED  BY <3>1 DEF Assembled, Stored
    <2>. QED  BY <2>1, <2>2 DEF Next
  <1>. QED  BY <1>1, <1>2, PTL DEF Spec

\* For every metablock and any number of blocks: segments cover the samples of a channel
\* end to end, and timestamps and values are parallel.
THEOREM StorageAlwaysCovered == Spec => []StorageCovered
  <1>1. Assembled => StorageCovered
    BY StoredIsCovered DEF Assembled
  <1>. QED  BY <1>1, AlwaysAssembled, PTL

\* Whatever the blocks of a file and their order: every channel presents the samples of its
\* blocks, each at the time the format gives it.
THEOREM ChannelsPresentTheirBlocks == Spec => []SamplesAreFed
  <1>1. Assembled => SamplesAreFed
    <2>. SUFFICES ASSUME Assembled, NEW ch \in Indices
                  PROVE  samples_with_time(ch) =
                            FlattenSeq([p \in DOMAIN fed |->
                                IF p \in Data(ch)
                                THEN [k \in DOMAIN fed[p].values |->
                                         <<TimeOf(ch, p, k), fed[p].values[k]>>]
                                ELSE <<>>])
      BY DEF SamplesAreFed
    <2>1. samples_with_time(ch) = Presented(builders[ch])
      BY PresentedIs
    <2>2. Presented(builders[ch]) = FlattenSeq(Told(fed, ch))
      BY DEF Assembled, Matches
    <2>. QED  BY <2>1, <2>2, ToldIsTimeOf, Zenon
  <1>. QED  BY <1>1, AlwaysAssembled, PTL

\* The anchor from which a relative stamp counts is always the time of the last sample the
\* channel presents, whichever kind of block brought it.
THEOREM AnchorsAreLast == Spec => []AnchorIsLast
  <1>1. Assembled => AnchorIsLast
    <2>. SUFFICES ASSUME Assembled, NEW ch \in Indices
                  PROVE  builders[ch].last_timestamp_ns =
                            IF samples_with_time(ch) = <<>> THEN NoTime
                            ELSE samples_with_time(ch)[Len(samples_with_time(ch))][1]
      BY DEF AnchorIsLast
    <2>1. samples_with_time(ch) = Presented(builders[ch])
      BY PresentedIs
    <2>2. LastTimed(builders[ch])
      BY DEF Assembled
    <2>. QED  BY <2>1, <2>2 DEF LastTimed
  <1>. QED  BY <1>1, AlwaysAssembled, PTL

\* A block is refused exactly if the blocks before it say that the file is no recording,
\* and with an error that says why.
THEOREM OnlyWrongIsRefused == Spec => []RefusedIsWrong
  <1>1. Assembled => RefusedIsWrong
    <2>. SUFFICES ASSUME Assembled, NEW b \in Blocks
                  PROVE  IF Reasons(b) = {} THEN Error(b) = "none" ELSE Error(b) \in Reasons(b)
      BY DEF RefusedIsWrong
    <2>. DEFINE x == b.channel_index
                c == builders[x]
                K == {fed[p].kind : p \in Data(x)}
                equidistant == {"StartData", "ContinuedData"}
                stamped == {"AbsTimestampData", "ContinuedRelStampData"}
                others == IF b.kind \in equidistant THEN stamped ELSE equidistant
    <2>1. CASE x \notin Indices
      BY <2>1 DEF Error, Reasons
    <2>2. CASE x \in Indices /\ b.kind = "Skipped"
      BY <2>2 DEF Error, Mixed, Reasons
    <2>3. CASE x \in Indices /\ b.kind # "Skipped"
      <3>1. /\ Sound(c) /\ c.data_type = Definition(x).data_type
            /\ LastTimed(c) /\ KindsFit(c, fed, x)
        BY <2>3 DEF Assembled, Stored, Matches
      <3>2. K = KindsIn(fed, x)
        BY ToldIsTimeOf DEF KindsIn
      <3>3. samples_with_time(x) = Presented(c)
        BY PresentedIs
      <3>4. c.last_timestamp_ns = NoTime <=> Presented(c) = <<>>
        <4>. DEFINE y == Presented(c)
        <4>1. y \in Seq(Sample)
          BY <3>1, PresentedType
        <4>2. c.last_timestamp_ns = IF y = <<>> THEN NoTime ELSE y[Len(y)][1]
          BY <3>1 DEF LastTimed
        <4>. HIDE DEF y
        <4>3. y # <<>> => y[Len(y)] \in Sample
          BY <4>1
        <4>4. y # <<>> => y[Len(y)][1] \in Int
          BY <4>3 DEF Sample
        <4>5. NoTime \notin Int
          BY BlockAssumption
        <4>6. c.last_timestamp_ns = NoTime <=> y = <<>>
          BY <4>2, <4>4, <4>5
        <4>. QED  BY <4>6 DEF y
      <3>5. /\ c.state \in BuilderStates
            /\ c.state = "Unsupported" <=> c.data_type = "unsupported"
            /\ c.state = "Variable" <=> c.data_type \in VariableTypes
        BY <3>1 DEF Sound
      <3>6. /\ b.kind \in Kinds /\ b.data_type # "unsupported"
            /\ b.kind \in {"StartData", "ContinuedData", "ContinuedRelStampData"} =>
                  b.data_type \in NumericTypes
        BY BlockFields
      <3>7. Error(b) = IF b.data_type # c.data_type THEN "DataTypeMismatch"
                       ELSE IF b.kind = "ContinuedData" /\ c.state = "Pending"
                       THEN "ContinuedDataWithoutStart"
                       ELSE IF b.kind = "ContinuedRelStampData" /\ c.last_timestamp_ns = NoTime
                       THEN "RelStampWithoutAnchor"
                       ELSE IF Mixed(c, b) THEN "ChannelMixedBlockTypes" ELSE "none"
        BY <2>3 DEF Error
      <3>. HIDE DEF c, K
      <3>8. ASSUME b.data_type = c.data_type
            PROVE  /\ c.state # "Unsupported"
                   /\ c.state = "Variable" => b.kind = "AbsTimestampData"
        BY <3>5, <3>6, <3>8, <2>3 DEF Kinds, NumericTypes, VariableTypes
      <3>. DEFINE Right == /\ b.data_type = c.data_type /\ K \cap others = {}
                           /\ ~(b.kind = "ContinuedData" /\ K = {})
                           /\ ~(b.kind = "ContinuedRelStampData" /\ Presented(c) = <<>>)
      <3>9. \/ Error(b) = "none" /\ Right
            \/ Error(b) = "DataTypeMismatch" /\ b.data_type # c.data_type
            \/ Error(b) = "ChannelMixedBlockTypes" /\ K \cap others # {}
            \/ Error(b) = "ContinuedDataWithoutStart" /\ b.kind = "ContinuedData" /\ K = {}
            \/ /\ Error(b) = "RelStampWithoutAnchor"
               /\ b.kind = "ContinuedRelStampData" /\ Presented(c) = <<>>
        <4>1. CASE b.data_type # c.data_type
          BY <3>7, <4>1
        <4>2. CASE b.data_type = c.data_type
          <5>1. CASE c.state = "Pending"
            <6>1. K = {} /\ Presented(c) = <<>>
              BY <3>1, <3>2, <5>1 DEF KindsFit, Sound, Presented
            <6>. QED  BY <2>3, <3>4, <3>6, <3>7, <4>2, <5>1, <6>1 DEF Kinds, Mixed
          <5>2. CASE c.state = "Equidistant"
            <6>1. K # {} /\ K \subseteq equidistant
              BY <3>1, <3>2, <5>2 DEF KindsFit
            <6>2. K \cap stamped = {} /\ K \cap equidistant # {}
              BY <6>1
            <6>. QED  BY <2>3, <3>4, <3>6, <3>7, <4>2, <5>2, <6>1, <6>2 DEF Kinds, Mixed
          <5>3. CASE c.state = "Timestamped"
            <6>1. K # {} /\ K \subseteq stamped
              BY <3>1, <3>2, <5>3 DEF KindsFit
            <6>2. K \cap equidistant = {} /\ K \cap stamped # {}
              BY <6>1
            <6>. QED  BY <2>3, <3>4, <3>6, <3>7, <4>2, <5>3, <6>1, <6>2 DEF Kinds, Mixed
          <5>4. CASE c.state = "Variable"
            <6>1. K \subseteq {"AbsTimestampData"}
              BY <3>1, <3>2, <5>4 DEF KindsFit
            <6>. QED  BY <2>3, <3>7, <3>8, <4>2, <5>4, <6>1 DEF Mixed
          <5>. QED  BY <3>5, <3>8, <4>2, <5>1, <5>2, <5>3, <5>4 DEF BuilderStates
        <4>. QED  BY <4>1, <4>2
      <3>10. \A e : e \in Reasons(b) <=>
                \/ e = "DataTypeMismatch" /\ b.data_type # c.data_type
                \/ e = "ChannelMixedBlockTypes" /\ K \cap others # {}
                \/ e = "ContinuedDataWithoutStart" /\ b.kind = "ContinuedData" /\ K = {}
                \/ /\ e = "RelStampWithoutAnchor"
                   /\ b.kind = "ContinuedRelStampData" /\ Presented(c) = <<>>
        BY <2>3, <3>1, <3>3 DEF Reasons, K
      <3>11. Error(b) = "none" /\ Right => Reasons(b) = {}
        BY <3>10
      <3>12. Error(b) = "none" \/ Error(b) \in Reasons(b)
        BY <3>9, <3>10
      <3>. QED  BY <3>9, <3>11, <3>12
    <2>. QED  BY <2>1, <2>2, <2>3
  <1>. QED  BY <1>1, AlwaysAssembled, PTL

\* How a load can stand or end.
Outcomes == {"loading", "loaded"} \cup IteratorErrors
               \cup {"UnknownChannelIndex", "DataTypeMismatch", "ContinuedDataWithoutStart",
                     "RelStampWithoutAnchor", "ChannelMixedBlockTypes"}

KnownOutcome == outcome \in Outcomes

\* The types of the loader's state, and that the storage of a channel is of its datatype.
THEOREM TypesHold == Spec => []TypeOK
  <1>1. Init => KnownOutcome
    BY DEF Init, Outcomes, KnownOutcome
  <1>2. KnownOutcome /\ [Next]_vars => KnownOutcome'
    <2>. SUFFICES ASSUME outcome \in Outcomes, [Next]_vars
                  PROVE  outcome' \in Outcomes
      BY DEF KnownOutcome
    <2>1. ASSUME NEW b \in Blocks, apply_block(b)
          PROVE  outcome' \in Outcomes
      BY <2>1 DEF apply_block
    <2>2. ASSUME NEW b \in Blocks, RejectBlock(b)
          PROVE  outcome' \in Outcomes
      <3>1. outcome' = Error(b) /\ Error(b) # "none"
        BY <2>2 DEF RejectBlock, Fail
      <3>2. Error(b) \in Outcomes \cup {"none"}
        BY DEF Error, Outcomes
      <3>. QED  BY <3>1, <3>2
    <2>3. ASSUME NEW error \in IteratorErrors, Fail(error)
          PROVE  outcome' \in Outcomes
      BY <2>3 DEF Fail, Outcomes
    <2>4. CASE Finish
      BY <2>4 DEF Finish, Outcomes
    <2>5. CASE UNCHANGED vars
      BY <2>5 DEF vars
    <2>. QED  BY <2>1, <2>2, <2>3, <2>4, <2>5 DEF Next
  <1>3. KnownOutcome /\ Assembled => TypeOK
    <2>. SUFFICES ASSUME outcome \in Outcomes, Assembled
                  PROVE  TypeOK
      BY DEF KnownOutcome
    <2>1. ASSUME NEW ch \in Indices
          PROVE  LET c == builders[ch]
                 IN  /\ c.data_type \in DataTypes /\ c.state \in BuilderStates
                     /\ c.state = "Variable" <=> c.data_type \in VariableTypes
                     /\ c.state = "Equidistant" => c.data_type \in NumericTypes
                     /\ c.samples \in Seq(Nat) /\ c.timestamps_ns \in Seq(Int)
                     /\ c.segments \in Seq(Segment)
                     /\ c.last_timestamp_ns \in Int \cup {NoTime}
      <3>. DEFINE c == builders[ch]
      <3>1. Sound(c)
        BY DEF Assembled, Stored
      <3>. HIDE DEF c
      <3>2. c.last_timestamp_ns \in Int \cup {NoTime}
        BY <3>1 DEF Sound, IsTime
      <3>. QED  BY <3>1, <3>2 DEF Sound, c
    <2>2. DOMAIN builders = Indices
      BY DEF Assembled, Stored
    <2>. QED  BY <2>1, <2>2 DEF TypeOK, Outcomes
  <1>. QED  BY <1>1, <1>2, <1>3, AlwaysAssembled, PTL DEF Spec

---------------------------------------------------------------------------
(* The list of channels, and the lookups. *)

\* A channel that build_channels lists: the first of its index, and not unsupported.
Supported(i) == FirstOf(i) /\ builders[Channels[i].index].state # "Unsupported"

\* The indices of the supported channels among the first k that are declared.
SupportedUpTo(k) == {Channels[i].index : i \in {j \in 1..k : Supported(j)}}

\* The index of the i-th declared channel is listed in front of that of the j-th.
Precedes(list, i, j) ==
    \E p, q \in DOMAIN list : p < q /\ list[p] = Channels[i].index /\ list[q] = Channels[j].index

\* The list after the first k declared channels.
Listed(k, list) ==
    /\ list \in Seq(Nat)
    /\ ToSet(list) = SupportedUpTo(k)
    /\ IsInjective(list)
    /\ \A j \in 1..k : \A i \in 1..(j - 1) : Supported(i) /\ Supported(j) => Precedes(list, i, j)

\* The next channel joins the list unless it is there or unsupported.
LEMMA ListedGrows ==
    ASSUME NEW k \in Nat, k + 1 \in DOMAIN Channels, NEW list, Listed(k, list)
    PROVE  Listed(k + 1, IF Supported(k + 1) THEN Append(list, Channels[k + 1].index) ELSE list)
  <1>. DEFINE x == Channels[k + 1].index
  <1>1. \A j \in 1..(k + 1) : j \in 1..k \/ j = k + 1
    OBVIOUS
  <1>2. 1..k \subseteq 1..(k + 1) /\ k + 1 \in 1..(k + 1) /\ (k + 1) - 1 = k
    OBVIOUS
  <1>3. CASE ~Supported(k + 1)
    <2>1. SupportedUpTo(k + 1) = SupportedUpTo(k)
      BY <1>1, <1>2, <1>3 DEF SupportedUpTo
    <2>2. \A j \in 1..(k + 1) : \A i \in 1..(j - 1) :
             Supported(i) /\ Supported(j) => Precedes(list, i, j)
      BY <1>1, <1>3 DEF Listed
    <2>. QED  BY <1>3, <2>1, <2>2 DEF Listed
  <1>4. CASE Supported(k + 1)
    <2>1. x \in Nat
      <3>. DEFINE R == [index : Nat, name : STRING, data_type : DataTypes]
      <3>1. Channels \in Seq(R)
        BY MetaAssumption
      <3>. HIDE DEF R
      <3>2. Channels[k + 1] \in R
        BY <3>1
      <3>. QED  BY <3>2 DEF R
    <2>2. SupportedUpTo(k + 1) = SupportedUpTo(k) \cup {x}
      BY <1>1, <1>2, <1>4 DEF SupportedUpTo
    <2>3. x \notin SupportedUpTo(k)
      BY <1>2, <1>4 DEF SupportedUpTo, Supported, FirstOf
    <2>. HIDE DEF x
    <2>. DEFINE n == Len(list)
                r == Append(list, x)
    <2>4. /\ list \in Seq(Nat) /\ n \in Nat /\ DOMAIN list = 1..n
          /\ r \in Seq(Nat) /\ DOMAIN r = 1..(n + 1) /\ r[n + 1] = x
          /\ \A i \in 1..n : r[i] = list[i]
      BY <2>1 DEF Listed
    <2>5. /\ \A i \in 1..n : list[i] # x
          /\ \A i, j \in 1..n : list[i] = list[j] => i = j
      BY <2>3, <2>4 DEF Listed, ToSet, IsInjective
    <2>6. \A i \in 1..(n + 1) : i \in 1..n \/ i = n + 1
      BY <2>4
    <2>7. 1..n \subseteq 1..(n + 1) /\ n + 1 \in 1..(n + 1)
      BY <2>4
    <2>8. ToSet(list) = SupportedUpTo(k)
      BY DEF Listed
    <2>. HIDE DEF r, n
    <2>9. ToSet(r) = ToSet(list) \cup {x}
      BY <2>4, <2>6, <2>7 DEF ToSet
    <2>10. IsInjective(r)
      BY <2>4, <2>5, <2>6 DEF IsInjective
    <2>11. ASSUME NEW j \in 1..(k + 1), NEW i \in 1..(j - 1), Supported(i), Supported(j)
           PROVE  Precedes(r, i, j)
      <3>1. CASE j = k + 1
        <4>1. Channels[i].index \in SupportedUpTo(k)
          BY <2>11, <3>1, <1>2 DEF SupportedUpTo
        <4>2. PICK p \in 1..n : list[p] = Channels[i].index
          BY <4>1, <2>4, <2>8 DEF ToSet
        <4>3. p < n + 1 /\ p \in DOMAIN r /\ n + 1 \in DOMAIN r
          BY <2>4, <2>7
        <4>. QED  BY <2>4, <3>1, <4>2, <4>3 DEF Precedes, x
      <3>2. CASE j \in 1..k
        <4>1. Precedes(list, i, j)
          BY <2>11, <3>2 DEF Listed
        <4>2. PICK p \in 1..n, q \in 1..n :
                 p < q /\ list[p] = Channels[i].index /\ list[q] = Channels[j].index
          BY <4>1, <2>4 DEF Precedes
        <4>3. p \in DOMAIN r /\ q \in DOMAIN r
          BY <2>4, <2>7
        <4>. QED  BY <2>4, <4>2, <4>3 DEF Precedes
      <3>. QED  BY <1>1, <3>1, <3>2
    <2>12. Listed(k + 1, r)
      BY <2>2, <2>4, <2>8, <2>9, <2>10, <2>11 DEF Listed
    <2>. QED  BY <1>4, <2>12 DEF r, x
  <1>. QED  BY <1>3, <1>4

\* The list is made by going through the declared channels in order.
LEMMA FinalizedIsListed == Listed(Len(Channels), Finalized)
  <1>. DEFINE m == Len(Channels)
              D == 1..m
              pick == [u \in SUBSET D |-> Max(u)]
              G == [p \in D \X Seq(Nat) |->
                       IF Supported(p[1]) THEN Append(p[2], Channels[p[1]].index) ELSE p[2]]
              t == CHOOSE it : it = [u \in SUBSET DOMAIN [i \in DOMAIN Channels |-> i] |->
                      IF u = {} THEN <<>>
                      ELSE IF /\ FirstOf([i \in DOMAIN Channels |-> i][Max(u)])
                              /\ builders[Channels[[i \in DOMAIN Channels |-> i][Max(u)]].index].state
                                    # "Unsupported"
                           THEN Append(it[u \ {Max(u)}],
                                       Channels[[i \in DOMAIN Channels |-> i][Max(u)]].index)
                           ELSE it[u \ {Max(u)}]]
  <1>1. Finalized = t[DOMAIN [i \in DOMAIN Channels |-> i]]
    BY Zenon DEF Finalized, FoldLeft, MapThenFoldSet
  <1>2. DOMAIN Channels = D /\ DOMAIN [i \in DOMAIN Channels |-> i] = D /\ m \in Nat
    BY MetaAssumption
  <1>3. ASSUME NEW u \in SUBSET D, u # {}
        PROVE  Max(u) \in u /\ \A y \in u : Max(u) >= y
    <2>1. \E x \in u : \A y \in u : x >= y
      BY <1>2, <1>3, LargestOfRange
    <2>. QED  BY <2>1, Zenon DEF Max
  <1>4. Picks(pick, D)
    BY <1>3 DEF Picks
  <1>5. G \in [D \X Seq(Nat) -> Seq(Nat)] /\ IsFiniteSet(D) /\ <<>> \in Seq(Nat)
    <2>1. \A i \in D : Channels[i].index \in Nat
      <3>. DEFINE R == [index : Nat, name : STRING, data_type : DataTypes]
      <3>1. Channels \in Seq(R)
        BY MetaAssumption
      <3>. HIDE DEF R
      <3>2. \A i \in D : Channels[i] \in R
        BY <3>1
      <3>. QED  BY <3>2 DEF R
    <2>2. \A p \in D \X Seq(Nat) :
             (IF Supported(p[1]) THEN Append(p[2], Channels[p[1]].index) ELSE p[2]) \in Seq(Nat)
      BY <2>1
    <2>. QED  BY <1>2, <2>2, FS_Interval
  <1>6. \A i \in D, list \in Seq(Nat) :
           G[<<i, list>>] = IF Supported(i) THEN Append(list, Channels[i].index) ELSE list
    OBVIOUS
  <1>7. \A u \in SUBSET D : u # {} => /\ pick[u] = Max(u) /\ Max(u) \in D /\ u \ {Max(u)} \in SUBSET D
                                      /\ [i \in DOMAIN Channels |-> i][Max(u)] = Max(u)
    BY <1>2, <1>3
  <1>. HIDE DEF pick, G
  <1>8. PICK w \in [SUBSET D -> Seq(Nat)] : TakesOneAway(w, D, <<>>, G, pick)
    <2>. HIDE DEF D
    <2>. QED  BY <1>4, <1>5, RecursionOverSubsets
  <1>9. \A u \in SUBSET D : w[u] = IF u = {} THEN <<>>
                                   ELSE IF Supported(Max(u))
                                        THEN Append(w[u \ {Max(u)}], Channels[Max(u)].index)
                                        ELSE w[u \ {Max(u)}]
    <2>. SUFFICES ASSUME NEW u \in SUBSET D
                  PROVE  w[u] = IF u = {} THEN <<>>
                                   ELSE IF Supported(Max(u))
                                        THEN Append(w[u \ {Max(u)}], Channels[Max(u)].index)
                                        ELSE w[u \ {Max(u)}]
      OBVIOUS
    <2>1. w[u] = IF u = {} THEN <<>> ELSE G[<<pick[u], w[u \ {pick[u]}]>>]
      BY <1>8 DEF TakesOneAway
    <2>. HIDE DEF D
    <2>2. u # {} => w[u \ {Max(u)}] \in Seq(Nat)
      BY <1>7, <1>8
    <2>. QED  BY <1>6, <1>7, <2>1, <2>2
  <1>10. w = [u \in SUBSET DOMAIN [i \in DOMAIN Channels |-> i] |->
                      IF u = {} THEN <<>>
                      ELSE IF /\ FirstOf([i \in DOMAIN Channels |-> i][Max(u)])
                              /\ builders[Channels[[i \in DOMAIN Channels |-> i][Max(u)]].index].state
                                    # "Unsupported"
                           THEN Append(w[u \ {Max(u)}],
                                       Channels[[i \in DOMAIN Channels |-> i][Max(u)]].index)
                           ELSE w[u \ {Max(u)}]]
    <2>. HIDE DEF D
    <2>1. w = [u \in SUBSET D |-> w[u]]
      BY <1>8
    <2>. QED  BY <1>2, <1>7, <1>9, <2>1 DEF Supported
  <1>11. t = [u \in SUBSET DOMAIN [i \in DOMAIN Channels |-> i] |->
                      IF u = {} THEN <<>>
                      ELSE IF /\ FirstOf([i \in DOMAIN Channels |-> i][Max(u)])
                              /\ builders[Channels[[i \in DOMAIN Channels |-> i][Max(u)]].index].state
                                    # "Unsupported"
                           THEN Append(t[u \ {Max(u)}],
                                       Channels[[i \in DOMAIN Channels |-> i][Max(u)]].index)
                           ELSE t[u \ {Max(u)}]]
    BY <1>10, Zenon
  <1>. HIDE DEF t
  <1>12. \A u \in SUBSET D : t[u] = IF u = {} THEN <<>>
                                   ELSE IF Supported(Max(u))
                                        THEN Append(t[u \ {Max(u)}], Channels[Max(u)].index)
                                        ELSE t[u \ {Max(u)}]
    <2>. HIDE DEF D
    <2>. QED  BY <1>2, <1>7, <1>11 DEF Supported
  <1>. DEFINE S == {k \in Nat : k <= m => Listed(k, t[1..k])}
  <1>13. 0 \in S
    <2>1. 1..0 = {} /\ {} \in SUBSET D
      OBVIOUS
    <2>2. t[{}] = <<>>
      BY <1>12
    <2>3. SupportedUpTo(0) = {}
      BY <2>1 DEF SupportedUpTo
    <2>4. <<>> \in Seq(Nat) /\ ToSet(<<>>) = {} /\ IsInjective(<<>>)
      BY DEF ToSet, IsInjective
    <2>. QED  BY <2>1, <2>2, <2>3, <2>4 DEF Listed
  <1>14. ASSUME NEW k \in Nat, k \in S
         PROVE  k + 1 \in S
    <2>. SUFFICES ASSUME k + 1 <= m
                  PROVE  Listed(k + 1, t[1..(k + 1)])
      BY <1>14
    <2>1. Listed(k, t[1..k])
      BY <1>2, <1>14
    <2>. DEFINE u == 1..(k + 1)
    <2>2. u \in SUBSET D /\ u # {} /\ k + 1 \in u /\ k + 1 \in DOMAIN Channels /\ u \ {k + 1} = 1..k
      <3>1. k + 1 \in u /\ u \ {k + 1} = 1..k
        OBVIOUS
      <3>2. m \in Nat /\ k + 1 <= m
        BY <1>2
      <3>. HIDE DEF m
      <3>3. u \in SUBSET D
        BY <3>2
      <3>4. k + 1 \in DOMAIN Channels
        BY <1>2, <3>1, <3>3
      <3>. QED  BY <3>1, <3>3, <3>4
    <2>3. Max(u) = k + 1
      <3>1. Max(u) \in u /\ Max(u) >= k + 1
        BY <1>3, <2>2
      <3>. QED  BY <3>1
    <2>. HIDE DEF D
    <2>4. t[u] = IF Supported(k + 1) THEN Append(t[1..k], Channels[k + 1].index) ELSE t[1..k]
      <3>. HIDE DEF u
      <3>. QED  BY <1>12, <2>2, <2>3
    <2>. QED  BY <2>1, <2>2, <2>4, ListedGrows
  <1>15. m \in S
    <2>1. \A k \in Nat : k \in S
      <3>. HIDE DEF S
      <3>. QED  BY <1>13, <1>14, Induction
    <2>. QED  BY <1>2, <2>1
  <1>. QED  BY <1>1, <1>2, <1>15

\* It has every channel of which a datatype is supported.
LEMMA AllAreListed ==
    ASSUME Assembled
    PROVE  SupportedUpTo(Len(Channels)) = {ch \in Indices : Definition(ch).data_type # "unsupported"}
  <1>. DEFINE m == Len(Channels)
  <1>1. DOMAIN Channels = 1..m /\ m \in Nat
    BY MetaAssumption
  <1>2. \A ch \in Indices : builders[ch].state # "Unsupported" <=> Definition(ch).data_type # "unsupported"
    BY DEF Assembled, Stored, Sound
  <1>3. ASSUME NEW ch \in Indices
        PROVE  \E i \in 1..m : Channels[i].index = ch /\ FirstOf(i)
    <2>. DEFINE T == {i \in Nat : i \in 1..m /\ Channels[i].index = ch}
    <2>1. \E i \in Nat : i \in T
      BY <1>1 DEF Indices
    <2>2. PICK i \in T : \A j \in T : i <= j
      <3>. HIDE DEF T
      <3>. QED  BY <2>1, LeastNatural DEF T
    <2>3. \A j \in 1..(i - 1) : Channels[j].index # ch
      BY <1>1, <2>2
    <2>. QED  BY <2>2, <2>3 DEF FirstOf
  <1>4. \A i \in 1..m : Channels[i].index \in Indices
    BY <1>1 DEF Indices
  <1>. HIDE DEF m
  <1>5. ASSUME NEW ch
        PROVE  ch \in SupportedUpTo(m) <=> ch \in Indices /\ Definition(ch).data_type # "unsupported"
    BY <1>2, <1>3, <1>4 DEF SupportedUpTo, Supported
  <1>6. SupportedUpTo(m) = {ch \in Indices : Definition(ch).data_type # "unsupported"}
    BY <1>5
  <1>. QED  BY <1>6 DEF m

\* The tables that are made at the end lead to the channels, and to nothing else.
LEMMA FinishLooksUp ==
    ASSUME Assembled, Finish
    PROVE  Lookup'
  <1>. DEFINE L == Finalized
              n == Len(L)
              supported == {ch \in Indices : Definition(ch).data_type # "unsupported"}
              name(k) == Definition(L[k]).name
  <1>1. /\ L \in Seq(Nat) /\ IsInjective(L) /\ ToSet(L) = supported
        /\ \A j \in 1..Len(Channels) : \A i \in 1..(j - 1) :
              Supported(i) /\ Supported(j) => Precedes(L, i, j)
    BY FinalizedIsListed, AllAreListed DEF Listed
  <1>2. /\ channels' = L
        /\ by_name' = [x \in {Definition(ch).name : ch \in ToSet(L)} |-> SlotOfName(L, x)]
        /\ by_index' = [ch \in ToSet(L) |-> CHOOSE k \in DOMAIN L : L[k] = ch]
    BY DEF Finish
  <1>. HIDE DEF L
  <1>3. DOMAIN L = 1..n /\ n \in Nat /\ DOMAIN Channels = 1..Len(Channels)
    BY <1>1, MetaAssumption
  <1>4. \A k \in DOMAIN L : L[k] \in ToSet(L) /\ by_index'[L[k]] = k
    <2>. SUFFICES ASSUME NEW k \in DOMAIN L
                  PROVE  L[k] \in ToSet(L) /\ by_index'[L[k]] = k
      OBVIOUS
    <2>1. L[k] \in ToSet(L)
      BY DEF ToSet
    <2>. DEFINE c == CHOOSE i \in DOMAIN L : L[i] = L[k]
    <2>2. c \in DOMAIN L /\ L[c] = L[k]
      OBVIOUS
    <2>3. by_index'[L[k]] = c
      BY <1>2, <2>1
    <2>. HIDE DEF c
    <2>. QED  BY <1>1, <2>1, <2>2, <2>3 DEF IsInjective
  <1>5. ASSUME NEW i \in DOMAIN Channels, NEW j \in DOMAIN Channels, FirstOf(i), FirstOf(j), i < j,
               Channels[i].index \in supported, Channels[j].index \in supported
        PROVE  by_index'[Channels[i].index] < by_index'[Channels[j].index]
    <2>1. \A ch \in Indices : builders[ch].state # "Unsupported" <=> Definition(ch).data_type # "unsupported"
      BY DEF Assembled, Stored, Sound
    <2>2. Supported(i) /\ Supported(j)
      BY <1>5, <2>1 DEF Supported
    <2>3. Precedes(L, i, j)
      BY <1>1, <1>3, <1>5, <2>2
    <2>4. PICK p \in DOMAIN L, q \in DOMAIN L :
             p < q /\ L[p] = Channels[i].index /\ L[q] = Channels[j].index
      BY <2>3 DEF Precedes
    <2>. QED  BY <1>4, <2>4
  <1>6. {Definition(ch).name : ch \in ToSet(L)} = {name(k) : k \in DOMAIN L}
    BY DEF ToSet
  <1>7. ASSUME NEW k \in DOMAIN L
        PROVE  /\ by_name'[name(k)] \in DOMAIN L /\ by_name'[name(k)] >= k
               /\ name(by_name'[name(k)]) = name(k)
    <2>. DEFINE x == name(k)
                T == {j \in DOMAIN L : Definition(L[j]).name = x}
    <2>1. T \in SUBSET (1..n) /\ T # {} /\ k \in T
      BY <1>3
    <2>2. PICK i \in T : \A j \in T : i >= j
      <3>. HIDE DEF T, n
      <3>. QED  BY <1>3, <2>1, LargestOfRange
    <2>3. /\ i \in DOMAIN L /\ Definition(L[i]).name = x
          /\ \A j \in DOMAIN L : Definition(L[j]).name = x => j <= i
      BY <1>3, <2>2
    <2>. DEFINE s == SlotOfName(L, x)
    <2>5. x \in {Definition(ch).name : ch \in ToSet(L)}
      BY DEF ToSet
    <2>6. by_name'[x] = s
      BY <1>2, <2>5
    <2>. HIDE DEF x
    <2>4. /\ s \in DOMAIN L /\ Definition(L[s]).name = x
          /\ \A j \in DOMAIN L : Definition(L[j]).name = x => j <= s
      BY <2>3, Zenon DEF SlotOfName
    <2>. HIDE DEF s
    <2>7. Definition(L[k]).name = x
      BY DEF x
    <2>8. k <= s
      BY <2>4, <2>7
    <2>. QED  BY <1>3, <2>4, <2>6, <2>7, <2>8
  <1>8. DOMAIN by_name' = {name(k) : k \in DOMAIN L} /\ DOMAIN by_index' = supported
    BY <1>1, <1>2, <1>6
  <1>9. \A i, j \in DOMAIN Channels :
           /\ FirstOf(i) /\ FirstOf(j) /\ i < j
           /\ {Channels[i].index, Channels[j].index} \subseteq supported
           => by_index'[Channels[i].index] < by_index'[Channels[j].index]
    BY <1>5
  <1>10. /\ ToSet(channels') = {ch \in Indices : Definition(ch).data_type # "unsupported"}
         /\ DOMAIN by_index' = {ch \in Indices : Definition(ch).data_type # "unsupported"}
         /\ \A k \in DOMAIN channels' : by_index'[channels'[k]] = k
         /\ DOMAIN by_name' = {Definition(channels'[k]).name : k \in DOMAIN channels'}
    <2>1. ToSet(L) = supported /\ channels' = L
      BY <1>1, <1>2
    <2>2. \A k \in DOMAIN L : by_index'[L[k]] = k
      BY <1>4
    <2>3. DOMAIN by_name' = {Definition(L[k]).name : k \in DOMAIN L} /\ DOMAIN by_index' = supported
      BY <1>8
    <2>. QED  BY ONLY <2>1, <2>2, <2>3
  <1>11. \A k \in DOMAIN channels' :
            /\ by_name'[Definition(channels'[k]).name] \in DOMAIN channels'
            /\ by_name'[Definition(channels'[k]).name] >= k
            /\ Definition(channels'[by_name'[Definition(channels'[k]).name]]).name
                  = Definition(channels'[k]).name
    BY <1>2, <1>7
  <1>. HIDE DEF n, supported, name
  <1>12. \A i, j \in DOMAIN Channels :
           /\ FirstOf(i) /\ FirstOf(j) /\ i < j
           /\ {Channels[i].index, Channels[j].index}
                 \subseteq {ch \in Indices : Definition(ch).data_type # "unsupported"}
           => by_index'[Channels[i].index] < by_index'[Channels[j].index]
    BY <1>9 DEF supported
  <1>. QED  BY ONLY <1>10, <1>11, <1>12 DEF Lookup

\* For every metablock: the channels are the supported ones in order, the lookup by index
\* finds each of them, and the lookup by name the last of each name.
THEOREM ChannelsAreFound == Spec => []Lookup
  <1>1. Init => Lookup
    BY DEF Init, Lookup
  <1>2. Assembled /\ Lookup /\ [Next]_vars => Lookup'
    <2>. SUFFICES ASSUME Assembled, Lookup, [Next]_vars
                  PROVE  Lookup'
      OBVIOUS
    <2>1. CASE Finish
      BY <2>1, FinishLooksUp
    <2>2. ASSUME NEW b \in Blocks, apply_block(b)
          PROVE  Lookup'
      BY <2>2 DEF apply_block, Lookup
    <2>3. ASSUME NEW error, Fail(error), error # "loaded"
          PROVE  Lookup'
      BY <2>3 DEF Fail, Lookup
    <2>4. ASSUME NEW b \in Blocks, RejectBlock(b)
          PROVE  Lookup'
      <3>1. Error(b) # "loaded"
        BY DEF Error
      <3>. QED  BY <2>3, <2>4, <3>1 DEF RejectBlock
    <2>5. CASE UNCHANGED vars
      BY <2>5 DEF vars, Lookup
    <2>6. \A error \in IteratorErrors : error # "loaded"
      BY DEF IteratorErrors
    <2>. QED  BY <2>1, <2>2, <2>3, <2>4, <2>5, <2>6 DEF Next
  <1>. QED  BY <1>1, <1>2, AlwaysAssembled, PTL DEF Spec
=============================================================================
