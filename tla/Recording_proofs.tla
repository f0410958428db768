--------------------------- MODULE Recording_proofs ---------------------------
(***************************************************************************)
(* What the C++ writer leaves and the Rust loader makes of it, for every   *)
(* metablock, every sequence of calls, every power loss, and damage to any *)
(* byte of a block.                                                        *)
(*                                                                         *)
(* The invariant has three parts.  Of the writer: each block of the file,  *)
(* and what is left of the call in progress, means what the application    *)
(* meant (Meaning).  Of the damage: the frames that the reader finds are   *)
(* those of the blocks in front of the damaged one, frames that fail their *)
(* CRC, and those of the blocks behind it from where the reader is in step *)
(* again, if it is (Laid).  Of the loader: the blocks that it has passed   *)
(* are in the builders but for those that are lost, with the times that    *)
(* the application gave them but for those that continue lost ones         *)
(* (Assembled).                                                            *)
(***************************************************************************)
EXTENDS Recording, StreamingWriter_proofs, FoldLemmas

---------------------------------------------------------------------------
(* The metablock, as the reader and the builders see it. *)

Declaration == [index : Nat, name : STRING, size_of_length_value : Widths,
                data_type : L!A!DataTypes \ {"unsupported"}]

N == Len(Metablock)

\* The declared indices count from 0, and number i has definition i + 1.
LEMMA Declarations ==
    /\ N \in Nat /\ DOMAIN Metablock = 1..N
    /\ \A i \in 1..N : Metablock[i] \in Declaration /\ Metablock[i].index = i - 1
<1> DEFINE D == Declaration
<1>1. Metablock \in Seq(D)
  BY RecordingAssumption DEF Declaration
<1> HIDE DEF D
<1>2. N \in Nat /\ DOMAIN Metablock = 1..N /\ \A i \in 1..N : Metablock[i] \in D
  BY <1>1 DEF N
<1> QED
  BY <1>2, RecordingAssumption DEF D

\* The reader and the builders know the same channels.
LEMMA DeclaredIndices ==
    /\ L!A!Indices = 0..(N - 1)
    /\ DOMAIN L!ChannelInfo = 0..(N - 1)
<1>1. L!A!Indices = {Metablock[i].index : i \in DOMAIN Metablock}
  BY DEF L!A!Indices, L!Channels
<1>2. DOMAIN L!ChannelInfo = {Metablock[i].index : i \in DOMAIN Metablock}
  BY DEF L!ChannelInfo
<1>3. {Metablock[i].index : i \in DOMAIN Metablock} = {i - 1 : i \in 1..N}
  BY Declarations
<1>4. {i - 1 : i \in 1..N} = 0..(N - 1)
  <2>1. ASSUME NEW x \in 0..(N - 1) PROVE \E i \in 1..N : x = i - 1
    <3>1. x + 1 \in 1..N /\ x = (x + 1) - 1
      BY Declarations
    <3> QED
      BY <3>1
  <2>2. ASSUME NEW i \in 1..N PROVE i - 1 \in 0..(N - 1)
    BY Declarations
  <2> QED
    BY <2>1, <2>2
<1> QED
  BY <1>1, <1>2, <1>3, <1>4

\* The definition a channel index stands for.
LEMMA DefinitionIs ==
    ASSUME NEW ch \in 0..(N - 1)
    PROVE  /\ DataType(ch) \in L!A!DataTypes \ {"unsupported"}
           /\ L!A!Definition(ch).data_type = DataType(ch)
           /\ L!ChannelInfo[ch].data_type = L!ReaderType(DataType(ch))
           /\ L!ChannelInfo[ch].size_of_length_value \in {2, 4}
<1> DEFINE P(i) == /\ Metablock[i].index = ch
                   /\ \A j \in DOMAIN Metablock : Metablock[j].index = ch => j <= i
           last == CHOOSE i \in DOMAIN Metablock : P(i)
<1>1. ch + 1 \in 1..N /\ N \in Nat /\ DOMAIN Metablock = 1..N
  BY Declarations
<1>2. \A i \in DOMAIN Metablock : P(i) <=> i = ch + 1
  BY <1>1, Declarations
<1>3. last = ch + 1
  <2> HIDE DEF P
  <2> QED
    BY <1>1, <1>2
<1>4. L!ChannelInfo[ch] = [data_type |-> L!ReaderType(Metablock[last].data_type),
                           size_of_length_value |-> Metablock[last].size_of_length_value]
  <2>1. ch \in {Metablock[i].index : i \in DOMAIN Metablock}
    BY <1>1, Declarations
  <2> QED
    BY <2>1 DEF L!ChannelInfo
<1>5. DOMAIN L!Channels = DOMAIN Metablock
      /\ \A i \in DOMAIN Metablock : /\ L!Channels[i].index = Metablock[i].index
                                     /\ L!Channels[i].data_type = Metablock[i].data_type
  BY DEF L!Channels
<1>6. L!A!Definition(ch) = L!Channels[CHOOSE i \in DOMAIN L!Channels :
                /\ L!Channels[i].index = ch
                /\ \A j \in DOMAIN L!Channels : L!Channels[j].index = ch => j <= i]
  BY DEF L!A!Definition
<1>7. \A i \in DOMAIN Metablock : P(i) <=>
                /\ L!Channels[i].index = ch
                /\ \A j \in DOMAIN L!Channels : L!Channels[j].index = ch => j <= i
  BY <1>5
<1>8. last = CHOOSE i \in DOMAIN L!Channels :
                /\ L!Channels[i].index = ch
                /\ \A j \in DOMAIN L!Channels : L!Channels[j].index = ch => j <= i
  <2> HIDE DEF P
  <2> QED
    BY <1>5, <1>7, Zenon
<1>9. L!A!Definition(ch) = L!Channels[last]
  BY <1>6, <1>8, Zenon
<1>10. DataType(ch) = Metablock[last].data_type
  BY <1>3 DEF DataType
<1>11. Metablock[last] \in Declaration /\ last \in DOMAIN Metablock
  BY <1>1, <1>3, Declarations
<1> HIDE DEF last
<1>12. /\ Metablock[last].data_type \in L!A!DataTypes \ {"unsupported"}
       /\ Metablock[last].size_of_length_value \in {2, 4}
  BY <1>11 DEF Declaration, Widths
<1>13. L!A!Definition(ch).data_type = DataType(ch)
  BY <1>5, <1>9, <1>10, <1>11
<1>14. L!ChannelInfo[ch].data_type = L!ReaderType(DataType(ch))
       /\ L!ChannelInfo[ch].size_of_length_value \in {2, 4}
  BY <1>4, <1>10, <1>12
<1> QED
  BY <1>10, <1>12, <1>13, <1>14

---------------------------------------------------------------------------
(* The writer: what its blocks mean. *)

Sample == [index : Nat, time : Int, period : Nat]

\* Sample v was handed over for channel ch, at this time and with this period.
Is(t, v, ch, time, period) ==
    v \in DOMAIN t /\ t[v] = [index |-> ch, time |-> time, period |-> period]

\* Of the samples t that were handed over, those of a block, or what is left of
\* a call, are what the reader of a block of this kind takes them for: a segment
\* from its start on, the samples after the channel's sample u, or stamped ones.
Means(t, kind, ch, start, period, times, values) ==
    /\ kind = "StartData" =>
          /\ start <= MaxTime
          /\ \A k \in DOMAIN values :
                Is(t, values[k], ch, start + (k - 1) * period, period)
    /\ kind = "ContinuedData" /\ values # <<>> =>
          \E u \in DOMAIN t :
             /\ t[u].index = ch /\ u < values[1]
             /\ \A w \in DOMAIN t : t[w].index = ch => w <= u \/ values[1] <= w
             /\ \A k \in DOMAIN values :
                   Is(t, values[k], ch, t[u].time + k * t[u].period, t[u].period)
    /\ kind = "AbsTimeStampData" =>
          /\ Len(times) = Len(values)
          /\ \A k \in DOMAIN values :
                times[k] <= MaxTime /\ Is(t, values[k], ch, times[k], 0)

BlockMeans(t, b) == Means(t, b.kind, b.index, b.start, b.period, b.times, b.values)

\* What follows the first block of a segment continues it.
Following(kind) == IF kind = "StartData" THEN "ContinuedData" ELSE kind

CallKind == IF call.phase = "force" THEN Following(call.kind) ELSE call.kind

\* The channels are those of the metablock, and all of them once there is a file;
\* only a channel of floats is locked to equidistant samples.
ChannelsAre ==
    /\ Len(channels) <= N
    /\ header # "none" => Len(channels) = N
    /\ \A i \in 1..Len(channels) :
          /\ channels[i].dataType = WriterType(DataType(i - 1))
          /\ channels[i].kindLock = "Equidistant" => channels[i].dataType \in EquidistantTypes

Meaning ==
    /\ told \in Seq(Sample) /\ Len(told) = offered
    /\ \A i \in 1..Len(file) : BlockMeans(told, file[i])
    /\ call.op = "write" => Means(told, CallKind, call.index, call.start, call.period,
                                  call.times, call.values)

Written == IInv /\ Ordered /\ ChannelsAre /\ Meaning

IsFront(f, s, n) == f = SubSeq(s, 1, n)
IsRest(r, s, n)  == r = DropFirst(s, n)

Consecutive(values) ==
    \A i \in DOMAIN values : i + 1 \in DOMAIN values => values[i + 1] = values[i] + 1

\* The first n elements of a sequence, and the elements behind them.
LEMMA FrontOf ==
    ASSUME NEW S, NEW s \in Seq(S), NEW n \in Nat, n <= Len(s), NEW f, IsFront(f, s, n)
    PROVE  /\ f \in Seq(S) /\ Len(f) = n
           /\ DOMAIN f = 1..n /\ 1..n \subseteq DOMAIN s
           /\ \A k \in 1..n : f[k] = s[k]
  BY DEF IsFront

LEMMA RestOf ==
    ASSUME NEW S, NEW s \in Seq(S), NEW n \in Nat, n <= Len(s), NEW r, IsRest(r, s, n)
    PROVE  /\ r \in Seq(S) /\ Len(s) - n \in Nat
           /\ Len(r) = Len(s) - n /\ DOMAIN r = 1..(Len(s) - n)
           /\ \A k \in 1..(Len(s) - n) : r[k] = s[n + k] /\ n + k \in DOMAIN s
<1>1. Len(s) \in Nat /\ r = SubSeq(s, n + 1, Len(s))
  BY DEF IsRest, DropFirst
<1>2. r \in Seq(S) /\ Len(r) = Len(s) - n /\ DOMAIN r = 1..(Len(s) - n)
  BY <1>1
<1>3. ASSUME NEW k \in 1..(Len(s) - n)
      PROVE  r[k] = s[n + k] /\ n + k \in DOMAIN s
  BY <1>1
<1> QED
  BY <1>1, <1>2, <1>3

\* The same of the timestamps of a block.
LEMMA RestOfStamps ==
    ASSUME NEW s \in Seq(Int), NEW n \in Nat, n <= Len(s), NEW r, IsRest(r, s, n)
    PROVE  /\ Len(r) = Len(s) - n
           /\ \A k \in 1..(Len(s) - n) : r[k] = s[n + k]
  BY RestOf

\* The blocks keep their meaning when more samples are handed over.
LEMMA MeansGrows ==
    ASSUME NEW t \in Seq(Sample), NEW u \in Seq(Sample), Len(t) <= Len(u),
           \A v \in 1..Len(t) : u[v] = t[v],
           NEW kind, NEW ch, NEW start, NEW period, NEW times,
           NEW values \in Seq(Nat), Means(t, kind, ch, start, period, times, values)
    PROVE  Means(u, kind, ch, start, period, times, values)
<1>1. /\ Len(t) \in Nat /\ DOMAIN t = 1..Len(t) /\ Len(u) \in Nat /\ DOMAIN u = 1..Len(u)
  OBVIOUS
<1>2. ASSUME NEW v, NEW i, NEW a, NEW p, Is(t, v, i, a, p)
      PROVE  Is(u, v, i, a, p)
  BY <1>1, <1>2 DEF Is
<1>3. ASSUME kind = "ContinuedData", values # <<>>
      PROVE  \E x \in DOMAIN u :
                /\ u[x].index = ch /\ x < values[1]
                /\ \A w \in DOMAIN u : u[w].index = ch => w <= x \/ values[1] <= w
                /\ \A k \in DOMAIN values :
                      Is(u, values[k], ch, u[x].time + k * u[x].period, u[x].period)
  <2>1. PICK x \in DOMAIN t :
                /\ t[x].index = ch /\ x < values[1]
                /\ \A w \in DOMAIN t : t[w].index = ch => w <= x \/ values[1] <= w
                /\ \A k \in DOMAIN values :
                      Is(t, values[k], ch, t[x].time + k * t[x].period, t[x].period)
    BY <1>3 DEF Means
  <2>2. x \in DOMAIN u /\ u[x] = t[x]
    BY <1>1
  <2>3. 1 \in DOMAIN values /\ values[1] \in Nat
    BY <1>3
  <2>4. values[1] \in 1..Len(t)
    BY <1>1, <2>1, <2>3 DEF Is
  <2>5. ASSUME NEW w \in DOMAIN u, u[w].index = ch
        PROVE  w <= x \/ values[1] <= w
    <3>1. CASE w \in 1..Len(t)
      BY <1>1, <2>1, <2>5, <3>1
    <3>2. CASE w \notin 1..Len(t)
      BY <1>1, <2>4, <3>2
    <3> QED
      BY <3>1, <3>2
  <2> QED
    BY <1>2, <2>1, <2>2, <2>5
<1> QED
  BY <1>2, <1>3 DEF Means

\* The first n samples of a call, as a block of them, mean what the call means.
LEMMA FrontMeans ==
    ASSUME NEW t \in Seq(Sample), NEW kind \in Kinds, NEW ch, NEW start, NEW period,
           NEW times \in Seq(Int), NEW values \in Seq(Nat), NEW n \in Nat, 0 < n, n <= Len(values),
           NEW s2, NEW p2, kind = "StartData" => s2 = start /\ p2 = period,
           NEW front, NEW ftimes, IsFront(front, values, n),
           IsFront(ftimes, times, Min2(n, Len(times))),
           Means(t, kind, ch, start, period, times, values)
    PROVE  Means(t, kind, ch, s2, p2, ftimes, front)
<1>1. /\ Len(front) = n /\ DOMAIN front = 1..n /\ 1..n \subseteq DOMAIN values
      /\ \A k \in 1..n : front[k] = values[k]
  <2>1. /\ front \in Seq(Nat) /\ Len(front) = n
        /\ DOMAIN front = 1..n /\ 1..n \subseteq DOMAIN values
        /\ \A k \in 1..n : front[k] = values[k]
    BY FrontOf
  <2> QED
    BY <2>1
<1>2. values # <<>> /\ front[1] = values[1]
  BY <1>1
<1>3. ASSUME Len(times) = Len(values)
      PROVE  Len(ftimes) = n /\ \A k \in 1..n : ftimes[k] = times[k]
  <2>1. n <= Len(times) /\ IsFront(ftimes, times, n)
    BY <1>3 DEF Min2
  <2> QED
    BY <2>1, FrontOf
<1>4. CASE kind = "StartData"
  BY <1>1, <1>4 DEF Means
<1>5. CASE kind = "ContinuedData"
  <2>1. PICK u \in DOMAIN t :
             /\ t[u].index = ch /\ u < values[1]
             /\ \A w \in DOMAIN t : t[w].index = ch => w <= u \/ values[1] <= w
             /\ \A k \in DOMAIN values :
                   Is(t, values[k], ch, t[u].time + k * t[u].period, t[u].period)
    BY <1>2, <1>5 DEF Means
  <2>2. /\ t[u].index = ch /\ u < front[1]
        /\ \A w \in DOMAIN t : t[w].index = ch => w <= u \/ front[1] <= w
        /\ \A k \in DOMAIN front :
              Is(t, front[k], ch, t[u].time + k * t[u].period, t[u].period)
    BY <1>1, <1>2, <2>1
  <2> QED
    BY <1>5, <2>2 DEF Means
<1>6. CASE kind = "AbsTimeStampData"
  BY <1>1, <1>3, <1>6 DEF Means
<1> QED
  BY <1>4, <1>5, <1>6 DEF Kinds

\* The samples behind them continue the segment, or keep their stamps.
LEMMA RestMeans ==
    ASSUME NEW t \in Seq(Sample), NEW kind \in Kinds, NEW ch, NEW start \in Int, NEW period \in Nat,
           NEW times \in Seq(Int), NEW values \in Seq(Nat), NEW n \in Nat, 0 < n, n <= Len(values),
           Consecutive(values),
           NEW s2, NEW p2, NEW rest, NEW rtimes, IsRest(rest, values, n),
           IsRest(rtimes, times, Min2(n, Len(times))),
           Means(t, kind, ch, start, period, times, values)
    PROVE  Means(t, Following(kind), ch, s2, p2, rtimes, rest)
<1> DEFINE m == Len(values) - n
<1>1. /\ m \in Nat /\ rest \in Seq(Nat) /\ Len(rest) = m /\ DOMAIN rest = 1..m
      /\ \A k \in 1..m : rest[k] = values[n + k] /\ n + k \in DOMAIN values
  BY RestOf
<1>2. ASSUME Len(times) = Len(values)
      PROVE  Len(rtimes) = m /\ \A k \in 1..m : rtimes[k] = times[n + k]
  <2>1. n <= Len(times) /\ IsRest(rtimes, times, n)
    BY <1>2 DEF Min2
  <2>2. /\ Len(rtimes) = Len(times) - n
        /\ \A k \in 1..(Len(times) - n) : rtimes[k] = times[n + k]
    BY <2>1, RestOfStamps
  <2> QED
    BY <1>2, <2>2 DEF m
<1> HIDE DEF m
<1> DEFINE u == values[n]
<1>3. n \in DOMAIN values /\ u = values[n] /\ u \in Nat /\ values # <<>> /\ 1 \in DOMAIN values
  OBVIOUS
<1> HIDE DEF u
<1>4. ASSUME m > 0
      PROVE  rest[1] = u + 1
  <2>1. 1 \in 1..m /\ n + 1 \in 1..Len(values) /\ n \in 1..Len(values)
    BY <1>1, <1>3, <1>4
  <2>2. values[n + 1] = values[n] + 1
    <3>1. n \in DOMAIN values /\ n + 1 \in DOMAIN values
      BY <1>1, <1>3, <2>1
    <3> QED
      BY <3>1 DEF Consecutive
  <2>3. rest[1] = values[n + 1]
    BY <1>1, <2>1, Zenon
  <2> QED
    BY <1>3, <2>2, <2>3
<1>5. ASSUME NEW a \in Int, NEW p \in Nat, u \in DOMAIN t, t[u].index = ch,
             t[u].time = a + n * p, t[u].period = p,
             \A k \in 1..m : Is(t, rest[k], ch, a + (n + k) * p, p)
      PROVE  Means(t, "ContinuedData", ch, s2, p2, rtimes, rest)
  <2> SUFFICES ASSUME rest # <<>>
               PROVE  /\ t[u].index = ch /\ u < rest[1]
                      /\ \A w \in DOMAIN t : t[w].index = ch => w <= u \/ rest[1] <= w
                      /\ \A k \in DOMAIN rest :
                            Is(t, rest[k], ch, t[u].time + k * t[u].period, t[u].period)
    BY <1>5 DEF Means
  <2>1. m > 0
    BY <1>1
  <2>2. rest[1] = u + 1
    BY <1>4, <2>1
  <2>3. \A w \in DOMAIN t : w <= u \/ rest[1] <= w
    BY <1>3, <2>2
  <2>4. ASSUME NEW k \in 1..m
        PROVE  Is(t, rest[k], ch, t[u].time + k * t[u].period, t[u].period)
    <3>1. a + (n + k) * p = (a + n * p) + k * p
      BY <1>1
    <3> QED
      BY <1>5, <3>1
  <2>5. u < rest[1]
    BY <1>3, <2>2
  <2>6. DOMAIN rest = 1..m
    BY <1>1
  <2> QED
    BY <1>5, <2>3, <2>4, <2>5, <2>6, Zenon
<1>6. CASE kind = "StartData"
  <2> DEFINE a == start - period
             p == period
  <2>1. \A k \in DOMAIN values : Is(t, values[k], ch, start + (k - 1) * p, p)
    BY <1>6 DEF Means
  <2>2. a \in Int /\ p \in Nat /\ \A k \in Nat : start + (k - 1) * p = a + k * p
    OBVIOUS
  <2>3. \A k \in DOMAIN values : Is(t, values[k], ch, a + k * p, p)
    BY <2>1, <2>2
  <2> HIDE DEF a, p
  <2>4. Is(t, u, ch, a + n * p, p)
    BY <1>3, <2>3
  <2>5. \A k \in 1..m : Is(t, rest[k], ch, a + (n + k) * p, p)
    BY <1>1, <2>3
  <2>6. u \in DOMAIN t /\ t[u].index = ch /\ t[u].time = a + n * p /\ t[u].period = p
    BY <2>4 DEF Is
  <2>7. Means(t, "ContinuedData", ch, s2, p2, rtimes, rest)
    BY <1>5, <2>2, <2>5, <2>6
  <2> QED
    BY <1>6, <2>7 DEF Following
<1>7. CASE kind = "ContinuedData"
  <2>1. PICK x \in DOMAIN t :
             /\ t[x].index = ch /\ x < values[1]
             /\ \A w \in DOMAIN t : t[w].index = ch => w <= x \/ values[1] <= w
             /\ \A k \in DOMAIN values :
                   Is(t, values[k], ch, t[x].time + k * t[x].period, t[x].period)
    BY <1>3, <1>7 DEF Means
  <2> DEFINE a == t[x].time
             p == t[x].period
  <2>2. a \in Int /\ p \in Nat
    <3>1. t[x] \in Sample
      OBVIOUS
    <3> QED
      BY <3>1 DEF Sample
  <2>3. \A k \in DOMAIN values : Is(t, values[k], ch, a + k * p, p)
    BY <2>1
  <2> HIDE DEF a, p
  <2>4. Is(t, u, ch, a + n * p, p)
    BY <1>3, <2>3
  <2>5. \A k \in 1..m : Is(t, rest[k], ch, a + (n + k) * p, p)
    BY <1>1, <2>3
  <2>6. u \in DOMAIN t /\ t[u].index = ch /\ t[u].time = a + n * p /\ t[u].period = p
    BY <2>4 DEF Is
  <2>7. Means(t, "ContinuedData", ch, s2, p2, rtimes, rest)
    BY <1>5, <2>2, <2>5, <2>6
  <2> QED
    BY <1>7, <2>7 DEF Following
<1>8. CASE kind = "AbsTimeStampData"
  <2>1. Len(rtimes) = Len(rest) /\ \A k \in 1..m : rtimes[k] = times[n + k]
    BY <1>1, <1>2, <1>8 DEF Means
  <2> QED
    BY <1>1, <1>8, <2>1 DEF Means, Following
<1> QED
  BY <1>6, <1>7, <1>8 DEF Kinds

---------------------------------------------------------------------------
(* The writer: its steps. *)

\* The types that a block and a call bring along.
LEMMA BlockFields ==
    ASSUME TypeOK, NEW i \in 1..Len(file)
    PROVE  /\ file[i] \in BlockType /\ file[i].index \in Nat /\ file[i].kind \in Kinds
           /\ file[i].start \in Int /\ file[i].period \in Nat /\ file[i].times \in Seq(Int)
           /\ file[i].values \in Seq(Nat)
<1>1. file[i] \in BlockType
  BY DEF TypeOK
<1> QED
  BY <1>1 DEF BlockType

LEMMA CallFields ==
    ASSUME TypeOK, call.op = "write"
    PROVE  /\ call \in WriteCall /\ call.index \in Nat /\ call.kind \in Kinds
           /\ call.start \in Int /\ call.period \in Nat /\ call.times \in Seq(Int)
           /\ call.values \in Seq(Nat)
<1>1. call \in WriteCall
  BY DEF TypeOK, NoCall, StartCall
<1> QED
  BY <1>1 DEF WriteCall

\* What was handed over with the call that begins is behind what was before.
LEMMA ToldGrows ==
    ASSUME Record, told \in Seq(Sample), Len(told) = offered, NEW n \in Nat,
           offered' = offered + n
    PROVE  /\ Len(told') = offered + n /\ DOMAIN told' = 1..(offered + n)
           /\ \A v \in 1..offered : told'[v] = told[v]
           /\ \A i \in 1..n : told'[offered + i] = Meant(i)
           /\ (\A i \in 1..n : Meant(i) \in Sample) => told' \in Seq(Sample)
<1> DEFINE g == [i \in 1..n |-> Meant(i)]
<1>1. offered \in Nat /\ offered' - offered = n
  OBVIOUS
<1>2. told' = told \o g
  BY <1>1 DEF Record
<1>3. Len(g) = n /\ DOMAIN g = 1..n /\ (\A i \in 1..n : g[i] = Meant(i)) /\ g \in Seq({Meant(i) : i \in 1..n})
  OBVIOUS
<1> HIDE DEF g
<1>4. ASSUME NEW S, NEW a \in Seq(S), NEW b \in Seq(S)
      PROVE  /\ a \o b \in Seq(S) /\ Len(a \o b) = Len(a) + Len(b)
             /\ DOMAIN (a \o b) = 1..(Len(a) + Len(b))
             /\ \A v \in 1..Len(a) : (a \o b)[v] = a[v]
             /\ \A i \in 1..Len(b) : (a \o b)[Len(a) + i] = b[i]
  OBVIOUS
<1> DEFINE T == Sample \cup {Meant(i) : i \in 1..n}
<1>5. told \in Seq(T) /\ g \in Seq(T)
  BY <1>3
<1> HIDE DEF T
<1>6. /\ told' \in Seq(T) /\ Len(told') = Len(told) + Len(g)
      /\ DOMAIN told' = 1..(Len(told) + Len(g))
      /\ \A v \in 1..Len(told) : told'[v] = told[v]
      /\ \A i \in 1..Len(g) : told'[Len(told) + i] = g[i]
  BY <1>2, <1>4, <1>5
<1>7. ASSUME \A i \in 1..n : Meant(i) \in Sample
      PROVE  told' \in Seq(Sample)
  <2>1. T = Sample
    BY <1>7 DEF T
  <2> QED
    BY <1>6, <2>1
<1> QED
  BY <1>3, <1>6, <1>7

\* A step that hands nothing over.
LEMMA ToldStays ==
    ASSUME Record, told \in Seq(Sample), Len(told) = offered, offered' = offered
    PROVE  told' = told
<1>1. /\ Len(told') = offered /\ DOMAIN told' = 1..offered /\ offered \in Nat
      /\ \A v \in 1..offered : told'[v] = told[v]
      /\ told' \in Seq(Sample)
  <2>1. offered \in Nat /\ 0 \in Nat /\ offered' = offered + 0 /\ 1..0 = {} /\ offered + 0 = offered
    OBVIOUS
  <2>2. /\ Len(told') = offered + 0 /\ DOMAIN told' = 1..(offered + 0)
        /\ \A v \in 1..offered : told'[v] = told[v]
        /\ (\A i \in 1..0 : Meant(i) \in Sample) => told' \in Seq(Sample)
    BY <2>1, ToldGrows
  <2> QED
    BY <2>1, <2>2
<1>2. told = [v \in 1..offered |-> told[v]] /\ told' = [v \in 1..offered |-> told'[v]]
  BY <1>1
<1> QED
  BY <1>1, <1>2

\* Steps that leave the samples alone, drop blocks at the end of the file, and end
\* the call or leave it as it is.
LEMMA QuietMeaning ==
    ASSUME IInv, Meaning, told' = told, offered' = offered,
           NEW k \in 0..Len(file), Len(file') = k, \A i \in 1..k : file'[i] = file[i],
           call'.op # "write"
    PROVE  Meaning'
<1>1. Len(file) \in Nat
  BY DEF IInv, TypeOK
<1>2. \A i \in 1..Len(file') : BlockMeans(told', file'[i])
  BY <1>1 DEF Meaning
<1>3. told' \in Seq(Sample) /\ Len(told') = offered'
  BY DEF Meaning
<1>4. (\A i \in 1..Len(file) : BlockMeans(told, file[i]))'
  BY <1>2
<1> QED
  BY <1>3, <1>4 DEF Meaning

\* The blocks in the file mean the same once more samples are handed over.
LEMMA FileMeansGrows ==
    ASSUME IInv, Meaning, told' \in Seq(Sample), Len(told) <= Len(told'),
           \A v \in 1..Len(told) : told'[v] = told[v], file' = file
    PROVE  \A i \in 1..Len(file') : BlockMeans(told', file'[i])
<1> SUFFICES ASSUME NEW i \in 1..Len(file) PROVE BlockMeans(told', file[i])
  OBVIOUS
<1>1. BlockMeans(told, file[i]) /\ told \in Seq(Sample)
  BY DEF Meaning
<1>2. file[i].values \in Seq(Nat)
  BY BlockFields DEF IInv
<1> QED
  BY <1>1, <1>2, MeansGrows DEF BlockMeans

\* A call that begins.
LEMMA AcceptedMeaning ==
    ASSUME IInv, Meaning, Record, NEW ch \in Nat, NEW kind \in Kinds, NEW start \in Int,
           NEW period \in Nat, NEW times, NEW n \in Nat \ {0}, NEW size,
           Accepted(ch, kind, start, period, times, n, size),
           kind = "StartData" => start <= MaxTime,
           kind = "ContinuedData" => \E v \in DOMAIN told : told[v].index = ch,
           kind = "AbsTimeStampData" =>
              times \in Seq(Int) /\ Len(times) = n /\ \A k \in 1..n : times[k] <= MaxTime
    PROVE  Meaning'
<1>1. /\ call' = [op |-> "write", index |-> ch, kind |-> kind, start |-> start,
                  period |-> period, times |-> times,
                  values |-> [i \in 1..n |-> offered + i],
                  first |-> offered + 1, size |-> size, phase |-> "write"]
      /\ offered' = offered + n /\ file' = file
  BY DEF Accepted, disk
<1>2. told \in Seq(Sample) /\ Len(told) = offered /\ offered \in Nat /\ DOMAIN told = 1..offered
  BY DEF Meaning
<1>3. /\ Len(told') = offered + n /\ DOMAIN told' = 1..(offered + n)
      /\ \A v \in 1..offered : told'[v] = told[v]
      /\ \A i \in 1..n : told'[offered + i] = Meant(i)
      /\ (\A i \in 1..n : Meant(i) \in Sample) => told' \in Seq(Sample)
  BY <1>1, <1>2, ToldGrows
<1> DEFINE S(time, p) == [index |-> ch, time |-> time, period |-> p]
           last == told[LastOf(ch)]
           vs == [i \in 1..n |-> offered + i]
<1>4. CallKind' = kind /\ call'.values = vs /\ call'.index = ch
      /\ call'.start = start /\ call'.period = period /\ call'.times = times
  BY <1>1 DEF CallKind
<1>5. \A i : Meant(i) = CASE kind = "StartData"     -> S(start + (i - 1) * period, period)
                         [] kind = "ContinuedData" -> S(last.time + i * last.period, last.period)
                         [] OTHER                  -> S(times[i], 0)
  BY <1>1 DEF Meant
<1>6. /\ vs \in Seq(Nat) /\ Len(vs) = n /\ DOMAIN vs = 1..n /\ vs # <<>> /\ vs[1] = offered + 1
      /\ \A k \in 1..n : vs[k] = offered + k /\ vs[k] \in DOMAIN told'
  <2>1. \A i \in 1..n : offered + i \in Nat /\ offered + i \in 1..(offered + n)
    BY <1>2
  <2>2. vs \in Seq(Nat) /\ Len(vs) = n /\ DOMAIN vs = 1..n /\ 1 \in 1..n
    BY <2>1
  <2>3. \A k \in 1..n : vs[k] = offered + k
    OBVIOUS
  <2> HIDE DEF vs
  <2> QED
    BY <1>3, <2>1, <2>2, <2>3
<1>7. ASSUME \A i \in 1..n : Meant(i) \in Sample,
             Means(told', kind, ch, start, period, times, vs)
      PROVE  Meaning'
  <2>1. told' \in Seq(Sample) /\ Len(told') = offered'
    BY <1>1, <1>3, <1>7
  <2>2. \A i \in 1..Len(file') : BlockMeans(told', file'[i])
    BY <1>1, <1>2, <1>3, <2>1, FileMeansGrows
  <2>3. (\A i \in 1..Len(file) : BlockMeans(told, file[i]))'
    BY <2>2
  <2>4. (Means(told, CallKind, call.index, call.start, call.period, call.times, call.values))'
    BY <1>4, <1>7
  <2> QED
    BY <2>1, <2>3, <2>4 DEF Meaning
<1> HIDE DEF vs
<1>8. CASE kind = "StartData"
  <2>1. \A i \in 1..n : Meant(i) = S(start + (i - 1) * period, period)
    BY <1>5, <1>8
  <2>2. \A i \in 1..n : start + (i - 1) * period \in Int
    OBVIOUS
  <2>3. \A i \in 1..n : Meant(i) \in Sample
    BY <2>1, <2>2 DEF Sample
  <2>4. \A k \in DOMAIN vs : Is(told', vs[k], ch, start + (k - 1) * period, period)
    BY <1>3, <1>6, <2>1 DEF Is
  <2>5. Means(told', kind, ch, start, period, times, vs)
    BY <1>8, <2>4 DEF Means
  <2> QED
    BY <1>7, <2>3, <2>5
<1>9. CASE kind = "ContinuedData"
  <2> DEFINE Of == {v \in DOMAIN told : told[v].index = ch}
             u == LastOf(ch)
  <2>1. Of \in SUBSET (1..offered) /\ Of # {}
    BY <1>2, <1>9
  <2>2. \E v \in Of : \A w \in Of : v >= w
    BY <1>2, <2>1, LargestOfRange
  <2>3. \E v \in DOMAIN told : /\ told[v].index = ch
                               /\ \A w \in DOMAIN told : told[w].index = ch => w <= v
    BY <1>2, <2>2
  <2>4. u \in DOMAIN told /\ told[u].index = ch
        /\ \A w \in DOMAIN told : told[w].index = ch => w <= u
    BY <2>3 DEF LastOf
  <2> HIDE DEF u
  <2>5. u \in 1..offered /\ told'[u] = told[u] /\ told[u] \in Sample /\ u \in DOMAIN told'
    BY <1>2, <1>3, <2>4
  <2>6. told[u].time \in Int /\ told[u].period \in Nat
    BY <2>5 DEF Sample
  <2>7. \A i \in 1..n : Meant(i) = S(told[u].time + i * told[u].period, told[u].period)
    BY <1>5, <1>9 DEF u
  <2>8. \A i \in 1..n : told[u].time + i * told[u].period \in Int
    <3>1. ASSUME NEW a \in Int, NEW p \in Nat, NEW i \in Nat
          PROVE  a + i * p \in Int
      BY ONLY <3>1
    <3>2. \A i \in 1..n : i \in Nat
      OBVIOUS
    <3> QED
      BY <2>6, <3>1, <3>2, Zenon
  <2>9. \A i \in 1..n : Meant(i) \in Sample
    BY <2>6, <2>7, <2>8 DEF Sample
  <2>10. \A k \in DOMAIN vs :
            Is(told', vs[k], ch, told'[u].time + k * told'[u].period, told'[u].period)
    BY <1>3, <1>6, <2>5, <2>7 DEF Is
  <2>11. u < vs[1] /\ told'[u].index = ch
    BY <1>2, <1>6, <2>4, <2>5
  <2>12. ASSUME NEW w \in DOMAIN told', told'[w].index = ch
         PROVE  w <= u \/ vs[1] <= w
    <3>1. CASE w \in 1..offered
      BY <1>2, <1>3, <2>4, <2>12, <3>1
    <3>2. CASE w \notin 1..offered
      BY <1>2, <1>3, <1>6, <3>2
    <3> QED
      BY <3>1, <3>2
  <2>13. Means(told', kind, ch, start, period, times, vs)
    BY <1>9, <2>5, <2>10, <2>11, <2>12 DEF Means
  <2> QED
    BY <1>7, <2>9, <2>13
<1>10. CASE kind = "AbsTimeStampData"
  <2>1. times \in Seq(Int) /\ Len(times) = n /\ \A k \in 1..n : times[k] <= MaxTime
    BY <1>10
  <2>2. \A i \in 1..n : Meant(i) = S(times[i], 0)
    BY <1>5, <1>10
  <2>3. \A i \in 1..n : times[i] \in Int
    BY <2>1
  <2>4. \A i \in 1..n : Meant(i) \in Sample
    BY <2>2, <2>3 DEF Sample
  <2>5. \A k \in DOMAIN vs : times[k] <= MaxTime /\ Is(told', vs[k], ch, times[k], 0)
    BY <1>3, <1>6, <2>1, <2>2 DEF Is
  <2>6. Means(told', kind, ch, start, period, times, vs)
    BY <1>6, <1>10, <2>1, <2>5 DEF Means
  <2> QED
    BY <1>7, <2>4, <2>6
<1> QED
  BY <1>8, <1>9, <1>10 DEF Kinds

\* The writer's half of the invariant, initially.
LEMMA WrittenInit == AllInit => Written
<1> SUFFICES ASSUME AllInit PROVE Written
  OBVIOUS
<1>1. Init /\ told = <<>> /\ IInv
  BY InitIInv DEF AllInit
<1>2. /\ file = <<>> /\ channels = <<>> /\ offered = 0 /\ call = NoCall /\ header = "none"
  BY <1>1 DEF Init
<1>3. Ordered
  BY <1>2 DEF Ordered, ValueAt
<1>4. ChannelsAre
  BY <1>2, Declarations DEF ChannelsAre
<1>5. Meaning
  BY <1>1, <1>2 DEF Meaning, NoCall
<1> QED
  BY <1>1, <1>3, <1>4, <1>5 DEF Written

\* A lock for equidistant samples is for a channel of floats.
LEMMA LockAre ==
    ASSUME TypeOK, ChannelsAre, NEW ch \in Nat, NEW mode, NEW dt, requireChannel(ch, mode, dt),
           mode = "Equidistant" => dt \in EquidistantTypes, Lock(ch, mode)
    PROVE  /\ Len(channels') = Len(channels)
           /\ \A i \in 1..Len(channels) :
                 /\ channels'[i].dataType = channels[i].dataType
                 /\ channels'[i].kindLock = "Equidistant" =>
                       channels[i].dataType \in EquidistantTypes
<1>1. /\ Len(channels) \in Nat /\ channels \in [1..Len(channels) -> ChannelType]
      /\ ch + 1 \in 1..Len(channels) /\ channels[ch + 1].dataType = dt
  BY Lengths DEF requireChannel
<1>2. channels' = [channels EXCEPT ![ch + 1].kindLock = mode]
  BY DEF Lock
<1>3. channels' \in Seq(ChannelType) \/ Len(channels') = Len(channels)
  BY <1>1, <1>2
<1>4. /\ channels'[ch + 1] = [channels[ch + 1] EXCEPT !.kindLock = mode]
      /\ \A i \in 1..Len(channels) : i # ch + 1 => channels'[i] = channels[i]
  BY <1>1, <1>2
<1>5. channels[ch + 1] \in ChannelType
  BY <1>1
<1>6. channels'[ch + 1].dataType = channels[ch + 1].dataType /\ channels'[ch + 1].kindLock = mode
  BY <1>4, <1>5 DEF ChannelType
<1>7. Len(channels') = Len(channels)
  BY <1>1, <1>2
<1> QED
  BY <1>1, <1>4, <1>6, <1>7 DEF ChannelsAre

\* The channels stay those of the metablock.
LEMMA ChannelsAreStep ==
    ASSUME TypeOK, TypeOK', ChannelsAre, Record
    PROVE  ChannelsAre'
<1>1. /\ Len(channels) \in Nat /\ Len(channels') \in Nat
      /\ channels \in [1..Len(channels) -> ChannelType]
  BY Lengths DEF TypeOK
<1>2. /\ Len(channels') <= N /\ (header' # "none" => Len(channels') = N)
      /\ Len(channels') > Len(channels) =>
            channels'[Len(channels')].dataType = WriterType(DataType(Len(channels') - 1))
  <2>1. /\ Len(channels') <= N /\ (header' # "none" => Len(channels') = N)
        /\ Len(channels') > Len(channels) =>
              channels'[Len(channels')].dataType = WriterDef(Len(channels')).dataType
    BY DEF Record, Disciplined, N
  <2>2. WriterDef(Len(channels')).dataType = WriterType(DataType(Len(channels') - 1))
    BY <1>1 DEF WriterDef, DataType
  <2> QED
    BY <2>1, <2>2
<1>3. ASSUME Len(channels') = Len(channels),
             \A i \in 1..Len(channels) :
                 /\ channels'[i].dataType = channels[i].dataType
                 /\ channels'[i].kindLock = "Equidistant" =>
                       channels[i].dataType \in EquidistantTypes
      PROVE  ChannelsAre'
  <2>1. (\A i \in 1..Len(channels) :
            /\ channels[i].dataType = WriterType(DataType(i - 1))
            /\ channels[i].kindLock = "Equidistant" => channels[i].dataType \in EquidistantTypes)'
    BY <1>3 DEF ChannelsAre, DataType
  <2> QED
    BY <1>2, <2>1 DEF ChannelsAre
<1>4. CASE channels' = channels
  BY <1>3, <1>4 DEF ChannelsAre
<1>5. ASSUME NEW def \in Defs, addChannel(def) PROVE ChannelsAre'
  <2>1. /\ Len(channels') = Len(channels) + 1
        /\ \A i \in 1..Len(channels) : channels'[i] = channels[i]
        /\ channels'[Len(channels) + 1].kindLock = "Unset"
    BY <1>1, <1>5 DEF addChannel
  <2>2. channels'[Len(channels) + 1].dataType = WriterType(DataType(Len(channels)))
    BY <1>1, <1>2, <2>1
  <2>3. ASSUME NEW i \in 1..Len(channels')
        PROVE  /\ channels'[i].dataType = WriterType(DataType(i - 1))
               /\ channels'[i].kindLock = "Equidistant" =>
                     channels'[i].dataType \in EquidistantTypes
    <3>1. CASE i \in 1..Len(channels)
      BY <2>1, <3>1 DEF ChannelsAre
    <3>2. CASE i = Len(channels) + 1
      BY <1>1, <2>1, <2>2, <3>2
    <3> QED
      BY <1>1, <2>1, <3>1, <3>2
  <2>4. (\A i \in 1..Len(channels) :
            /\ channels[i].dataType = WriterType(DataType(i - 1))
            /\ channels[i].kindLock = "Equidistant" => channels[i].dataType \in EquidistantTypes)'
    BY <2>3 DEF DataType
  <2> QED
    BY <1>2, <2>4 DEF ChannelsAre
<1>6. ASSUME NEW ch \in Nat, NEW mode, NEW dt, requireChannel(ch, mode, dt),
             mode = "Equidistant" => dt \in EquidistantTypes, Lock(ch, mode)
      PROVE  ChannelsAre'
  BY <1>3, <1>6, LockAre
<1>7. \A ch \in Indices : ch \in Nat
  BY DEF Indices
<1>8. ASSUME NEW ch \in Indices, NEW dt \in EquidistantTypes, NEW start \in Stamps,
             NEW period \in Periods, NEW n \in 0..MaxCall,
             startEquidistantSegment(ch, dt, start, period, n)
      PROVE  ChannelsAre'
  BY <1>6, <1>7, <1>8 DEF startEquidistantSegment
<1>9. ASSUME NEW ch \in Indices, NEW dt \in EquidistantTypes, NEW n \in 0..MaxCall,
             appendEquidistantSamples(ch, dt, n)
      PROVE  ChannelsAre'
  BY <1>6, <1>7, <1>9 DEF appendEquidistantSamples
<1>10. ASSUME NEW ch \in Indices, NEW dt \in DOMAIN FixedSize, NEW n \in 0..MaxCall,
              NEW times \in [1..n -> Stamps], writeTimestampedSamples(ch, dt, times)
       PROVE  ChannelsAre'
  BY <1>6, <1>7, <1>10 DEF writeTimestampedSamples
<1>11. ASSUME NEW ch \in Indices, NEW dt \in VariableTypes, NEW time \in Stamps,
              NEW size \in Sizes, writeTimestampedVariable(ch, dt, time, size)
       PROVE  ChannelsAre'
  BY <1>6, <1>7, <1>11 DEF writeTimestampedVariable
<1>12. CASE ForceBlock
  <2>1. CASE channels' = channels
    BY <1>4, <2>1
  <2>2. CASE channels' = [channels EXCEPT ![call.index + 1].segmentOpen = TRUE]
    <3> DEFINE i0 == call.index + 1
    <3>1. i0 \in 1..Len(channels)
      BY <1>1, <1>12, CallFields DEF ForceBlock, TypeOK
    <3> HIDE DEF i0
    <3>2. /\ channels'[i0] = [channels[i0] EXCEPT !.segmentOpen = TRUE]
          /\ \A i \in 1..Len(channels) : i # i0 => channels'[i] = channels[i]
          /\ Len(channels') = Len(channels) /\ channels[i0] \in ChannelType
      <4>1. channels' = [channels EXCEPT ![i0].segmentOpen = TRUE]
        BY <2>2 DEF i0
      <4> QED
        BY <1>1, <3>1, <4>1
    <3>3. channels'[i0].dataType = channels[i0].dataType /\ channels'[i0].kindLock = channels[i0].kindLock
      BY <3>2 DEF ChannelType
    <3> QED
      BY <1>3, <3>2, <3>3 DEF ChannelsAre
  <2> QED
    BY <1>12, <2>1, <2>2 DEF ForceBlock
<1>13. CASE (\E p \in Profiles : setIntegrity(p)) \/ Start \/ close \/ StartWrites \/ StartForces
            \/ StartFails \/ WriteBlock \/ DoWriteBlockFails \/ PowerLoss
  BY <1>4, <1>13 DEF setIntegrity, Start, close, StartWrites, StartForces, StartFails, WriteBlock,
     DoWriteBlockFails, PowerLoss
<1> QED
  BY <1>5, <1>8, <1>9, <1>10, <1>11, <1>12, <1>13 DEF Record, Next

\* A block is written: it means what the call meant, and so does what is left.
LEMMA WriteMeaning ==
    ASSUME IInv, Meaning, WriteBlock, told' = told, offered' = offered
    PROVE  Meaning'
<1> DEFINE n == Chunk
           ts == Min2(n, Len(call.times))
<1>1. TypeOK /\ call.op = "write" /\ call.phase = "write"
  BY DEF IInv, WriteBlock
<1>2. /\ call \in WriteCall /\ call.index \in Nat /\ call.kind \in Kinds
      /\ call.start \in Int /\ call.period \in Nat /\ call.times \in Seq(Int)
      /\ call.values \in Seq(Nat)
  BY <1>1, CallFields
<1>3. n \in Nat /\ 0 < n /\ n <= Len(call.values)
  <2>1. call.values # <<>>
    BY <1>1 DEF IInv, Progress
  <2> QED
    BY <1>1, <1>2, <2>1, ChunkSize
<1>4. Consecutive(call.values)
  <2>1. offered \in Nat /\ Len(call.values) \in Nat
    BY <1>1, <1>2 DEF TypeOK
  <2>2. \A i \in DOMAIN call.values : call.values[i] = offered - Len(call.values) + i
    BY <1>1 DEF IInv, Progress
  <2>3. ASSUME NEW i \in DOMAIN call.values, i + 1 \in DOMAIN call.values
        PROVE  call.values[i + 1] = call.values[i] + 1
    <3>1. i \in Int
      BY <1>2
    <3> QED
      BY <2>1, <2>2, <2>3, <3>1
  <2> QED
    BY <2>3 DEF Consecutive
<1>5. Means(told, call.kind, call.index, call.start, call.period, call.times, call.values)
      /\ told \in Seq(Sample)
  BY <1>1 DEF Meaning, CallKind
<1> DEFINE b == Block(n)
<1>6. /\ b.kind = call.kind /\ b.index = call.index
      /\ call.kind = "StartData" => b.start = call.start /\ b.period = call.period
      /\ IsFront(b.times, call.times, ts) /\ IsFront(b.values, call.values, n)
  BY DEF Block, IsFront
<1>7. file' = Append(file, b)
      /\ call' = [call EXCEPT !.phase  = "force", !.values = DropFirst(call.values, n),
                              !.times  = DropFirst(call.times, ts)]
  BY DEF WriteBlock
<1> HIDE DEF n, b
<1>8. BlockMeans(told, b)
  BY <1>2, <1>3, <1>5, <1>6, FrontMeans DEF BlockMeans
<1>9. /\ call'.op = "write" /\ call'.phase = "force" /\ call'.kind = call.kind
      /\ call'.index = call.index /\ call'.start = call.start /\ call'.period = call.period
      /\ IsRest(call'.values, call.values, n) /\ IsRest(call'.times, call.times, ts)
  BY <1>1, <1>2, <1>7 DEF WriteCall, IsRest
<1> HIDE DEF ts
<1>10. Means(told, Following(call.kind), call.index, call'.start, call'.period,
             call'.times, call'.values)
  BY <1>2, <1>3, <1>4, <1>5, <1>9, RestMeans DEF ts
<1>11. (Means(told, CallKind, call.index, call.start, call.period, call.times, call.values))'
  BY <1>9, <1>10 DEF CallKind
<1>12. (\A i \in 1..Len(file) : BlockMeans(told, file[i]))'
  <2>1. /\ Len(file) \in Nat /\ Len(file') = Len(file) + 1
        /\ \A i \in 1..Len(file) : file'[i] = file[i]
        /\ file'[Len(file) + 1] = b
    BY <1>1, <1>7, Lengths
  <2>2. ASSUME NEW i \in 1..Len(file')
        PROVE  BlockMeans(told, file'[i])
    <3>1. CASE i \in 1..Len(file)
      BY <2>1, <3>1 DEF Meaning
    <3>2. CASE i = Len(file) + 1
      BY <1>8, <2>1, <3>2
    <3> QED
      BY <2>1, <3>1, <3>2
  <2> QED
    BY <2>2
<1> QED
  BY <1>11, <1>12 DEF Meaning

\* A block is forced: what is left to write is the same.
LEMMA ForceMeaning ==
    ASSUME IInv, Meaning, ForceBlock, told' = told, offered' = offered
    PROVE  Meaning'
<1>1. /\ TypeOK /\ call.op = "write" /\ call.phase = "force" /\ file' = file
  BY DEF IInv, ForceBlock
<1>2. CASE call.values = <<>>
  <2>1. call' = NoCall /\ Len(file) \in 0..Len(file)
    BY <1>1, <1>2, Lengths DEF ForceBlock
  <2> QED
    BY <1>1, <2>1, QuietMeaning DEF NoCall
<1>3. CASE call.values # <<>>
  <2>1. call \in WriteCall /\ call.kind \in Kinds
    BY <1>1, CallFields
  <2>2. call' = [call EXCEPT !.phase = "write",
                             !.kind  = IF @ = "StartData" THEN "ContinuedData" ELSE @]
    BY <1>3 DEF ForceBlock
  <2>3. /\ call'.phase = "write" /\ call'.kind = Following(call.kind)
        /\ call'.index = call.index /\ call'.start = call.start /\ call'.period = call.period
        /\ call'.times = call.times /\ call'.values = call.values
    BY <2>1, <2>2 DEF WriteCall, Following
  <2>4. Means(told, Following(call.kind), call.index, call.start, call.period, call.times, call.values)
    BY <1>1 DEF Meaning, CallKind
  <2>5. (Means(told, CallKind, call.index, call.start, call.period, call.times, call.values))'
    BY <2>3, <2>4 DEF CallKind
  <2>6. (\A i \in 1..Len(file) : BlockMeans(told, file[i]))'
    BY <1>1 DEF Meaning
  <2> QED
    BY <2>5, <2>6 DEF Meaning
<1> QED
  BY <1>2, <1>3

\* The power fails: the blocks that stay mean what they meant.
LEMMA PowerLossMeaning ==
    ASSUME IInv, Meaning, PowerLoss, told' = told, offered' = offered
    PROVE  Meaning'
<1>1. Len(file) \in Nat /\ synced \in Nat
  BY Lengths DEF IInv, TypeOK
<1>2. PICK k \in synced..Len(file) : file' = SubSeq(file, 1, k)
  BY DEF PowerLoss
<1>3. ASSUME NEW S, NEW s \in Seq(S), NEW j \in 0..Len(s)
      PROVE  Len(SubSeq(s, 1, j)) = j /\ \A i \in 1..j : SubSeq(s, 1, j)[i] = s[i]
  OBVIOUS
<1>4. k \in 0..Len(file) /\ file \in Seq(BlockType)
  BY <1>1, <1>2 DEF IInv, TypeOK
<1>5. Len(file') = k /\ \A i \in 1..k : file'[i] = file[i]
  BY <1>2, <1>3, <1>4
<1>6. call'.op # "write"
  BY DEF PowerLoss, NoCall
<1> QED
  BY <1>4, <1>5, <1>6, QuietMeaning

\* A segment is only continued in a channel for which samples were handed over.
LEMMA ContinuedIsTold ==
    ASSUME IInv, Meaning, NEW ch \in Nat, ch < Len(channels), channels[ch + 1].segmentOpen
    PROVE  \E v \in DOMAIN told : told[v].index = ch
<1>1. Len(channels) \in Nat /\ DOMAIN channels = 1..Len(channels) /\ ch + 1 \in 1..Len(channels)
      /\ Len(file) \in Nat /\ synced \in 0..Len(file)
  BY Lengths DEF IInv, TypeOK
<1>2. StartInFile(ch, synced)
  BY <1>1 DEF IInv, Segments
<1>3. PICK j \in 1..Len(file) : file[j].index = ch /\ file[j].kind = "StartData"
  BY <1>1, <1>2 DEF StartInFile
<1>4. BlockMeans(told, file[j])
  BY DEF Meaning
<1>5. 1 \in DOMAIN file[j].values
  <2>1. file[j].values \in Seq(Nat)
    BY BlockFields DEF IInv
  <2>2. file[j].values # <<>>
    <3>1. j \in DOMAIN file
      BY <1>1, Lengths DEF IInv
    <3> QED
      BY <3>1 DEF IInv, EverySampleOnce
  <2> QED
    BY <2>1, <2>2
<1>6. \E time, period : Is(told, file[j].values[1], ch, time, period)
  BY <1>3, <1>4, <1>5 DEF BlockMeans, Means
<1> QED
  BY <1>6 DEF Is

\* Each step of the writer keeps the meaning of the file.
LEMMA MeaningStep ==
    ASSUME IInv, Meaning, Record
    PROVE  Meaning'
<1>1. /\ TypeOK /\ told \in Seq(Sample) /\ Len(told) = offered
      /\ Len(file) \in Nat /\ Len(file) \in 0..Len(file)
  BY Lengths DEF IInv, Meaning
<1>2. ASSUME offered' = offered, file' = file, call'.op # "write"
      PROVE  Meaning'
  BY <1>1, <1>2, ToldStays, QuietMeaning
<1>3. ASSUME Idle, LockedOnly PROVE Meaning'
  BY <1>2, <1>3 DEF LockedOnly, Idle, NoCall, disk
<1>4. /\ Indices \subseteq Nat
      /\ \A t \in Stamps : t \in Int /\ t <= MaxTime
  <2>1. \A t \in Stamps : t \in Int
    BY CallAssumption
  <2>2. \A t \in Stamps : t <= MaxTime
    BY RecordingAssumption, Zenon
  <2>3. Indices \subseteq Nat
    BY DEF Indices
  <2> QED
    BY <2>1, <2>2, <2>3
<1>5. ASSUME NEW ch \in Indices, NEW dt \in EquidistantTypes, NEW start \in Stamps,
             NEW period \in Periods, NEW n \in 0..MaxCall,
             startEquidistantSegment(ch, dt, start, period, n)
      PROVE  Meaning'
  <2>1. /\ n \in Nat \ {0} /\ period \in Nat /\ start \in Int /\ start <= MaxTime /\ ch \in Nat
        /\ Accepted(ch, "StartData", start, period, <<>>, n, 0)
    BY <1>4, <1>5, CallAssumption DEF startEquidistantSegment
  <2> QED
    BY <2>1, AcceptedMeaning DEF Kinds
<1>6. ASSUME NEW ch \in Indices, NEW dt \in EquidistantTypes, NEW n \in 0..MaxCall,
             appendEquidistantSamples(ch, dt, n)
      PROVE  Meaning'
  <2>1. ch \in Nat /\ n \in Nat \ {0} /\ ch < Len(channels) /\ Idle
    BY <1>4, <1>6, CallAssumption DEF appendEquidistantSamples, requireChannel
  <2>2. CASE channels[ch + 1].segmentOpen
    <3>1. Accepted(ch, "ContinuedData", 0, 0, <<>>, n, 0)
      BY <1>6, <2>2 DEF appendEquidistantSamples
    <3>2. \E v \in DOMAIN told : told[v].index = ch
      BY <2>1, <2>2, ContinuedIsTold
    <3> QED
      BY <2>1, <3>1, <3>2, AcceptedMeaning DEF Kinds
  <2>3. CASE ~channels[ch + 1].segmentOpen
    BY <1>3, <1>6, <2>1, <2>3 DEF appendEquidistantSamples
  <2> QED
    BY <2>2, <2>3
<1>7. ASSUME NEW ch \in Indices, NEW dt \in DOMAIN FixedSize, NEW n \in 0..MaxCall,
             NEW times \in [1..n -> Stamps], writeTimestampedSamples(ch, dt, times)
      PROVE  Meaning'
  <2>1. n \in Nat /\ ch \in Nat
    BY <1>4, CallAssumption
  <2>2. /\ times \in Seq(Int) /\ Len(times) = n /\ \A k \in 1..n : times[k] <= MaxTime
    <3>1. \A k \in 1..n : times[k] \in Int /\ times[k] <= MaxTime
      BY <1>4
    <3> QED
      BY <2>1, <3>1
  <2>3. times # <<>> /\ Accepted(ch, "AbsTimeStampData", 0, 0, times, n, 0)
    BY <1>7, <2>2 DEF writeTimestampedSamples
  <2>4. n \in Nat \ {0}
    BY <2>1, <2>2, <2>3
  <2> QED
    BY <2>1, <2>2, <2>3, <2>4, AcceptedMeaning DEF Kinds
<1>8. ASSUME NEW ch \in Indices, NEW dt \in VariableTypes, NEW time \in Stamps,
             NEW size \in Sizes, writeTimestampedVariable(ch, dt, time, size)
      PROVE  Meaning'
  <2>1. ch \in Nat /\ Idle
    BY <1>4, <1>8 DEF writeTimestampedVariable
  <2>2. /\ <<time>> \in Seq(Int) /\ Len(<<time>>) = 1 /\ \A k \in 1..1 : <<time>>[k] <= MaxTime
    BY <1>4
  <2>3. CASE Accepted(ch, "AbsTimeStampData", 0, 0, <<time>>, 1, size)
    <3> DEFINE ts == <<time>>
    <3>1. /\ 1 \in Nat \ {0} /\ 0 \in Nat /\ 0 \in Int /\ "AbsTimeStampData" \in Kinds
          /\ Accepted(ch, "AbsTimeStampData", 0, 0, ts, 1, size)
          /\ ts \in Seq(Int) /\ Len(ts) = 1 /\ \A k \in 1..1 : ts[k] <= MaxTime
      BY <2>2, <2>3 DEF Kinds
    <3> HIDE DEF ts
    <3> QED
      BY <2>1, <3>1, AcceptedMeaning
  <2>4. CASE LockedOnly
    BY <1>3, <2>1, <2>4
  <2> QED
    BY <1>8, <2>3, <2>4 DEF writeTimestampedVariable
<1>9. CASE WriteBlock
  BY <1>1, <1>9, ToldStays, WriteMeaning DEF WriteBlock
<1>10. CASE ForceBlock
  BY <1>1, <1>10, ToldStays, ForceMeaning DEF ForceBlock
<1>11. CASE PowerLoss
  BY <1>1, <1>11, ToldStays, PowerLossMeaning DEF PowerLoss
<1>12. CASE (\E p \in Profiles : setIntegrity(p)) \/ (\E def \in Defs : addChannel(def))
            \/ Start \/ close
  <2>1. offered' = offered /\ file' = file
    BY <1>12 DEF setIntegrity, addChannel, Start, close, disk
  <2>2. call' = call \/ call' = StartCall
    BY <1>12 DEF setIntegrity, addChannel, Start, close
  <2>3. call = NoCall
    BY <1>12 DEF setIntegrity, addChannel, Start, close, Idle
  <2>4. call'.op # "write"
    BY <2>2, <2>3 DEF NoCall, StartCall
  <2> QED
    BY <1>2, <2>1, <2>4
<1>13. CASE StartWrites \/ StartForces \/ StartFails \/ DoWriteBlockFails
  BY <1>2, <1>13 DEF StartWrites, StartForces, StartFails, DoWriteBlockFails, NoCall
<1> QED
  BY <1>5, <1>6, <1>7, <1>8, <1>9, <1>10, <1>11, <1>12, <1>13 DEF Record, Next

\* The writer's half of the invariant is kept: the reader does not touch the file.
LEMMA WrittenStep == Written /\ [AllNext]_all => Written'
<1> SUFFICES ASSUME Written, [AllNext]_all PROVE Written'
  OBVIOUS
<1>1. CASE Record
  <2>1. Next
    BY <1>1 DEF Record
  <2>2. IInv'
    BY <2>1, Step DEF Written
  <2>3. Ordered'
    BY <2>1, <2>2, OrderedStep DEF Written, IInv
  <2>4. ChannelsAre'
    BY <1>1, <2>2, ChannelsAreStep DEF Written, IInv
  <2>5. Meaning'
    BY <1>1, MeaningStep DEF Written
  <2> QED
    BY <2>2, <2>3, <2>4, <2>5 DEF Written
<1>2. CASE UNCHANGED <<vars, told>>
  <2>1. IInv'
    BY <1>2, Step DEF Written
  <2>2. Ordered'
    BY <1>2, <2>1, OrderedStep DEF Written, IInv
  <2>3. ChannelsAre'
    <3>1. channels' = channels /\ header' = header
      BY <1>2 DEF vars, disk
    <3> QED
      BY <3>1 DEF Written, ChannelsAre, DataType
  <2>4. Meaning'
    <3>1. file' = file /\ call' = call /\ offered' = offered /\ told' = told
      BY <1>2 DEF vars, disk
    <3>2. CallKind' = CallKind
      BY <3>1 DEF CallKind
    <3> QED
      BY <3>1, <3>2 DEF Written, Meaning
  <2> QED
    BY <2>1, <2>2, <2>3, <2>4 DEF Written
<1>3. CASE Open \/ Load \/ UNCHANGED all
  BY <1>2, <1>3 DEF Open, Load, all
<1> QED
  BY <1>1, <1>3 DEF AllNext

---------------------------------------------------------------------------
(* The writer: the file it leaves. *)

\* The file has its magic line and metablock.
Left == Written /\ header # "none"

\* The writer's name of a datatype tells as much as the reader's.
LEMMA WriterTypes ==
    ASSUME NEW dt \in L!A!DataTypes \ {"unsupported"}
    PROVE  /\ WriterType(dt) \in VariableTypes <=> dt \in L!A!VariableTypes
           /\ WriterType(dt) \in EquidistantTypes => dt \in {"float", "double"}
           /\ L!ReaderType(dt) \in {"numeric", "gps", "string", "binary"}
           /\ dt \in {"float", "double"} => L!ReaderType(dt) = "numeric"
  BY DEF L!A!DataTypes, L!A!NumericTypes, L!A!VariableTypes, WriterType, VariableTypes,
     EquidistantTypes, L!ReaderType, L!NumericTypes

\* A payload is at least as long as a control byte and a sample.
LEMMA PayloadNotEmpty ==
    ASSUME NEW kind \in Kinds, NEW dt \in DataTypes \ {"unsupported"}, NEW n \in Nat, n > 0,
           NEW size \in Nat
    PROVE  PayloadLength(kind, dt, n, size) \in Nat /\ PayloadLength(kind, dt, n, size) >= 2
<1>1. CASE dt \in VariableTypes
  BY <1>1 DEF PayloadLength
<1>2. CASE dt \notin VariableTypes
  <2> DEFINE p == PerSample(kind, dt)
  <2>1. dt \in DOMAIN FixedSize
    BY <1>2 DEF DataTypes
  <2>2. FixedSize[dt] \in {1, 2, 4, 8, 24}
    BY <2>1, Sizes8
  <2>3. p \in Nat /\ p >= 1
    BY <2>2 DEF PerSample
  <2>4. n * p \in Nat /\ n * p >= 1
    BY <2>3
  <2>5. PayloadLength(kind, dt, n, size) = Overhead(kind) - (IF n = 1 THEN 4 ELSE 0) + n * p
    BY <1>2 DEF PayloadLength
  <2> HIDE DEF p
  <2> QED
    BY <2>4, <2>5 DEF Overhead
<1> QED
  BY <1>1, <1>2

\* A block of the file: its channel, its lock, its datatype and its length.
LEMMA BlockIs ==
    ASSUME Left, NEW i \in 1..Len(file)
    PROVE  LET b  == file[i]
               dt == DataType(b.index)
           IN  /\ b.index \in 0..(N - 1) /\ b.kind \in Kinds
               /\ b.start \in Int /\ b.period \in Nat /\ b.times \in Seq(Int)
               /\ b.values \in Seq(Nat) /\ b.values # <<>>
               /\ dt \in L!A!DataTypes \ {"unsupported"}
               /\ channels[b.index + 1].kindLock =
                     IF b.kind # "AbsTimeStampData" THEN "Equidistant"
                     ELSE IF dt \in L!A!VariableTypes THEN "Variable" ELSE "Timestamped"
               /\ b.kind # "AbsTimeStampData" => dt \in {"float", "double"}
               /\ b.kind = "ContinuedData" =>
                     \E j \in 1..(i - 1) : file[j].index = b.index /\ file[j].kind = "StartData"
               /\ b.length = CrcSize + PayloadLength(b.kind, WriterType(dt), Len(b.values), b.size)
               /\ b.length \in Nat /\ b.length > 0 /\ (frameCrc => b.length >= 5)
<1> DEFINE b  == file[i]
           c  == channels[b.index + 1]
           dt == DataType(b.index)
<1>1. TypeOK /\ DOMAIN file = 1..Len(file) /\ Len(file) \in Nat
      /\ Len(channels) \in Nat /\ channels \in [1..Len(channels) -> ChannelType]
  BY Lengths DEF Left, Written, IInv
<1>2. /\ b \in BlockType /\ b.index \in Nat /\ b.kind \in Kinds
      /\ b.start \in Int /\ b.period \in Nat /\ b.times \in Seq(Int)
      /\ b.values \in Seq(Nat)
  BY <1>1, BlockFields
<1>3. b.size \in Nat
  BY <1>2 DEF BlockType
<1>4. /\ b.index < Len(channels) /\ c.kindLock = Mode(b, c)
      /\ b.kind = "ContinuedData" =>
            \E j \in 1..(i - 1) : file[j].index = b.index /\ file[j].kind = "StartData"
  BY <1>1 DEF Left, Written, IInv, Assemblable
<1>5. b.values # <<>>
  BY <1>1 DEF Left, Written, IInv, EverySampleOnce
<1>6. b.length = CrcSize + PayloadLength(b.kind, c.dataType, Len(b.values), b.size)
  BY <1>1 DEF Left, Written, IInv, LengthIsHonest
<1>7. N \in Nat /\ Len(channels) = N
  BY Declarations DEF Left, Written, ChannelsAre
<1>8. b.index \in 0..(N - 1) /\ b.index + 1 \in 1..Len(channels)
  BY <1>2, <1>4, <1>7
<1>9. c \in ChannelType
  BY <1>1, <1>8
<1>10. dt \in L!A!DataTypes \ {"unsupported"}
  BY <1>8, DefinitionIs
<1>11. /\ c.dataType = WriterType(dt) 
       /\ c.kindLock = "Equidistant" => c.dataType \in EquidistantTypes
  <2>1. (b.index + 1) - 1 = b.index
    BY <1>2
  <2> QED
    BY <1>8, <2>1 DEF Left, Written, ChannelsAre
<1>12. c.dataType \in DataTypes \ {"unsupported"}
  BY <1>9 DEF ChannelType
<1> HIDE DEF c, dt
<1>13. /\ c.kindLock = IF b.kind # "AbsTimeStampData" THEN "Equidistant"
                       ELSE IF dt \in L!A!VariableTypes THEN "Variable" ELSE "Timestamped"
       /\ b.kind # "AbsTimeStampData" => dt \in {"float", "double"}
  <2>1. c.dataType \in VariableTypes <=> dt \in L!A!VariableTypes
    BY <1>10, <1>11, WriterTypes
  <2>2. c.dataType \in EquidistantTypes => dt \in {"float", "double"}
    BY <1>10, <1>11, WriterTypes
  <2> QED
    BY <1>4, <1>11, <2>1, <2>2 DEF Mode
<1> DEFINE p == PayloadLength(b.kind, c.dataType, Len(b.values), b.size)
<1>14. p \in Nat /\ p >= 2
  <2> DEFINE k == Len(b.values)
  <2>1. k \in Nat /\ k > 0
    BY <1>2, <1>5
  <2> HIDE DEF k
  <2>2. PayloadLength(b.kind, c.dataType, k, b.size) \in Nat
        /\ PayloadLength(b.kind, c.dataType, k, b.size) >= 2
    BY <1>2, <1>3, <1>12, <2>1, PayloadNotEmpty
  <2> QED
    BY <2>2 DEF k
<1> HIDE DEF p
<1>15. b.length \in Nat /\ b.length > 0 /\ (frameCrc => b.length >= 5)
  <2>1. frameCrc \in BOOLEAN /\ b.length = CrcSize + p
    BY <1>1, <1>6 DEF TypeOK, p
  <2> QED
    BY <1>14, <2>1 DEF CrcSize
<1>16. b.length = CrcSize + PayloadLength(b.kind, WriterType(dt), Len(b.values), b.size)
  BY <1>6, <1>11
<1> QED
  BY <1>2, <1>4, <1>5, <1>8, <1>10, <1>13, <1>15, <1>16 DEF c, dt

\* The values of a block count on from the last value of the block before it.
LEMMA ValuesAre ==
    ASSUME Left, NEW i \in 1..Len(file)
    PROVE  /\ ValueAt(file, i - 1) \in Nat
           /\ Len(file[i].values) \in Nat /\ Len(file[i].values) > 0
           /\ DOMAIN file[i].values = 1..Len(file[i].values)
           /\ \A k \in 1..Len(file[i].values) : file[i].values[k] = k + ValueAt(file, i - 1)
           /\ ValueAt(file, i) = Len(file[i].values) + ValueAt(file, i - 1)
<1>1. file[i].values \in Seq(Nat) /\ file[i].values # <<>>
  BY BlockIs
<1>2. Len(file) \in Nat /\ i \in DOMAIN file /\ i - 1 \in 0..Len(file)
  BY Lengths DEF Left, Written, IInv
<1>3. ValueAt(file, i - 1) \in Nat
  BY <1>2 DEF Left, Written, Ordered
<1>4. \A k \in DOMAIN file[i].values : file[i].values[k] = k + ValueAt(file, i - 1)
  <2>1. ValueAt(file, i - 1) = IF i = 1 THEN 0
                               ELSE file[i - 1].values[Len(file[i - 1].values)]
    BY <1>2 DEF ValueAt
  <2> QED
    BY <1>2, <2>1 DEF Left, Written, IInv, EverySampleOnce
<1>5. /\ Len(file[i].values) \in Nat /\ Len(file[i].values) > 0
      /\ DOMAIN file[i].values = 1..Len(file[i].values)
  BY <1>1
<1>6. ValueAt(file, i) = file[i].values[Len(file[i].values)]
  BY <1>2 DEF ValueAt
<1> DEFINE n == Len(file[i].values)
           a == ValueAt(file, i - 1)
           vs == file[i].values
<1>7. n \in Nat /\ n > 0 /\ DOMAIN vs = 1..n /\ \A k \in DOMAIN vs : vs[k] = k + a
  BY <1>4, <1>5
<1>8. ValueAt(file, i) = vs[n] /\ a \in Nat
  BY <1>3, <1>6
<1> HIDE DEF n, a, vs
<1>9. (\A k \in 1..n : vs[k] = k + a) /\ ValueAt(file, i) = n + a
  BY <1>7, <1>8
<1> QED
  BY <1>7, <1>8, <1>9 DEF n, a, vs

\* Value v is the k-th of block i.
At(i, k, v) == i \in 1..Len(file) /\ k \in DOMAIN file[i].values /\ file[i].values[k] = v

\* The values of the first blocks are all there is up to the last of them.
LEMMA ValueIsIn ==
    ASSUME Left, NEW m \in 0..Len(file), NEW v \in 1..ValueAt(file, m)
    PROVE  \E i \in 1..m : \E k : At(i, k, v)
<1>1. Len(file) \in Nat
  BY Lengths DEF Left, Written, IInv
<1> DEFINE S == {j \in Nat : j <= Len(file) =>
                    \A w \in 1..ValueAt(file, j) : \E i \in 1..j : \E k : At(i, k, w)}
<1>2. 0 \in S
  BY DEF ValueAt
<1>3. ASSUME NEW j \in Nat, j \in S PROVE j + 1 \in S
  <2> SUFFICES ASSUME j + 1 <= Len(file), NEW w \in 1..ValueAt(file, j + 1)
               PROVE  \E i \in 1..(j + 1) : \E k : At(i, k, w)
    OBVIOUS
  <2> DEFINE x == j + 1
  <2>1. x \in 1..Len(file) /\ x - 1 = j
    BY <1>1
  <2>2. /\ ValueAt(file, j) \in Nat
        /\ Len(file[x].values) \in Nat
        /\ DOMAIN file[x].values = 1..Len(file[x].values)
        /\ \A k \in 1..Len(file[x].values) : file[x].values[k] = k + ValueAt(file, j)
        /\ ValueAt(file, x) = Len(file[x].values) + ValueAt(file, j)
    <3> HIDE DEF x
    <3> QED
      BY <2>1, ValuesAre
  <2>3. CASE w <= ValueAt(file, j)
    <3>1. w \in 1..ValueAt(file, j) /\ j <= Len(file)
      BY <1>1, <2>2, <2>3
    <3>2. PICK i \in 1..j : \E k : At(i, k, w)
      BY <1>3, <3>1
    <3> QED
      BY <3>2
  <2>4. CASE w > ValueAt(file, j)
    <3>1. w - ValueAt(file, j) \in 1..Len(file[x].values)
      BY <2>2, <2>4
    <3>2. file[x].values[w - ValueAt(file, j)] = w
      BY <2>2, <3>1
    <3>3. At(x, w - ValueAt(file, j), w)
      BY <2>1, <2>2, <3>1, <3>2 DEF At
    <3> QED
      BY <3>3
  <2> QED
    BY <2>2, <2>3, <2>4
<1> HIDE DEF S
<1>4. m \in S
  BY <1>1, <1>2, <1>3, Induction
<1> QED
  BY <1>1, <1>4 DEF S

\* The value in a block is a sample that was handed over for its channel.
LEMMA ValueIsTold ==
    ASSUME Left, NEW i, NEW k, NEW v, At(i, k, v)
    PROVE  /\ v \in DOMAIN told /\ told[v] \in Sample /\ told[v].index = file[i].index
           /\ v \in Nat /\ v <= ValueAt(file, i) /\ ValueAt(file, i - 1) < v
<1>1. i \in 1..Len(file) /\ k \in DOMAIN file[i].values /\ file[i].values[k] = v
  BY DEF At
<1>2. BlockMeans(told, file[i]) /\ told \in Seq(Sample)
  BY <1>1 DEF Left, Written, Meaning
<1>3. file[i].kind \in Kinds /\ file[i].values # <<>>
  BY <1>1, BlockIs
<1>4. \E ch, time, period : ch = file[i].index /\ Is(told, v, ch, time, period)
  <2>1. CASE file[i].kind = "StartData"
    BY <1>1, <1>2, <2>1 DEF BlockMeans, Means
  <2>2. CASE file[i].kind = "ContinuedData"
    BY <1>1, <1>2, <1>3, <2>2 DEF BlockMeans, Means
  <2>3. CASE file[i].kind = "AbsTimeStampData"
    BY <1>1, <1>2, <2>3 DEF BlockMeans, Means
  <2> QED
    BY <1>3, <2>1, <2>2, <2>3 DEF Kinds
<1>5. v \in DOMAIN told /\ told[v].index = file[i].index
  BY <1>4 DEF Is
<1>6. told[v] \in Sample
  BY <1>2, <1>5
<1>7. /\ ValueAt(file, i - 1) \in Nat /\ k \in 1..Len(file[i].values) /\ Len(file[i].values) \in Nat
      /\ v = k + ValueAt(file, i - 1)
      /\ ValueAt(file, i) = Len(file[i].values) + ValueAt(file, i - 1)
  BY <1>1, ValuesAre
<1> QED
  BY <1>5, <1>6, <1>7

---------------------------------------------------------------------------
(* The reader: the data section it finds. *)

FrameType == [index : Nat, length : Nat, control : L!R!ControlKinds,
              multi : BOOLEAN, crc : BOOLEAN, sound : BOOLEAN]

\* A frame takes its index, its length field and its data area.
LEMMA FrameSizes ==
    ASSUME NEW g \in FrameType
    PROVE  /\ L!R!FrameSize(g) = 2 + L!R!Width(g) + g.length
           /\ L!R!Width(g) \in {2, 4} /\ g.length \in Nat
           /\ L!R!FrameSize(g) \in Nat /\ L!R!FrameSize(g) >= 4
<1>1. g.length \in Nat
  BY DEF FrameType
<1>4. L!R!Width(g) \in {2, 4}
  <2>1. CASE g.index \in DOMAIN L!ChannelInfo
    <3>1. L!ChannelInfo[g.index].size_of_length_value \in {2, 4}
      BY <2>1, DefinitionIs, DeclaredIndices
    <3> QED
      BY <2>1, <3>1 DEF L!R!Width
  <2>2. CASE g.index \notin DOMAIN L!ChannelInfo
    BY <2>2 DEF L!R!Width
  <2> QED
    BY <2>1, <2>2
<1>5. L!R!FrameSize(g) = 2 + L!R!Width(g) + g.length
  BY <1>1, <1>4 DEF L!R!FrameSize
<1> QED
  BY <1>1, <1>4, <1>5

\* The size of a data section is the sum of the sizes of its frames.
LEMMA SizeIsSum ==
    ASSUME NEW s \in Seq(FrameType)
    PROVE  IsSum(L!R!SizeOf(s), 1..Len(s), [i \in 1..Len(s) |-> L!R!FrameSize(s[i])])
<1> DEFINE D == 1..Len(s)
           n == [i \in D |-> L!R!FrameSize(s[i])]
           pick == [u \in SUBSET D |-> L!R!Max(u)]
           t == CHOOSE it : it = [u \in SUBSET DOMAIN s |->
                   IF u = {} THEN 0 ELSE it[u \ {L!R!Max(u)}] + L!R!FrameSize(s[L!R!Max(u)])]
<1>1. L!R!SizeOf(s) = t[DOMAIN s]
  BY Zenon DEF L!R!SizeOf, L!R!FoldLeft, L!R!MapThenFoldSet
<1>2. DOMAIN s = D /\ Len(s) \in Nat
  OBVIOUS
<1>3. ASSUME NEW u \in SUBSET D, u # {}
      PROVE  L!R!Max(u) \in u
  <2>1. \E x \in u : \A y \in u : x >= y
    BY <1>2, <1>3, LargestOfRange
  <2> QED
    BY <2>1, Zenon DEF L!R!Max
<1>4. Picks(pick, D)
  BY <1>3 DEF Picks
<1>5. n \in [D -> Int] /\ IsFiniteSet(D)
  <2>1. \A i \in D : s[i] \in FrameType
    OBVIOUS
  <2>2. \A i \in D : L!R!FrameSize(s[i]) \in Int
    BY <2>1, FrameSizes
  <2> QED
    BY <2>2, <1>2, FS_Interval
<1> HIDE DEF pick, n
<1>6. PICK w : Summing(w, D, n, pick)
  BY <1>4, <1>5, SumExists
<1>7. \A u \in SUBSET D : u # {} => pick[u] = L!R!Max(u) /\ n[pick[u]] = L!R!FrameSize(s[L!R!Max(u)])
  BY <1>3 DEF pick, n
<1>8. w = [u \in SUBSET DOMAIN s |->
              IF u = {} THEN 0 ELSE w[u \ {L!R!Max(u)}] + L!R!FrameSize(s[L!R!Max(u)])]
  <2> HIDE DEF D
  <2> QED
    BY <1>2, <1>6, <1>7 DEF Summing
<1>9. t = [u \in SUBSET DOMAIN s |->
              IF u = {} THEN 0 ELSE t[u \ {L!R!Max(u)}] + L!R!FrameSize(s[L!R!Max(u)])]
  BY <1>8, Zenon
<1> HIDE DEF t
<1>10. Adds(t, D, n, pick)
  <2> HIDE DEF D
  <2> QED
    BY <1>2, <1>7, <1>9 DEF Adds
<1>11. IsSum(L!R!SizeOf(s), D, n)
  BY <1>1, <1>2, <1>4, <1>10 DEF IsSum
<1> QED
  BY <1>11 DEF n

\* Where frame number i of these begins.
OffsetIn(d, i) == L!R!SizeOf(SubSeq(d, 1, i - 1))

\* A frame begins where the one before it ends.
LEMMA Offsets ==
    ASSUME NEW d \in Seq(FrameType), NEW i \in 1..Len(d)
    PROVE  OffsetIn(d, i) \in Int /\ OffsetIn(d, i + 1) = OffsetIn(d, i) + L!R!FrameSize(d[i])
<1> DEFINE s == SubSeq(d, 1, i - 1)
           r == SubSeq(d, 1, i)
           n == [k \in 1..Len(s) |-> L!R!FrameSize(s[k])]
           m == [k \in 1..Len(r) |-> L!R!FrameSize(r[k])]
<1>1. /\ s \in Seq(FrameType) /\ Len(s) = i - 1
      /\ r \in Seq(FrameType) /\ Len(r) = i
      /\ \A k \in 1..(i - 1) : s[k] = d[k]
      /\ \A k \in 1..i : r[k] = d[k]
      /\ i \in Nat /\ i - 1 \in Nat
  OBVIOUS
<1>2. IsSum(L!R!SizeOf(s), 1..(i - 1), n) /\ IsSum(L!R!SizeOf(r), 1..i, m)
  BY <1>1, SizeIsSum
<1>3. \A k \in 1..i : d[k] \in FrameType
  OBVIOUS
<1>4. /\ \A k \in 1..(i - 1) : n[k] \in Int /\ m[k] = n[k]
      /\ m[i] = L!R!FrameSize(d[i]) /\ m[i] \in Int
  BY <1>1, <1>3, FrameSizes
<1> DEFINE D == 1..(i - 1)
<1>5. IsFiniteSet(D) /\ D \cup {i} = 1..i /\ i \notin D
  <2>1. IsFiniteSet(D)
    BY <1>1, FS_Interval
  <2>2. D \cup {i} = 1..i /\ i \notin D
    BY <1>1
  <2> QED
    BY <2>1, <2>2
<1>6. OffsetIn(d, i) = L!R!SizeOf(s) /\ OffsetIn(d, i + 1) = L!R!SizeOf(r)
  BY <1>1 DEF OffsetIn
<1> HIDE DEF s, r, n, m, D
<1>7. /\ IsSum(L!R!SizeOf(s), D, n) /\ IsSum(L!R!SizeOf(r), D \cup {i}, m)
      /\ \A k \in D : n[k] \in Int
      /\ \A k \in D : m[k] = n[k]
  BY <1>2, <1>4, <1>5 DEF D
<1>8. L!R!SizeOf(s) \in Int
  BY <1>5, <1>7, SumIsInteger
<1>9. L!R!SizeOf(r) = L!R!SizeOf(s) + m[i]
  BY <1>4, <1>5, <1>7, SumOfOneMore
<1> QED
  BY <1>4, <1>6, <1>8, <1>9

LEMMA FirstOffset ==
    ASSUME NEW d \in Seq(FrameType)
    PROVE  OffsetIn(d, 1) = 0
<1>1. OffsetIn(d, 1) = L!R!SizeOf(<<>>)
  <2>1. SubSeq(d, 1, 1 - 1) = <<>>
    OBVIOUS
  <2> QED
    BY <2>1 DEF OffsetIn
<1>2. <<>> \in Seq(FrameType) /\ 1..Len(<<>>) = {}
  OBVIOUS
<1>3. IsSum(L!R!SizeOf(<<>>), {}, [k \in {} |-> L!R!FrameSize(<<>>[k])])
  BY <1>2, SizeIsSum
<1> QED
  BY <1>1, <1>3, SumOfNothing

\* Frames begin in their order.
LEMMA OffsetsGrow ==
    ASSUME NEW d \in Seq(FrameType), NEW i \in 1..(Len(d) + 1), NEW j \in i..(Len(d) + 1)
    PROVE  OffsetIn(d, i) \in Int /\ OffsetIn(d, j) \in Int /\ OffsetIn(d, i) <= OffsetIn(d, j)
<1> DEFINE n == Len(d)
           S == {a \in Nat : i + a \in 1..(n + 1) =>
                    OffsetIn(d, i + a) \in Int /\ OffsetIn(d, i) <= OffsetIn(d, i + a)}
<1>1. n \in Nat
  OBVIOUS
<1>2. OffsetIn(d, i) \in Int
  <2>1. CASE i = 1
    BY <2>1, FirstOffset
  <2>2. CASE i # 1
    <3>1. i - 1 \in 1..Len(d) /\ (i - 1) + 1 = i
      BY <1>1, <2>2
    <3>2. d[i - 1] \in FrameType
      BY <3>1
    <3>3. /\ OffsetIn(d, i - 1) \in Int /\ L!R!FrameSize(d[i - 1]) \in Nat
          /\ OffsetIn(d, (i - 1) + 1) = OffsetIn(d, i - 1) + L!R!FrameSize(d[i - 1])
      BY <3>1, <3>2, Offsets, FrameSizes
    <3>4. OffsetIn(d, (i - 1) + 1) \in Int
      BY <3>3
    <3> QED
      BY <3>1, <3>4
  <2> QED
    BY <2>1, <2>2
<1>3. 0 \in S
  <2>1. i + 0 = i
    BY <1>1
  <2> QED
    BY <1>2, <2>1
<1>4. ASSUME NEW a \in Nat, a \in S
      PROVE  a + 1 \in S
  <2> SUFFICES ASSUME i + (a + 1) \in 1..(n + 1)
               PROVE  /\ OffsetIn(d, i + (a + 1)) \in Int
                      /\ OffsetIn(d, i) <= OffsetIn(d, i + (a + 1))
    OBVIOUS
  <2>1. i + a \in 1..Len(d) /\ i + a \in 1..(n + 1) /\ (i + a) + 1 = i + (a + 1)
    BY <1>1
  <2>2. d[i + a] \in FrameType
    BY <2>1
  <2>3. OffsetIn(d, i + a) \in Int /\ OffsetIn(d, i) <= OffsetIn(d, i + a)
    BY <1>4, <2>1
  <2>4. OffsetIn(d, (i + a) + 1) = OffsetIn(d, i + a) + L!R!FrameSize(d[i + a])
    BY <2>1, Offsets
  <2> QED
    BY <1>2, <2>1, <2>2, <2>3, <2>4, FrameSizes
<1> HIDE DEF S
<1>5. j - i \in Nat /\ i + (j - i) = j
  BY <1>1
<1>6. j - i \in S
  BY <1>3, <1>4, <1>5, Induction
<1> QED
  BY <1>1, <1>2, <1>5, <1>6 DEF S

\* The frames the reader finds whole, one for each block that is not lost, and between
\* them those that are misread.
FramesFound == (rotten - 1) + misread + (Len(file) - resumed + 1)

Misplaced(k) == rotten <= k /\ k < rotten + misread

\* The last block that frame k brings the reader past.
Place(k) == IF k < rotten THEN k
            ELSE IF Misplaced(k) THEN resumed - 1 ELSE k - rotten - misread + resumed

DamageIs ==
    /\ rotten \in 1..(Len(file) + 1) /\ resumed \in rotten..(Len(file) + 1) /\ misread \in Nat
    /\ \/ rotten = 1 /\ resumed = 1 /\ misread = 0
       \/ rotten < resumed /\ frameCrc /\ (misread > 0 \/ resumed = Len(file) + 1)

\* Frame k is that of block i, or one that is misread.
IsFrame(g, i) ==
    /\ g.index = file[i].index /\ g.length = file[i].length /\ g.control = file[i].kind
    /\ g.crc = TRUE /\ g.sound = TRUE

IsMisread(g) == g.index \in 0..(N - 1) /\ g.crc = FALSE

FoundAt(g, b, k) ==
    IF Misplaced(k) THEN IsMisread(g) /\ b = Garbage(g.index)
                    ELSE IsFrame(g, Place(k)) /\ b = Decoded(Place(k))

\* Nothing is left behind the whole frames, or part of a frame, or the index of no
\* channel, and that only where there is damage.
LaidOut(d, size, w, hidden) ==
    /\ d \in Seq(FrameType) /\ size \in Int /\ OffsetIn(d, w + 1) <= size
    /\ \/ Len(d) = w /\ size = OffsetIn(d, w + 1)
       \/ /\ Len(d) = w + 1
          /\ size < OffsetIn(d, w + 2) \/ d[w + 1].index \notin 0..(N - 1)
          /\ d[w + 1].index \notin 0..(N - 1) => hidden

\* The file as it lies before the reader.
Laid ==
    /\ Left /\ DamageIs
    /\ declared = IF frameCrc THEN "crc32c" ELSE "none"
    /\ LaidOut(data, present, FramesFound, rotten < resumed)
    /\ \A k \in 1..FramesFound : FoundAt(data[k], blocks[k], k)
    /\ \A k \in DOMAIN data \ (1..FramesFound) : blocks[k] = Garbage(data[k].index)

IsJoin(t, s, r) == t = s \o r

\* Two sequences of samples, one behind the other.
LEMMA Joined ==
    ASSUME NEW S, NEW s \in Seq(S), NEW r \in Seq(S), NEW t, IsJoin(t, s, r)
    PROVE  /\ t \in Seq(S) /\ Len(s) \in Nat /\ Len(r) \in Nat
           /\ Len(t) = Len(s) + Len(r)
           /\ \A k \in 1..Len(s) : t[k] = s[k]
           /\ \A k \in 1..Len(r) : t[Len(s) + k] = r[k]
           /\ \A k \in 1..(Len(s) + Len(r)) :
                 k \in 1..Len(s) \/ \E h \in 1..Len(r) : k = Len(s) + h
<1>1. /\ t \in Seq(S) /\ Len(s) \in Nat /\ Len(r) \in Nat
      /\ Len(t) = Len(s) + Len(r)
      /\ \A k \in 1..Len(s) : t[k] = s[k]
      /\ \A k \in 1..Len(r) : t[Len(s) + k] = r[k]
  BY DEF IsJoin
<1> DEFINE a == Len(s)
           b == Len(r)
<1>2. a \in Nat /\ b \in Nat
  BY <1>1
<1> HIDE DEF a, b
<1>3. ASSUME NEW k \in 1..(a + b), k \notin 1..a
      PROVE  \E h \in 1..b : k = a + h
  <2>1. k - a \in 1..b /\ k = a + (k - a)
    BY <1>2, <1>3
  <2> QED
    BY <2>1
<1> QED
  BY <1>1, <1>3 DEF a, b

\* A frame of the file.
LEMMA FrameIs ==
    ASSUME Left, NEW i \in 1..Len(file)
    PROVE  Frame(i) \in FrameType /\ IsFrame(Frame(i), i)
<1>1. /\ file[i].index \in 0..(N - 1) /\ file[i].kind \in Kinds /\ file[i].length \in Nat
      /\ file[i].length = CrcSize + PayloadLength(file[i].kind, WriterType(DataType(file[i].index)),
                                                  Len(file[i].values), file[i].size)
  BY BlockIs
<1>2. file[i].kind \in L!R!ControlKinds
  BY <1>1 DEF Kinds, L!R!ControlKinds, L!R!DataKinds
<1>3. Frame(i) = [index |-> file[i].index, length |-> file[i].length, control |-> file[i].kind,
                  multi |-> Len(file[i].values) > 1, crc |-> TRUE, sound |-> TRUE]
  BY <1>1 DEF Frame
<1>4. (Len(file[i].values) > 1) \in BOOLEAN /\ file[i].index \in Nat
  BY <1>1
<1> QED
  BY <1>1, <1>2, <1>3, <1>4 DEF FrameType, IsFrame

LEMMA MisreadIs ==
    ASSUME NEW ch \in Nat, NEW length \in Nat
    PROVE  /\ Misread(ch, length) \in FrameType /\ Misread(ch, length).index = ch
           /\ ch \in 0..(N - 1) => IsMisread(Misread(ch, length))
<1>1. "StartData" \in L!R!ControlKinds
  BY DEF L!R!ControlKinds, L!R!DataKinds
<1> QED
  BY <1>1 DEF Misread, FrameType, IsMisread

LEMMA TornFrameIs ==
    ASSUME NEW ch \in 0..(N - 1)
    PROVE  TornFrame(ch) \in FrameType /\ TornFrame(ch).index = ch
<1>1. "StartData" \in L!R!ControlKinds
  BY DEF L!R!ControlKinds, L!R!DataKinds
<1> QED
  BY <1>1 DEF TornFrame, FrameType

LEMMA SequencesEqual ==
    ASSUME NEW S, NEW s \in Seq(S), NEW t \in Seq(S), Len(s) = Len(t),
           \A k \in 1..Len(s) : s[k] = t[k]
    PROVE  s = t
<1>1. s = [k \in 1..Len(s) |-> s[k]] /\ t = [k \in 1..Len(s) |-> t[k]]
  OBVIOUS
<1> QED
  BY <1>1

\* The offset behind the last of the frames is their size.
LEMMA EndOffset ==
    ASSUME NEW d \in Seq(FrameType), NEW e, e = d \/ \E g \in FrameType : e = Append(d, g)
    PROVE  OffsetIn(e, Len(d) + 1) = L!R!SizeOf(d)
<1>1. SubSeq(e, 1, (Len(d) + 1) - 1) = d
  <2>1. CASE e = d
    BY <2>1
  <2>2. ASSUME NEW g \in FrameType, e = Append(d, g)
        PROVE  SubSeq(e, 1, (Len(d) + 1) - 1) = d
    <3> DEFINE s == SubSeq(e, 1, Len(d))
    <3>1. Len(d) \in Nat /\ e \in Seq(FrameType) /\ Len(e) = Len(d) + 1
          /\ \A k \in 1..Len(d) : e[k] = d[k]
      BY <2>2
    <3>2. s \in Seq(FrameType) /\ Len(s) = Len(d) /\ \A k \in 1..Len(d) : s[k] = d[k]
      BY <3>1
    <3>3. s = d
      <4> HIDE DEF s
      <4> QED
        BY <3>2, SequencesEqual
    <3>4. (Len(d) + 1) - 1 = Len(d)
      BY <3>1
    <3> QED
      BY <3>3, <3>4
  <2> QED
    BY <2>1, <2>2
<1> QED
  BY <1>1 DEF OffsetIn

LEMMA SizeIsInteger ==
    ASSUME NEW d \in Seq(FrameType)
    PROVE  L!R!SizeOf(d) \in Int
<1>1. OffsetIn(d, Len(d) + 1) = L!R!SizeOf(d)
  BY EndOffset
<1>2. Len(d) + 1 \in 1..(Len(d) + 1) /\ Len(d) + 1 \in (Len(d) + 1)..(Len(d) + 1)
  OBVIOUS
<1>3. OffsetIn(d, Len(d) + 1) \in Int
  BY <1>2, OffsetsGrow
<1> QED
  BY <1>1, <1>3

\* A sequence with the elements d in place of those of s from r to u - 1.
IsSplice(t, S, s, d, r, u) ==
    /\ t \in Seq(S) /\ Len(t) = (r - 1) + Len(d) + (Len(s) - u + 1)
    /\ \A k \in 1..(r - 1) : t[k] = s[k]
    /\ \A k \in 1..Len(d) : t[(r - 1) + k] = d[k]
    /\ \A k \in 1..(Len(s) - u + 1) : t[(r - 1) + Len(d) + k] = s[(u - 1) + k]

LEMMA Spliced ==
    ASSUME NEW S, NEW s \in Seq(S), NEW d \in Seq(S),
           NEW r \in 1..(Len(s) + 1), NEW u \in r..(Len(s) + 1)
    PROVE  IsSplice(SubSeq(s, 1, r - 1) \o d \o SubSeq(s, u, Len(s)), S, s, d, r, u)
<1> DEFINE a == SubSeq(s, 1, r - 1)
           b == SubSeq(s, u, Len(s))
           c == a \o d
           t == c \o b
<1>1. /\ r \in Nat /\ u \in Nat /\ Len(d) \in Nat /\ Len(s) \in Nat /\ r >= 1 /\ u >= r
      /\ u <= Len(s) + 1
  OBVIOUS
<1>2. a \in Seq(S) /\ Len(a) = r - 1 /\ \A k \in 1..(r - 1) : a[k] = s[k]
  BY <1>1
<1>3. b \in Seq(S) /\ Len(b) = Len(s) - u + 1
      /\ \A k \in 1..(Len(s) - u + 1) : b[k] = s[(u - 1) + k]
  BY <1>1
<1>4. IsJoin(c, a, d) /\ IsJoin(t, c, b)
  BY DEF IsJoin
<1> HIDE DEF a, b, c, t
<1>5. /\ c \in Seq(S) /\ Len(c) = Len(a) + Len(d)
      /\ \A k \in 1..Len(a) : c[k] = a[k]
      /\ \A k \in 1..Len(d) : c[Len(a) + k] = d[k]
  <2>1. a \in Seq(S) /\ d \in Seq(S) /\ IsJoin(c, a, d)
    BY <1>2, <1>4
  <2> QED
    BY <2>1 DEF IsJoin
<1>6. /\ t \in Seq(S) /\ Len(t) = Len(c) + Len(b)
      /\ \A k \in 1..Len(c) : t[k] = c[k]
      /\ \A k \in 1..Len(b) : t[Len(c) + k] = b[k]
  <2>1. c \in Seq(S) /\ b \in Seq(S) /\ IsJoin(t, c, b)
    BY <1>3, <1>4, <1>5
  <2> QED
    BY <2>1 DEF IsJoin
<1>7. ASSUME NEW k \in 1..(r - 1) PROVE t[k] = s[k]
  <2>1. k \in 1..Len(c) /\ k \in 1..Len(a)
    BY <1>1, <1>2, <1>5
  <2> QED
    BY <1>2, <1>5, <1>6, <2>1
<1>8. ASSUME NEW k \in 1..Len(d) PROVE t[(r - 1) + k] = d[k]
  <2>1. (r - 1) + k \in 1..Len(c)
    BY <1>1, <1>2, <1>5
  <2>2. c[(r - 1) + k] = d[k]
    BY <1>2, <1>5
  <2> QED
    BY <1>6, <2>1, <2>2
<1>9. ASSUME NEW k \in 1..(Len(s) - u + 1) PROVE t[(r - 1) + Len(d) + k] = s[(u - 1) + k]
  <2>1. t[Len(c) + k] = b[k] /\ b[k] = s[(u - 1) + k]
    BY <1>3, <1>6
  <2> QED
    BY <1>2, <1>5, <2>1
<1>10. IsSplice(t, S, s, d, r, u)
  BY <1>1, <1>2, <1>3, <1>5, <1>6, <1>7, <1>8, <1>9 DEF IsSplice
<1> QED
  BY <1>10 DEF t, c, a, b

LEMMA FramesAre ==
    ASSUME Left
    PROVE  /\ Frames \in Seq(FrameType) /\ Len(Frames) = Len(file) /\ Len(file) \in Nat
           /\ \A i \in 1..Len(file) : Frames[i] = Frame(i)
<1>1. Len(file) \in Nat /\ DOMAIN file = 1..Len(file)
  BY Lengths DEF Left, Written, IInv
<1>2. \A i \in 1..Len(file) : Frame(i) \in FrameType
  BY FrameIs
<1>3. Frames = [i \in 1..Len(file) |-> Frame(i)]
  BY <1>1 DEF Frames
<1> QED
  BY <1>1, <1>2, <1>3

\* The frames that the reader finds whole.
LEMMA WholeIs ==
    ASSUME Left, NEW d \in Seq(FrameType),
           NEW r \in 1..(Len(file) + 1), NEW u \in r..(Len(file) + 1)
    PROVE  IsSplice(Whole(r, u, d), FrameType, Frames, d, r, u)
<1>1. Frames \in Seq(FrameType) /\ Len(Frames) = Len(file)
  BY FramesAre
<1>2. Whole(r, u, d) = SubSeq(Frames, 1, r - 1) \o d \o SubSeq(Frames, u, Len(Frames))
  BY <1>1 DEF Whole
<1> QED
  BY <1>1, <1>2, Spliced

\* Frames and a tail, of which not all need be there, as the reader finds them.
LEMMA TailIs ==
    ASSUME NEW W \in Seq(FrameType), NEW hidden, NEW tail, NEW size \in Int, L!R!SizeOf(W) <= size,
           \/ tail = <<>> /\ size = L!R!SizeOf(W)
           \/ \E g \in FrameType :
                 /\ tail = <<g>>
                 /\ \/ size < L!R!SizeOf(W) + L!R!FrameSize(g)
                    \/ g.index \notin 0..(N - 1)
                 /\ g.index \notin 0..(N - 1) => hidden
    PROVE  /\ LaidOut(W \o tail, size, Len(W), hidden) /\ Len(W) \in Nat
           /\ \A k \in 1..Len(W) : k \in DOMAIN (W \o tail) /\ (W \o tail)[k] = W[k]
<1>1. Len(W) \in Nat
  OBVIOUS
<1>2. CASE tail = <<>> /\ size = L!R!SizeOf(W)
  <2>1. W \o tail = W
    BY <1>2
  <2>2. OffsetIn(W, Len(W) + 1) = L!R!SizeOf(W)
    BY EndOffset
  <2>3. LaidOut(W, size, Len(W), hidden)
    BY <1>2, <2>2 DEF LaidOut
  <2> QED
    BY <1>1, <2>1, <2>3
<1>3. ASSUME NEW g \in FrameType, tail = <<g>>,
             \/ size < L!R!SizeOf(W) + L!R!FrameSize(g)
             \/ g.index \notin 0..(N - 1),
             g.index \notin 0..(N - 1) => hidden
      PROVE  /\ LaidOut(W \o tail, size, Len(W), hidden)
             /\ \A k \in 1..Len(W) : k \in DOMAIN (W \o tail) /\ (W \o tail)[k] = W[k]
  <2> DEFINE d == Append(W, g)
             n == Len(W)
  <2>1. W \o tail = d
    BY <1>3
  <2>2. /\ d \in Seq(FrameType) /\ Len(d) = n + 1 /\ d[n + 1] = g
        /\ \A k \in 1..n : k \in DOMAIN d /\ d[k] = W[k]
    BY <1>1
  <2>3. OffsetIn(d, n + 1) = L!R!SizeOf(W)
    BY EndOffset
  <2> HIDE DEF d
  <2>4. OffsetIn(d, n + 2) = OffsetIn(d, n + 1) + L!R!FrameSize(g)
    <3>1. n + 1 \in 1..Len(d) /\ (n + 1) + 1 = n + 2
      BY <1>1, <2>2
    <3>2. OffsetIn(d, (n + 1) + 1) = OffsetIn(d, n + 1) + L!R!FrameSize(d[n + 1])
      BY <2>2, <3>1, Offsets
    <3> QED
      BY <2>2, <3>1, <3>2
  <2>5. LaidOut(d, size, n, hidden)
    BY <1>3, <2>2, <2>3, <2>4 DEF LaidOut
  <2> QED
    BY <2>1, <2>2, <2>5
<1> QED
  BY <1>1, <1>2, <1>3

\* A load that begins with these frames finds each block or what it takes for blocks.
LEMMA LiesLaid ==
    ASSUME Left, Left', UNCHANGED vars, declared' = IF frameCrc THEN "crc32c" ELSE "none",
           NEW r \in 1..(Len(file) + 1), NEW u \in r..(Len(file) + 1),
           NEW d \in Seq(FrameType), \A k \in 1..Len(d) : IsMisread(d[k]),
           \/ r = 1 /\ u = 1 /\ Len(d) = 0
           \/ r < u /\ frameCrc /\ (Len(d) > 0 \/ u = Len(file) + 1),
           NEW tail, NEW size \in Int, Lies(r, u, d, tail, size),
           L!R!SizeOf(Whole(r, u, d)) <= size,
           \/ tail = <<>> /\ size = L!R!SizeOf(Whole(r, u, d))
           \/ \E g \in FrameType :
                 /\ tail = <<g>>
                 /\ \/ size < L!R!SizeOf(Whole(r, u, d)) + L!R!FrameSize(g)
                    \/ g.index \notin 0..(N - 1)
                 /\ g.index \notin 0..(N - 1) => r < u
    PROVE  Laid'
<1> DEFINE W == Whole(r, u, d)
           n == Len(file)
           l == Len(d)
<1>1. /\ n \in Nat /\ l \in Nat /\ r \in Nat /\ u \in Nat /\ 1 <= r /\ r <= u /\ u <= n + 1
      /\ file' = file /\ frameCrc' = frameCrc
  BY Lengths DEF Left, Written, IInv, vars, disk, config
<1>2. IsSplice(W, FrameType, Frames, d, r, u) /\ Frames \in Seq(FrameType) /\ Len(Frames) = n
      /\ \A i \in 1..n : Frames[i] = Frame(i)
  BY WholeIs, FramesAre
<1>3. /\ rotten' = r /\ resumed' = u /\ misread' = l /\ data' = W \o tail /\ present' = size
      /\ blocks' = [k \in DOMAIN data' |->
                      IF k < r THEN Decoded(k)
                      ELSE IF r + l <= k /\ k <= Len(W)
                           THEN Decoded(k - r - l + u) ELSE Garbage(data'[k].index)]
  BY DEF Lies
<1>4. \/ tail = <<>> /\ size = L!R!SizeOf(W)
      \/ \E g \in FrameType :
            /\ tail = <<g>>
            /\ \/ size < L!R!SizeOf(W) + L!R!FrameSize(g)
               \/ g.index \notin 0..(N - 1)
            /\ g.index \notin 0..(N - 1) => r < u
  BY <1>3
<1>5. L!R!SizeOf(W) <= size
  OBVIOUS
<1> HIDE DEF W
<1>6. /\ W \in Seq(FrameType) /\ Len(W) = (r - 1) + l + (n - u + 1)
      /\ \A k \in 1..(r - 1) : W[k] = Frames[k]
      /\ \A k \in 1..l : W[(r - 1) + k] = d[k]
      /\ \A k \in 1..(n - u + 1) : W[(r - 1) + l + k] = Frames[(u - 1) + k]
  BY <1>2 DEF IsSplice
<1>7. /\ LaidOut(W \o tail, size, Len(W), r < u)
      /\ \A k \in 1..Len(W) : k \in DOMAIN (W \o tail) /\ (W \o tail)[k] = W[k]
  <2> DEFINE hidden == r < u
  <2>1. \/ tail = <<>> /\ size = L!R!SizeOf(W)
        \/ \E g \in FrameType :
              /\ tail = <<g>>
              /\ \/ size < L!R!SizeOf(W) + L!R!FrameSize(g)
                 \/ g.index \notin 0..(N - 1)
              /\ g.index \notin 0..(N - 1) => hidden
    BY <1>4
  <2>2. W \in Seq(FrameType) /\ L!R!SizeOf(W) <= size
    BY <1>5, <1>6
  <2> HIDE DEF hidden
  <2>3. /\ LaidOut(W \o tail, size, Len(W), hidden)
        /\ \A k \in 1..Len(W) : k \in DOMAIN (W \o tail) /\ (W \o tail)[k] = W[k]
    BY <2>1, <2>2, TailIs
  <2> QED
    BY <2>3 DEF hidden
<1>8. FramesFound' = Len(W)
  BY <1>1, <1>3, <1>6 DEF FramesFound
<1>9. LaidOut(data, present, FramesFound, rotten < resumed)'
  BY <1>3, <1>7, <1>8
<1>10. DamageIs'
  BY <1>1, <1>3 DEF DamageIs
<1>11. ASSUME NEW k \in 1..Len(W)
       PROVE  FoundAt(data[k], blocks[k], k)'
  <2>1. data'[k] = W[k] /\ k \in DOMAIN data' /\ k \in Nat
    BY <1>3, <1>6, <1>7
  <2>2. CASE r <= k /\ k < r + l
    <3>1. Misplaced(k)'
      BY <1>3, <2>2 DEF Misplaced
    <3> DEFINE j == k - r + 1
    <3>2. j \in 1..l /\ (r - 1) + j = k
      BY <1>1, <2>1, <2>2
    <3> HIDE DEF l, j
    <3>3. data'[k] = d[j]
      BY <1>6, <2>1, <3>2
    <3>4. IsMisread(data'[k])
      BY <3>2, <3>3 DEF l
    <3>5. ~(k < r) /\ ~(r + l <= k)
      BY <1>1, <2>1, <2>2
    <3>6. blocks'[k] = Garbage(data'[k].index)
      BY <1>3, <2>1, <3>5
    <3> QED
      BY <3>1, <3>4, <3>6 DEF FoundAt, IsMisread, Garbage, DataType
  <2>3. CASE k < r \/ r + l <= k
    <3> DEFINE i == IF k < r THEN k ELSE k - r - l + u
    <3>1. ~Misplaced(k)' /\ Place(k)' = i
      BY <1>1, <1>3, <2>1, <2>3 DEF Misplaced, Place
    <3>2. i \in 1..n /\ W[k] = Frames[i]
      <4>1. CASE k < r
        <5>1. i = k /\ k \in 1..(r - 1) /\ k \in 1..n
          BY <1>1, <2>1, <4>1
        <5>2. W[k] = Frames[k]
          BY <1>6, <5>1
        <5> QED
          BY <5>1, <5>2
      <4>2. CASE ~(k < r)
        <5> DEFINE j == k - r - l + 1
        <5> HIDE DEF n, l
        <5>1. /\ i = k - r - l + u /\ k \in Nat /\ r + l <= k
              /\ k <= (r - 1) + l + (n - u + 1)
          BY <1>1, <1>6, <2>1, <2>3, <4>2
        <5>3. j \in 1..(n - u + 1) /\ (r - 1) + l + j = k /\ (u - 1) + j = i
          BY <1>1, <5>1
        <5>4. i \in 1..n
          BY <1>1, <5>1
        <5> HIDE DEF j, i
        <5>2. W[(r - 1) + l + j] = Frames[(u - 1) + j]
          BY <1>6, <5>3
        <5> QED
          BY <5>2, <5>3, <5>4
      <4> QED
        BY <4>1, <4>2
    <3>3. data'[k] = Frame(i) /\ IsFrame(Frame(i), i)
      BY <1>2, <2>1, <3>2, FrameIs
    <3>4. blocks'[k] = Decoded(i)
      BY <1>3, <2>1, <2>3
    <3>5. Decoded(i)' = Decoded(i) /\ (IsFrame(data'[k], i) => IsFrame(data[k], i)')
      BY <1>1 DEF Decoded, DataType, IsFrame
    <3> HIDE DEF i
    <3>6. IsFrame(data[k], Place(k))' /\ blocks'[k] = Decoded(Place(k))'
      BY <1>1, <3>1, <3>3, <3>4 DEF IsFrame, Decoded, DataType
    <3> QED
      BY <3>1, <3>6 DEF FoundAt
  <2> QED
    BY <1>1, <2>1, <2>2, <2>3
<1>12. (\A k \in 1..FramesFound : FoundAt(data[k], blocks[k], k))'
  BY <1>8, <1>11
<1>13. ASSUME NEW k \in DOMAIN data', k \notin 1..Len(W)
       PROVE  blocks'[k] = Garbage(data'[k].index)
  <2>1. data' \in Seq(FrameType)
    BY <1>3, <1>7 DEF LaidOut
  <2>2. k \in Nat /\ k >= 1
    BY <2>1
  <2>3. ~(k <= Len(W)) /\ ~(k < r)
    <3> HIDE DEF n, l
    <3> QED
      BY <1>1, <1>6, <1>13, <2>2
  <2> QED
    BY <1>3, <2>3
<1>14. (\A k \in DOMAIN data \ (1..FramesFound) : blocks[k] = Garbage(data[k].index))'
  BY <1>8, <1>13 DEF Garbage, DataType
<1> QED
  BY <1>1, <1>9, <1>10, <1>12, <1>14 DEF Laid

\* A load that begins finds the file as it was left, but for the damage.
LEMMA OpenLays == Written /\ Written' /\ Open => Laid'
<1> SUFFICES ASSUME Written, Written', Open PROVE Laid'
  OBVIOUS
<1> DEFINE n == Len(file)
<1>1. Left /\ Left' /\ UNCHANGED vars /\ declared' = IF frameCrc THEN "crc32c" ELSE "none"
  <2>1. Left
    BY DEF Open, Left
  <2>2. Left'
    BY DEF Open, Left, vars, disk
  <2> QED
    BY <2>1, <2>2 DEF Open
<1>2. n \in Nat /\ DOMAIN file = 1..n
  BY Lengths DEF Written, IInv
<1>3. Frames \in Seq(FrameType) /\ Len(Frames) = n /\ L!R!SizeOf(Frames) \in Int
  BY <1>1, FramesAre, SizeIsInteger
<1>4. ASSUME NEW tail \in Tails, NEW cut \in Cuts(tail)
      PROVE  /\ cut \in Int
             /\ \/ tail = <<>> /\ cut = 0
                \/ \E g \in FrameType : /\ tail = <<g>> /\ g.index \in 0..(N - 1)
                                        /\ cut >= 0 /\ cut < L!R!FrameSize(g)
  <2>1. CASE tail = <<>>
    BY <2>1 DEF Cuts
  <2>2. CASE tail # <<>>
    <3>1. PICK ch \in L!A!Indices : tail = <<TornFrame(ch)>>
      BY <2>2 DEF Tails
    <3> DEFINE g == TornFrame(ch)
    <3>2. g \in FrameType /\ g.index \in 0..(N - 1)
      BY <3>1, DeclaredIndices, TornFrameIs
    <3> HIDE DEF g
    <3>3. tail = <<g>> /\ L!R!FrameSize(g) \in Nat
      BY <3>1, <3>2, FrameSizes DEF g
    <3>4. cut \in 1..(L!R!FrameSize(g) - 1)
      BY <2>2, <3>3 DEF Cuts
    <3> QED
      BY <3>2, <3>3, <3>4
  <2> QED
    BY <2>1, <2>2
<1>5. ASSUME NEW d \in Debris
      PROVE  d \in Seq(FrameType) /\ \A k \in 1..Len(d) : IsMisread(d[k])
  <2> DEFINE M == {Misread(h[1], h[2]) : h \in {x \in Headers : x[1] \in L!A!Indices}}
  <2>1. PICK k \in 0..MaxMisread : d \in [1..k -> M]
    BY DEF Debris
  <2>2. \A g \in M : g \in FrameType /\ IsMisread(g)
    <3>1. ASSUME NEW h \in Headers, h[1] \in L!A!Indices
          PROVE  Misread(h[1], h[2]) \in FrameType /\ IsMisread(Misread(h[1], h[2]))
      <4>1. h[1] \in Nat /\ h[2] \in Nat /\ h[1] \in 0..(N - 1)
        BY <3>1, RecordingAssumption, DeclaredIndices
      <4> QED
        BY <4>1, MisreadIs
    <3> QED
      BY <3>1
  <2> HIDE DEF M
  <2>3. k \in Nat
    BY RecordingAssumption
  <2>4. d \in Seq(M) /\ Len(d) = k /\ \A j \in 1..k : d[j] \in M
    BY <2>1, <2>3
  <2>5. d \in Seq(FrameType)
    BY <2>1, <2>2, <2>3
  <2> QED
    BY <2>2, <2>4, <2>5
<1>6. CASE Undamaged
  <2>1. PICK tail \in Tails : \E cut \in Cuts(tail) :
           Lies(1, 1, <<>>, tail, L!R!SizeOf(Frames) + cut)
    BY <1>6 DEF Undamaged
  <2>0. PICK cut \in Cuts(tail) : Lies(1, 1, <<>>, tail, L!R!SizeOf(Frames) + cut)
    BY <2>1
  <2> DEFINE size == L!R!SizeOf(Frames) + cut
             d == <<>>
  <2>2. Whole(1, 1, d) = Frames
    <3>1. d \in Seq(FrameType) /\ Len(d) = 0
      OBVIOUS
    <3> HIDE DEF d
    <3>2. IsSplice(Whole(1, 1, d), FrameType, Frames, d, 1, 1)
      <4>1. 1 \in 1..(Len(file) + 1)
        BY <1>2
      <4> QED
        BY <1>1, <3>1, <4>1, WholeIs
    <3> DEFINE W == Whole(1, 1, d)
    <3> HIDE DEF W
    <3>3. /\ W \in Seq(FrameType) /\ Len(W) = (1 - 1) + Len(d) + (Len(Frames) - 1 + 1)
          /\ \A k \in 1..(Len(Frames) - 1 + 1) : W[(1 - 1) + Len(d) + k] = Frames[(1 - 1) + k]
      BY <3>2 DEF W, IsSplice
    <3>4. Len(W) = n /\ \A k \in 1..n : W[k] = Frames[k]
      BY <1>2, <1>3, <3>1, <3>3
    <3>5. W = Frames
      BY <1>3, <3>3, <3>4, SequencesEqual
    <3> QED
      BY <3>5 DEF W
  <2>3. /\ cut \in Int
        /\ \/ tail = <<>> /\ cut = 0
           \/ \E g \in FrameType : /\ tail = <<g>> /\ g.index \in 0..(N - 1)
                                   /\ cut >= 0 /\ cut < L!R!FrameSize(g)
    BY <1>4
  <2>4. \A g \in FrameType : L!R!FrameSize(g) \in Nat
    BY FrameSizes
  <2>5. /\ size \in Int /\ L!R!SizeOf(Whole(1, 1, d)) <= size
        /\ \/ tail = <<>> /\ size = L!R!SizeOf(Whole(1, 1, d))
           \/ \E g \in FrameType :
                 /\ tail = <<g>>
                 /\ \/ size < L!R!SizeOf(Whole(1, 1, d)) + L!R!FrameSize(g)
                    \/ g.index \notin 0..(N - 1)
                 /\ g.index \notin 0..(N - 1) => 1 < 1
    BY <1>3, <2>2, <2>3, <2>4
  <2>6. /\ 1 \in 1..(Len(file) + 1) /\ d \in Seq(FrameType) /\ Len(d) = 0
        /\ 1 \in 1..(Len(file) + 1) /\ \A k \in 1..Len(d) : IsMisread(d[k])
    BY <1>2
  <2>7. Lies(1, 1, d, tail, size)
    BY <2>0
  <2> HIDE DEF d, size
  <2> QED
    BY <1>1, <2>5, <2>6, <2>7, LiesLaid
<1>7. ASSUME frameCrc, BackInStep
      PROVE  Laid'
  <2>1. PICK tail \in Tails, r \in DOMAIN file, d \in Debris, ch \in L!A!Indices :
        \E u \in (r + 1)..(Len(file) + 1), cut \in Cuts(tail) :
            LET length == L!R!SizeOf(SubSeq(Frames, r, u - 1)) - L!R!SizeOf(d)
                             - L!R!FrameSize(Misread(ch, 0))
                read   == Append(d, Misread(ch, length))
            IN  /\ length >= 0
                /\ Lies(r, u, read, tail, L!R!SizeOf(Whole(r, u, read)) + cut)
    BY <1>7 DEF BackInStep
  <2>2. PICK u \in (r + 1)..(Len(file) + 1), cut \in Cuts(tail) :
            LET length == L!R!SizeOf(SubSeq(Frames, r, u - 1)) - L!R!SizeOf(d)
                             - L!R!FrameSize(Misread(ch, 0))
                read   == Append(d, Misread(ch, length))
            IN  /\ length >= 0
                /\ Lies(r, u, read, tail, L!R!SizeOf(Whole(r, u, read)) + cut)
    BY <2>1
  <2> DEFINE length == L!R!SizeOf(SubSeq(Frames, r, u - 1)) - L!R!SizeOf(d)
                          - L!R!FrameSize(Misread(ch, 0))
             g == Misread(ch, length)
             read == Append(d, g)
             size == L!R!SizeOf(Whole(r, u, read)) + cut
  <2>3. length >= 0 /\ Lies(r, u, read, tail, size)
    BY <2>2
  <2>4. /\ r \in 1..(Len(file) + 1) /\ u \in r..(Len(file) + 1) /\ r < u /\ ch \in 0..(N - 1)
        /\ ch \in Nat /\ r \in Nat /\ u \in Nat /\ u - 1 <= n /\ r \in 1..n
    BY <1>2, DeclaredIndices
  <2>5. length \in Nat
    <3>1. SubSeq(Frames, r, u - 1) \in Seq(FrameType)
      BY <1>3, <2>4
    <3>2. L!R!SizeOf(SubSeq(Frames, r, u - 1)) \in Int
      <4> DEFINE s == SubSeq(Frames, r, u - 1)
      <4> HIDE DEF s
      <4>1. s \in Seq(FrameType)
        BY <3>1 DEF s
      <4>2. L!R!SizeOf(s) \in Int
        BY <4>1, SizeIsInteger
      <4> QED
        BY <4>2 DEF s
    <3>3. L!R!SizeOf(d) \in Int
      BY <1>5, SizeIsInteger
    <3>4. L!R!FrameSize(Misread(ch, 0)) \in Nat
      <4> DEFINE x == Misread(ch, 0)
      <4>1. x \in FrameType
        BY <2>4, MisreadIs
      <4> HIDE DEF x
      <4>2. L!R!FrameSize(x) \in Nat
        BY <4>1, FrameSizes
      <4> QED
        BY <4>2 DEF x
    <3> QED
      BY <2>3, <3>2, <3>3, <3>4
  <2> HIDE DEF length
  <2>6. g \in FrameType /\ IsMisread(g)
    BY <2>4, <2>5, MisreadIs
  <2> HIDE DEF g
  <2>7. read \in Seq(FrameType) /\ Len(read) > 0 /\ \A k \in 1..Len(read) : IsMisread(read[k])
    <3>1. d \in Seq(FrameType) /\ Len(d) \in Nat /\ \A k \in 1..Len(d) : IsMisread(d[k])
      BY <1>5
    <3>2. read \in Seq(FrameType) /\ Len(read) = Len(d) + 1 /\ read[Len(d) + 1] = g
          /\ \A k \in 1..Len(d) : read[k] = d[k]
      BY <2>6, <3>1
    <3> HIDE DEF read
    <3>3. ASSUME NEW k \in 1..Len(read) PROVE IsMisread(read[k])
      <4>1. k \in 1..Len(d) \/ k = Len(d) + 1
        BY <3>1, <3>2
      <4> QED
        BY <2>6, <3>1, <3>2, <4>1
    <3> QED
      BY <3>1, <3>2, <3>3
  <2> HIDE DEF read
  <2> DEFINE W == Whole(r, u, read)
  <2>8. L!R!SizeOf(W) \in Int
    <3>1. IsSplice(W, FrameType, Frames, read, r, u)
      BY <1>1, <2>4, <2>7, WholeIs
    <3> HIDE DEF W
    <3>2. W \in Seq(FrameType)
      BY <3>1 DEF IsSplice
    <3> QED
      BY <3>2, SizeIsInteger
  <2>9. /\ cut \in Int
        /\ \/ tail = <<>> /\ cut = 0
           \/ \E x \in FrameType : /\ tail = <<x>> /\ x.index \in 0..(N - 1)
                                   /\ cut >= 0 /\ cut < L!R!FrameSize(x)
    BY <1>4
  <2>10. \A x \in FrameType : L!R!FrameSize(x) \in Nat
    BY FrameSizes
  <2>11. /\ size \in Int /\ L!R!SizeOf(W) <= size
         /\ \/ tail = <<>> /\ size = L!R!SizeOf(W)
            \/ \E x \in FrameType :
                  /\ tail = <<x>>
                  /\ \/ size < L!R!SizeOf(W) + L!R!FrameSize(x)
                     \/ x.index \notin 0..(N - 1)
                  /\ x.index \notin 0..(N - 1) => r < u
    <3> HIDE DEF W
    <3>1. size = L!R!SizeOf(W) + cut
      BY DEF W
    <3> HIDE DEF size
    <3> QED
      BY <2>8, <2>9, <2>10, <3>1
  <2>12. Lies(r, u, read, tail, size)
    BY <2>3
  <2> HIDE DEF size
  <2> QED
    BY <1>1, <1>7, <2>4, <2>7, <2>11, <2>12, LiesLaid DEF W
<1>8. ASSUME frameCrc, OutOfStep
      PROVE  Laid'
  <2>1. PICK r \in DOMAIN file, d \in Debris, h \in Headers,
             cut \in UNION {Cuts(tail) : tail \in Tails} :
        LET passed == L!R!SizeOf(Whole(r, Len(file) + 1, d))
            size   == L!R!SizeOf(Frames) + cut
            last   == Misread(h[1], h[2])
        IN  /\ passed < size
            /\ h[1] \notin L!A!Indices \/ size < passed + L!R!FrameSize(last)
            /\ Lies(r, Len(file) + 1, d, <<last>>, size)
    BY <1>8 DEF OutOfStep
  <2> DEFINE u == Len(file) + 1
             W == Whole(r, u, d)
             size == L!R!SizeOf(Frames) + cut
             last == Misread(h[1], h[2])
             tail == <<last>>
  <2>2. /\ L!R!SizeOf(W) < size
        /\ h[1] \notin L!A!Indices \/ size < L!R!SizeOf(W) + L!R!FrameSize(last)
        /\ Lies(r, u, d, tail, size)
    BY <2>1
  <2>3. last \in FrameType /\ last.index = h[1]
    <3>1. h[1] \in Nat /\ h[2] \in Nat
      BY RecordingAssumption
    <3> QED
      BY <3>1, MisreadIs
  <2>4. /\ r \in 1..(Len(file) + 1) /\ u \in r..(Len(file) + 1) /\ r < u
    BY <1>2
  <2>5. cut \in Int
    BY <1>4
  <2>6. L!R!SizeOf(W) \in Int
    <3>1. IsSplice(W, FrameType, Frames, d, r, u)
      BY <1>1, <1>5, <2>4, WholeIs
    <3> HIDE DEF W
    <3>2. W \in Seq(FrameType)
      BY <3>1 DEF IsSplice
    <3> QED
      BY <3>2, SizeIsInteger
  <2>7. d \in Seq(FrameType) /\ \A k \in 1..Len(d) : IsMisread(d[k])
    BY <1>5
  <2>8. size \in Int /\ L!R!SizeOf(W) <= size
    <3> HIDE DEF W
    <3> QED
      BY <1>3, <2>2, <2>5, <2>6
  <2>9. /\ \/ size < L!R!SizeOf(W) + L!R!FrameSize(last)
           \/ last.index \notin 0..(N - 1)
        /\ last.index \notin 0..(N - 1) => r < u
    BY <2>2, <2>3, <2>4, DeclaredIndices
  <2> HIDE DEF size, last
  <2>10. \E g \in FrameType :
            /\ tail = <<g>>
            /\ \/ size < L!R!SizeOf(W) + L!R!FrameSize(g)
               \/ g.index \notin 0..(N - 1)
            /\ g.index \notin 0..(N - 1) => r < u
    BY <2>3, <2>9
  <2> HIDE DEF tail
  <2>11. Lies(r, u, d, tail, size)
    BY <2>2
  <2>12. u = Len(file) + 1
    OBVIOUS
  <2> HIDE DEF u
  <2> QED
    BY <1>1, <1>8, <2>4, <2>7, <2>8, <2>10, <2>11, <2>12, LiesLaid DEF W
<1> QED
  BY <1>6, <1>7, <1>8 DEF Open

\* Frame by frame the reader passes the blocks, in order and but for those that are lost.
LEMMA PlaceIs ==
    ASSUME Laid
    PROVE  /\ FramesFound \in Nat /\ Len(file) \in Nat /\ Place(0) = 0
           /\ \A k \in 1..FramesFound :
                 /\ Place(k - 1) \in 0..Len(file) /\ Place(k) \in 0..Len(file)
                 /\ Misplaced(k) => /\ Place(k - 1) <= Place(k)
                                    /\ \A i \in (Place(k - 1) + 1)..Place(k) : i \in Lost
                 /\ ~Misplaced(k) =>
                       /\ Place(k) \in 1..Len(file) /\ Place(k) \notin Lost
                       /\ Place(k - 1) < Place(k)
                       /\ \A i \in (Place(k - 1) + 1)..(Place(k) - 1) : i \in Lost
           /\ Place(FramesFound) \in 0..Len(file)
           /\ \A i \in (Place(FramesFound) + 1)..Len(file) : i \in Lost
<1> DEFINE n == Len(file)
           W == FramesFound
<1>1. /\ n \in Nat /\ rotten \in Nat /\ resumed \in Nat /\ misread \in Nat
      /\ 1 <= rotten /\ rotten <= resumed /\ resumed <= n + 1
      /\ \/ rotten = 1 /\ resumed = 1 /\ misread = 0
         \/ rotten < resumed /\ (misread > 0 \/ resumed = n + 1)
  BY Lengths DEF Left, Written, IInv, Laid, DamageIs
<1>2. W = (rotten - 1) + misread + (n - resumed + 1) /\ W \in Nat
  BY <1>1 DEF FramesFound
<1> HIDE DEF n, W
<1>3. \A i : i \in Lost <=> i \in rotten..(resumed - 1)
  BY DEF Lost
<1>4. Place(0) = 0
  BY <1>1 DEF Place
<1>5. ASSUME NEW k \in 1..W
      PROVE  /\ Place(k - 1) \in 0..n /\ Place(k) \in 0..n
             /\ Misplaced(k) => /\ Place(k - 1) <= Place(k)
                                /\ \A i \in (Place(k - 1) + 1)..Place(k) : i \in Lost
             /\ ~Misplaced(k) =>
                   /\ Place(k) \in 1..n /\ Place(k) \notin Lost
                   /\ Place(k - 1) < Place(k)
                   /\ \A i \in (Place(k - 1) + 1)..(Place(k) - 1) : i \in Lost
  <2>1. k \in Nat /\ 1 <= k /\ k <= (rotten - 1) + misread + (n - resumed + 1)
    BY <1>2
  <2>2. CASE k < rotten
    <3>1. Place(k) = k /\ Place(k - 1) = k - 1 /\ ~Misplaced(k)
      BY <1>1, <2>1, <2>2 DEF Place, Misplaced
    <3> QED
      BY <1>1, <1>3, <2>1, <2>2, <3>1
  <2>3. CASE k = rotten /\ Misplaced(k)
    <3>1. Place(k) = resumed - 1 /\ Place(k - 1) = k - 1
      BY <1>1, <2>1, <2>3 DEF Place
    <3> QED
      BY <1>1, <1>3, <2>1, <2>3, <3>1
  <2>4. CASE k > rotten /\ Misplaced(k)
    <3>1. Place(k) = resumed - 1 /\ Place(k - 1) = resumed - 1
      BY <1>1, <2>1, <2>4 DEF Place, Misplaced
    <3> QED
      BY <1>1, <1>3, <2>1, <2>4, <3>1
  <2>5. CASE k >= rotten /\ ~Misplaced(k)
    <3>1. k >= rotten + misread /\ Place(k) = k - rotten - misread + resumed
      BY <1>1, <2>1, <2>5 DEF Place, Misplaced
    <3>2. Place(k) \in resumed..n
      BY <1>1, <2>1, <3>1
    <3>3. Place(k - 1) = Place(k) - 1
      <4>1. CASE k > rotten + misread
        BY <1>1, <2>1, <3>1, <4>1 DEF Place, Misplaced
      <4>2. CASE k = rotten + misread /\ misread > 0
        BY <1>1, <2>1, <3>1, <4>2 DEF Place, Misplaced
      <4>3. CASE k = rotten + misread /\ misread = 0
        <5>1. rotten = 1 /\ resumed = 1 /\ k = 1
          BY <1>1, <2>1, <4>3
        <5> QED
          BY <1>1, <1>4, <3>1, <4>3, <5>1
      <4> QED
        BY <1>1, <2>1, <3>1, <4>1, <4>2, <4>3
    <3> QED
      BY <1>1, <1>3, <2>5, <3>2, <3>3
  <2> QED
    BY <1>1, <2>1, <2>2, <2>3, <2>4, <2>5
<1>6. Place(W) \in 0..n /\ \A i \in (Place(W) + 1)..n : i \in Lost
  <2>1. CASE W < rotten
    <3>1. Place(W) = W
      BY <2>1 DEF Place
    <3>2. W = rotten - 1 /\ (resumed = n + 1 \/ W = n)
      BY <1>1, <1>2, <2>1
    <3> QED
      BY <1>1, <1>2, <1>3, <3>1, <3>2
  <2>2. CASE W >= rotten /\ Misplaced(W)
    <3>1. Place(W) = resumed - 1 /\ resumed = n + 1
      BY <1>1, <1>2, <2>2 DEF Place, Misplaced
    <3> QED
      BY <1>1, <3>1
  <2>3. CASE W >= rotten /\ ~Misplaced(W)
    <3>1. Place(W) = n
      BY <1>1, <1>2, <2>3 DEF Place, Misplaced
    <3> QED
      BY <1>1, <3>1
  <2> QED
    BY <1>1, <1>2, <2>1, <2>2, <2>3
<1> QED
  BY <1>1, <1>2, <1>4, <1>5, <1>6 DEF n, W

---------------------------------------------------------------------------
(* The reader: its steps. *)

Item == [frame : Nat, result : {"data", "CrcFailed", "ZeroLengthBlock"}]

\* Where the iterator is.
Reading ==
    /\ frame \in 0..(FramesFound + 1) /\ finished \in BOOLEAN /\ adrift = FALSE
    /\ yielded \in Seq(Item)
    /\ finished => frame >= FramesFound
    /\ ~finished => frame <= FramesFound /\ pos = OffsetIn(data, frame + 1)

\* The frames that it has answered for.
Passed == IF finished THEN FramesFound ELSE frame

\* The next frame is taken and answered for.
Passes(result) ==
    /\ pos' = pos + L!R!FrameSize(data[frame + 1]) /\ frame' = frame + 1
    /\ UNCHANGED <<data, present, declared, finished, adrift>>
    /\ yielded' = Append(yielded, [frame |-> frame + 1, result |-> result])

\* The frame in front of the cursor.
LEMMA FrameAt ==
    ASSUME Laid, Reading, ~finished, frame < FramesFound
    PROVE  /\ frame + 1 \in 1..FramesFound
           /\ frame < Len(data) /\ data[frame + 1] \in FrameType
           /\ data[frame + 1].index \in 0..(N - 1)
           /\ data[frame + 1].index \in DOMAIN L!ChannelInfo
           /\ data[frame + 1].index # TrailerIndex /\ data[frame + 1].index # SignatureIndex
           /\ pos \in Int /\ present \in Int
           /\ pos = OffsetIn(data, frame + 1)
           /\ OffsetIn(data, frame + 2) = pos + L!R!FrameSize(data[frame + 1])
           /\ pos + L!R!FrameSize(data[frame + 1]) <= present
<1>1. /\ FramesFound \in Nat /\ frame \in Nat /\ pos = OffsetIn(data, frame + 1)
      /\ data \in Seq(FrameType) /\ Len(data) \in Nat /\ FramesFound <= Len(data)
      /\ present \in Int
      /\ OffsetIn(data, FramesFound + 1) <= present
  <2>1. FramesFound \in Nat
    BY PlaceIs
  <2>2. /\ data \in Seq(FrameType) /\ present \in Int
        /\ OffsetIn(data, FramesFound + 1) <= present
        /\ Len(data) = FramesFound \/ Len(data) = FramesFound + 1
    BY DEF Laid, LaidOut
  <2>3. frame \in Nat /\ pos = OffsetIn(data, frame + 1)
    BY <2>1 DEF Reading
  <2> QED
    BY <2>1, <2>2, <2>3
<1> DEFINE i == frame + 1
           m == FramesFound + 1
<1>2. i \in 1..FramesFound /\ i \in 1..Len(data) /\ frame < Len(data) /\ i + 1 \in 1..(Len(data) + 1)
      /\ m \in (i + 1)..(Len(data) + 1) /\ i + 1 = frame + 2
  BY <1>1
<1>3. data[i] \in FrameType
  BY <1>1, <1>2
<1> HIDE DEF i, m
<1>4. /\ OffsetIn(data, i) \in Int
      /\ OffsetIn(data, i + 1) = OffsetIn(data, i) + L!R!FrameSize(data[i])
      /\ OffsetIn(data, i + 1) \in Int /\ OffsetIn(data, m) \in Int
      /\ OffsetIn(data, i + 1) <= OffsetIn(data, m)
  BY <1>1, <1>2, Offsets, OffsetsGrow
<1>5. L!R!FrameSize(data[i]) \in Nat
  BY <1>3, FrameSizes
<1>6. data[i].index \in 0..(N - 1)
  <2>1. FoundAt(data[i], blocks[i], i)
    BY <1>2 DEF Laid
  <2>2. CASE Misplaced(i)
    BY <2>1, <2>2 DEF FoundAt, IsMisread
  <2>3. CASE ~Misplaced(i)
    <3>1. Place(i) \in 1..Len(file)
      BY <1>2, <2>3, PlaceIs
    <3>2. data[i].index = file[Place(i)].index
      BY <2>1, <2>3 DEF FoundAt, IsFrame
    <3> QED
      BY <3>1, <3>2, BlockIs DEF Laid
  <2> QED
    BY <2>2, <2>3
<1>7. data[i].index # TrailerIndex /\ data[i].index # SignatureIndex
  <2>1. /\ N \in Nat /\ N <= SignatureIndex /\ N <= TrailerIndex
        /\ SignatureIndex \in Nat /\ TrailerIndex \in Nat
    BY Declarations, RecordingAssumption, IndexAssumption DEF N
  <2> QED
    BY <1>6, <2>1
<1>8. data[i].index \in DOMAIN L!ChannelInfo
  BY <1>6, DeclaredIndices
<1>9. pos + L!R!FrameSize(data[i]) <= present
  BY <1>1, <1>4, <1>5 DEF i, m
<1> QED
  BY <1>1, <1>2, <1>3, <1>4, <1>6, <1>7, <1>8, <1>9 DEF i

\* A frame that is whole is passed: the reader returns a block or skips it.
LEMMA ReadFrame ==
    ASSUME Laid, Reading, ~finished, frame < FramesFound, L!R!next,
           NEW g, g = data[frame + 1]
    PROVE  \/ /\ Passes("ZeroLengthBlock") /\ g.length = 0
           \/ /\ Passes("CrcFailed") /\ L!R!CrcWrong
           \/ /\ ~L!R!CrcWrong /\ g.length > 0
              /\ L!R!SkippedByControl \/ L!R!DecodedBlock \/ L!R!ParseError
<1>1. /\ frame < Len(data) /\ g \in FrameType
      /\ g.index \in 0..(N - 1) /\ g.index \in DOMAIN L!ChannelInfo
      /\ g.index # TrailerIndex /\ g.index # SignatureIndex
      /\ pos \in Int /\ present \in Int /\ pos + L!R!FrameSize(g) <= present
  BY FrameAt
<1>2. /\ L!R!FrameSize(g) = 2 + L!R!Width(g) + g.length
      /\ L!R!Width(g) \in {2, 4} /\ g.length \in Nat
      /\ L!R!FrameSize(g) \in Nat
  BY <1>1, FrameSizes
<1>3. L!R!f = g
  BY DEF L!R!f
<1>4. L!R!Has(2) /\ L!R!Has(L!R!Fields) /\ L!R!Has(L!R!FrameSize(L!R!f))
  <2>1. /\ 2 <= L!R!FrameSize(g) /\ 2 + L!R!Width(g) <= L!R!FrameSize(g)
        /\ 2 + L!R!Width(g) \in Nat
    BY <1>2
  <2>2. /\ pos + 2 <= present /\ pos + (2 + L!R!Width(g)) <= present
        /\ pos + L!R!FrameSize(g) <= present
    BY <1>1, <1>2, <2>1
  <2> QED
    BY <1>3, <2>1, <2>2, Zenon DEF L!R!Has, L!R!Fields
<1>5. ~L!R!IsSignature /\ ~L!R!Unsupported
  <2>1. L!ChannelInfo[g.index].data_type = L!ReaderType(DataType(g.index))
        /\ DataType(g.index) \in L!A!DataTypes \ {"unsupported"}
    BY <1>1, DefinitionIs
  <2>2. L!ReaderType(DataType(g.index)) \in {"numeric", "gps", "string", "binary"}
    BY <2>1, WriterTypes
  <2> QED
    BY <1>1, <1>3, <2>1, <2>2 DEF L!R!IsSignature, L!R!Unsupported
<1>6. ~L!R!EndOfStream /\ ~L!R!IndexFails /\ ~L!R!Trailer /\ ~L!R!SignatureBlock
      /\ ~L!R!UnknownChannel
  BY <1>1, <1>3, <1>4, <1>5 DEF L!R!EndOfStream, L!R!IndexFails, L!R!Failed, L!R!Trailer,
     L!R!SignatureBlock, L!R!UnknownChannel
<1>7. ~L!R!LengthField /\ ~L!R!UnsupportedBlock /\ ~L!R!Payload
  BY <1>2, <1>4, <1>5 DEF L!R!LengthField, L!R!UnsupportedBlock, L!R!Payload, L!R!Failed
<1>8. L!R!ZeroLengthBlock \/ L!R!CrcFailed
      \/ L!R!SkippedByControl \/ L!R!DecodedBlock \/ L!R!ParseError
  BY <1>6, <1>7 DEF L!R!next
<1>9. CASE L!R!ZeroLengthBlock
  <2>1. g.length = 0 /\ L!R!Fields = L!R!FrameSize(g)
    BY <1>2, <1>3, <1>9 DEF L!R!ZeroLengthBlock, L!R!Fields
  <2>2. L!R!Skip("ZeroLengthBlock", L!R!FrameSize(g))
    BY <1>9, <2>1 DEF L!R!ZeroLengthBlock
  <2> QED
    BY <2>1, <2>2 DEF L!R!Skip, L!R!Pass, L!R!Yield, L!R!Item, L!R!file, Passes
<1>10. CASE L!R!CrcFailed
  <2>1. L!R!CrcWrong /\ L!R!Skip("CrcFailed", L!R!FrameSize(g))
    BY <1>3, <1>10 DEF L!R!CrcFailed
  <2> QED
    BY <2>1 DEF L!R!Skip, L!R!Pass, L!R!Yield, L!R!Item, L!R!file, Passes
<1>11. CASE L!R!SkippedByControl \/ L!R!DecodedBlock \/ L!R!ParseError
  BY <1>3, <1>11 DEF L!R!SkippedByControl, L!R!DecodedBlock, L!R!ParseError, L!R!Read
<1> QED
  BY <1>8, <1>9, <1>10, <1>11

\* What a frame of the file, or a misread one, comes to.
Results(k) == IF Misplaced(k) THEN {"CrcFailed", "ZeroLengthBlock"} ELSE {"data"}

\* Each block of the file is decoded, unless it is lost.
LEMMA ReadWhole ==
    ASSUME Laid, Reading, ~finished, frame < FramesFound, L!R!next
    PROVE  \E r \in Results(frame + 1) : Passes(r)
<1> DEFINE i == frame + 1
           g == data[i]
<1>1. i \in 1..FramesFound /\ FoundAt(g, blocks[i], i)
  BY FrameAt DEF Laid
<1>2. L!R!f = g
  BY DEF L!R!f
<1>3. \/ /\ Passes("ZeroLengthBlock") /\ g.length = 0
      \/ /\ Passes("CrcFailed") /\ L!R!CrcWrong
      \/ /\ ~L!R!CrcWrong /\ g.length > 0
         /\ L!R!SkippedByControl \/ L!R!DecodedBlock \/ L!R!ParseError
  BY ReadFrame
<1> HIDE DEF g, i
<1>4. CASE Misplaced(i)
  <2>1. g.crc = FALSE
    BY <1>1, <1>4 DEF FoundAt, IsMisread
  <2>2. declared = "crc32c"
    <3>1. rotten < resumed /\ frameCrc
      <4>1. rotten \in Nat /\ misread \in Nat
        BY Lengths DEF Laid, Left, Written, IInv, DamageIs
      <4>2. rotten <= i /\ i < rotten + misread /\ i \in Int
        BY <1>1, <1>4 DEF Misplaced
      <4>3. misread # 0
        BY <4>1, <4>2
      <4> QED
        BY <4>3 DEF Laid, DamageIs
    <3> QED
      BY <3>1 DEF Laid
  <2>3. L!R!CrcWrong
    BY <1>2, <2>1, <2>2 DEF L!R!CrcWrong
  <2> QED
    BY <1>3, <1>4, <2>3 DEF Results, i
<1>5. CASE ~Misplaced(i)
  <2> DEFINE q == Place(i)
             b == file[q]
  <2>1. q \in 1..Len(file)
    BY <1>1, <1>5, PlaceIs
  <2>2. /\ g.index = b.index /\ g.length = b.length /\ g.control = b.kind
        /\ g.crc = TRUE /\ g.sound = TRUE
        /\ declared = (IF frameCrc THEN "crc32c" ELSE "none")
    BY <1>1, <1>5 DEF FoundAt, IsFrame, Laid
  <2>3. /\ b.kind \in Kinds /\ DataType(b.index) \in L!A!DataTypes \ {"unsupported"}
        /\ b.kind # "AbsTimeStampData" => DataType(b.index) \in {"float", "double"}
        /\ b.length \in Nat /\ b.length > 0 /\ (frameCrc => b.length >= 5)
        /\ b.index \in 0..(N - 1)
    <3> HIDE DEF q
    <3> QED
      BY <2>1, BlockIs DEF Laid
  <2> HIDE DEF b, q
  <2>4. /\ L!ChannelInfo[g.index].data_type = L!ReaderType(DataType(b.index))
        /\ L!ReaderType(DataType(b.index)) \in {"numeric", "gps", "string", "binary"}
        /\ b.kind # "AbsTimeStampData" => L!ReaderType(DataType(b.index)) = "numeric"
    BY <2>2, <2>3, DefinitionIs, WriterTypes
  <2>5. ~L!R!CrcWrong
    <3>1. L!R!f.crc = TRUE /\ (declared # "none" => ~(L!R!f.length < 5))
      BY <1>2, <2>2, <2>3
    <3> QED
      BY <3>1 DEF L!R!CrcWrong
  <2>6. L!R!Decision = "Decode"
    BY <1>2, <2>2, <2>3 DEF L!R!Decision, Kinds, L!R!ReservedKinds
  <2>7. L!R!Parses
    BY <1>2, <2>2, <2>3, <2>4 DEF L!R!Parses, Kinds, L!R!DataKinds
  <2>8. L!R!DecodedBlock
    <3>1. g.length # 0
      BY <2>2, <2>3
    <3> QED
      BY <1>3, <2>5, <2>6, <2>7, <3>1 DEF L!R!SkippedByControl, L!R!ParseError
  <2>9. Passes("data")
    BY <1>2, <2>8 DEF L!R!DecodedBlock, L!R!Pass, L!R!Yield, L!R!Item, L!R!file, Passes, i, g
  <2> QED
    BY <1>5, <2>9 DEF Results, i
<1> QED
  BY <1>4, <1>5

\* Behind the last whole frame the stream ends, perhaps inside a frame or behind what the
\* reader takes for a trailer; or it comes upon the index of no channel.
LEMMA ReadEnd ==
    ASSUME Laid, Reading, ~finished, frame = FramesFound, L!R!next
    PROVE  \/ /\ finished' = TRUE /\ frame' \in {FramesFound, FramesFound + 1}
              /\ UNCHANGED <<data, present, declared, adrift, yielded>>
           \/ /\ rotten < resumed
              /\ FramesFound + 1 \in DOMAIN data /\ data[FramesFound + 1].index \notin 0..(N - 1)
              /\ UNCHANGED <<data, present, declared, adrift>>
              /\ \E r \in {"UnknownChannelIndex", "SignatureBlock"} :
                    yielded' = Append(yielded, [frame |-> FramesFound + 1, result |-> r])
<1> DEFINE w == FramesFound
           i == w + 1
           g == data[i]
<1>1. /\ w \in Nat /\ data \in Seq(FrameType) /\ present \in Int /\ pos = OffsetIn(data, i)
      /\ OffsetIn(data, w + 1) <= present
  BY PlaceIs DEF Laid, LaidOut, Reading
<1>2. L!R!f = g
  BY DEF L!R!f
<1>3. CASE Len(data) = w
  <2>1. ~(frame < Len(data)) /\ ~L!R!At
    BY <1>1, <1>3 DEF L!R!At
  <2>2. L!R!EndOfStream
    BY <2>1 DEF L!R!next, L!R!IndexFails, L!R!Failed, L!R!Trailer, L!R!SignatureBlock,
       L!R!UnknownChannel, L!R!LengthField, L!R!ZeroLengthBlock, L!R!UnsupportedBlock, L!R!Payload,
       L!R!CrcFailed, L!R!SkippedByControl, L!R!DecodedBlock, L!R!ParseError, L!R!Read,
       L!R!Declared
  <2> QED
    BY <2>2 DEF L!R!EndOfStream, L!R!file
<1>4. CASE Len(data) = w + 1
  <2>1. g \in FrameType /\ i \in 1..Len(data) /\ i \in DOMAIN data
    BY <1>1, <1>4
  <2>2. /\ L!R!FrameSize(g) = 2 + L!R!Width(g) + g.length
        /\ L!R!Width(g) \in {2, 4} /\ g.length \in Nat /\ L!R!FrameSize(g) \in Nat
    <3> HIDE DEF g
    <3> QED
      BY <2>1, FrameSizes
  <2>3. /\ pos \in Int
        /\ present < pos + L!R!FrameSize(g) \/ g.index \notin 0..(N - 1)
        /\ g.index \notin 0..(N - 1) => rotten < resumed
    <3>1. OffsetIn(data, i) \in Int /\ OffsetIn(data, i + 1) = OffsetIn(data, i) + L!R!FrameSize(g)
      <4> HIDE DEF i
      <4> QED
        BY <1>1, <2>1, Offsets
    <3>2. i + 1 = w + 2
      BY <1>1
    <3>3. /\ present < OffsetIn(data, w + 2) \/ g.index \notin 0..(N - 1)
          /\ g.index \notin 0..(N - 1) => rotten < resumed
      BY <1>1, <1>4 DEF Laid, LaidOut
    <3> QED
      BY <1>1, <3>1, <3>2, <3>3
  <2> HIDE DEF g
  <2>4. CASE L!R!EndOfStream
    BY <2>4 DEF L!R!EndOfStream, L!R!file
  <2>5. CASE L!R!Trailer
    BY <2>5 DEF L!R!Trailer, L!R!Failed, L!R!file
  <2>6. CASE L!R!SignatureBlock
    <3>1. g.index = SignatureIndex
      BY <1>2, <2>6 DEF L!R!SignatureBlock, L!R!IsSignature
    <3>2. CASE L!R!Has(L!R!FrameSize(L!R!f)) /\ L!R!Skip("SignatureBlock", L!R!FrameSize(L!R!f))
      <4>1. ~(present < pos + L!R!FrameSize(g))
        BY <1>1, <1>2, <2>2, <2>3, <3>2 DEF L!R!Has
      <4> QED
        BY <2>1, <2>3, <3>2, <4>1 DEF L!R!Skip, L!R!Yield, L!R!Item, L!R!file, g
    <3>3. CASE \E counted : L!R!Truncated(counted)
      BY <3>3 DEF L!R!Truncated, L!R!file
    <3> QED
      BY <2>6, <3>2, <3>3 DEF L!R!SignatureBlock, L!R!Failed
  <2>7. CASE L!R!UnknownChannel
    <3>1. g.index \notin 0..(N - 1) /\ Len(data) = w + 1
      BY <1>2, <1>4, <2>7, DeclaredIndices DEF L!R!UnknownChannel
    <3> QED
      BY <2>1, <2>3, <2>7, <3>1 DEF L!R!UnknownChannel, L!R!Yield, L!R!Item, L!R!file, g
  <2>8. ASSUME L!R!Declared
        PROVE  g.index \in 0..(N - 1) /\ ~L!R!Has(L!R!FrameSize(L!R!f)) /\ ~L!R!Unsupported
    <3>1. g.index \in 0..(N - 1)
      BY <1>2, <2>8, DeclaredIndices DEF L!R!Declared
    <3>2. present < pos + L!R!FrameSize(g)
      BY <2>3, <3>1
    <3>3. L!ChannelInfo[g.index].data_type = L!ReaderType(DataType(g.index))
          /\ DataType(g.index) \in L!A!DataTypes \ {"unsupported"}
      BY <3>1, DefinitionIs
    <3>4. L!ReaderType(DataType(g.index)) \in {"numeric", "gps", "string", "binary"}
      BY <3>3, WriterTypes
    <3> QED
      BY <1>1, <1>2, <2>2, <2>3, <3>1, <3>2, <3>3, <3>4 DEF L!R!Has, L!R!Unsupported
  <2>9. CASE L!R!LengthField \/ L!R!Payload
    <3>1. \E counted : L!R!Truncated(counted)
      BY <2>8, <2>9 DEF L!R!LengthField, L!R!Payload, L!R!Failed
    <3> QED
      BY <3>1 DEF L!R!Truncated, L!R!file
  <2>10. ~L!R!ZeroLengthBlock
    <3> SUFFICES ASSUME L!R!ZeroLengthBlock PROVE FALSE
      OBVIOUS
    <3>1. L!R!Declared /\ L!R!Has(L!R!Fields) /\ g.length = 0
      BY <1>2 DEF L!R!ZeroLengthBlock
    <3>2. L!R!Fields = L!R!FrameSize(L!R!f)
      BY <1>2, <2>2, <3>1 DEF L!R!Fields
    <3> QED
      BY <2>8, <3>1, <3>2
  <2>11. /\ ~L!R!UnsupportedBlock /\ ~L!R!CrcFailed /\ ~L!R!SkippedByControl
         /\ ~L!R!DecodedBlock /\ ~L!R!ParseError
    BY <2>8 DEF L!R!UnsupportedBlock, L!R!CrcFailed, L!R!SkippedByControl, L!R!DecodedBlock,
       L!R!ParseError, L!R!Read
  <2>12. ~L!R!IndexFails
    BY DEF L!R!IndexFails, L!R!Failed
  <2> QED
    BY <2>4, <2>5, <2>6, <2>7, <2>9, <2>10, <2>11, <2>12 DEF L!R!next
<1> QED
  BY <1>3, <1>4 DEF Laid, LaidOut

LEMMA NextCalls == L!R!next => finished = FALSE \/ finished \notin BOOLEAN
  BY DEF L!R!next, L!R!EndOfStream, L!R!IndexFails, L!R!Trailer, L!R!SignatureBlock,
     L!R!UnknownChannel, L!R!LengthField, L!R!ZeroLengthBlock, L!R!UnsupportedBlock, L!R!Payload,
     L!R!CrcFailed, L!R!SkippedByControl, L!R!DecodedBlock, L!R!ParseError, L!R!Read,
     L!R!Declared, L!R!At, L!R!Calls

\* The iterator goes on from frame to frame.
LEMMA ReadingStep ==
    ASSUME Laid, Reading, UNCHANGED <<vars, damage>>, ~finished, frame < FramesFound,
           NEW r \in {"data", "CrcFailed", "ZeroLengthBlock"}, Passes(r)
    PROVE  Reading' /\ Passed' = Passed + 1
<1>1. /\ frame \in Nat /\ FramesFound \in Nat /\ yielded \in Seq(Item)
      /\ finished = FALSE /\ adrift = FALSE
  BY PlaceIs DEF Reading
<1>2. FramesFound' = FramesFound
  BY DEF FramesFound, vars, disk, damage
<1>3. [frame |-> frame + 1, result |-> r] \in Item
  BY <1>1 DEF Item
<1>4. /\ pos' = OffsetIn(data, frame' + 1) /\ data' = data
      /\ frame' = frame + 1 /\ finished' = FALSE /\ adrift' = FALSE
  <2>1. pos + L!R!FrameSize(data[frame + 1]) = OffsetIn(data, frame + 2)
    BY FrameAt
  <2>2. (frame + 1) + 1 = frame + 2
    BY <1>1
  <2> QED
    BY <1>1, <2>1, <2>2 DEF Passes
<1>5. yielded' \in Seq(Item)
  BY <1>1, <1>3 DEF Passes
<1>6. OffsetIn(data, frame + 1)' = OffsetIn(data, frame' + 1)
  BY <1>4 DEF OffsetIn
<1>7. /\ (frame \in 0..(FramesFound + 1))' /\ (frame <= FramesFound)'
  BY <1>1, <1>2, <1>4
<1> QED
  BY <1>1, <1>4, <1>5, <1>6, <1>7 DEF Reading, Item, Passed

---------------------------------------------------------------------------
(* The builders: what they hold after the first m blocks. *)

BlockOf(i, ch) == i \notin Lost /\ file[i].index = ch

\* The samples of the blocks that continue lost ones.
Off == UNION {ValuesOf(i) : i \in {j \in DOMAIN file : Displaced(j)}}

\* These are the values of the channel's blocks, in order.
Holds(ss, ch, m) ==
    /\ ss \in Seq(Nat)
    /\ \A j, k \in 1..Len(ss) : j < k => ss[j] < ss[k]
    /\ \A k \in 1..Len(ss) : \E i \in 1..m : BlockOf(i, ch) /\ \E h : At(i, h, ss[k])
    /\ \A i \in 1..m : BlockOf(i, ch) =>
          \A h, v : At(i, h, v) => \E k \in 1..Len(ss) : ss[k] = v

End(seg) == seg.start_index + seg.sample_count

\* The segments lie end to end over n samples.
Covers(sg, n) ==
    /\ sg \in Seq(L!A!Segment) /\ sg # <<>>
    /\ \A k \in 1..Len(sg) : /\ sg[k].start_index = IF k = 1 THEN 0 ELSE End(sg[k - 1])
                             /\ sg[k].sample_count > 0 /\ End(sg[k]) <= n
    /\ End(sg[Len(sg)]) = n

\* Sample v was meant for this time.
Meets(v, time, period) == told[v].time = time /\ told[v].period = period

\* The samples of a segment were meant to be where the segment has them, but for those
\* that are off the grid.
OnGrid(ss, seg, off) ==
    /\ seg.start <= MaxTime
    /\ \A i \in 1..seg.sample_count : ss[seg.start_index + i] \notin off =>
          Meets(ss[seg.start_index + i], seg.start + (i - 1) * seg.period, seg.period)

Stamped(ss, ts) ==
    /\ ts \in Seq(Int) /\ Len(ts) = Len(ss)
    /\ \A k \in 1..Len(ss) : ts[k] <= MaxTime /\ told[ss[k]].time = ts[k]

Gridded(ss, sg, off) ==
    Covers(sg, Len(ss)) /\ \A k \in 1..Len(sg) : OnGrid(ss, sg[k], off)

Timed(state_, ss, sg, ts, off) ==
    IF state_ = "Equidistant" THEN Gridded(ss, sg, off)
                              ELSE sg = <<>> /\ Stamped(ss, ts)

\* The storage is the one for the datatype, and for the calls the writer has locked
\* the channel to.
Agrees(state_, ss, ch) ==
    /\ state_ \in {"Variable", "Pending", "Equidistant", "Timestamped"}
    /\ state_ = "Variable" <=> DataType(ch) \in L!A!VariableTypes
    /\ state_ = "Pending" => ss = <<>>
    /\ state_ \in {"Equidistant", "Timestamped"} => channels[ch + 1].kindLock = state_

BuilderFields == {"data_type", "state", "samples", "segments", "timestamps_ns",
                  "last_timestamp_ns"}

Shape(c) == c = [x \in BuilderFields |-> c[x]]

\* What a builder holds for a channel after the first m blocks.
Kept(state_, ss, sg, ts, ch, m) ==
    /\ Holds(ss, ch, m)
    /\ Agrees(state_, ss, ch)
    /\ Timed(state_, ss, sg, ts, Off)

BuilderIs(c, ch, m) ==
    /\ Shape(c)
    /\ c.data_type = DataType(ch)
    /\ Kept(c.state, c.samples, c.segments, c.timestamps_ns, ch, m)

AssembledIn(bs, m) ==
    /\ DOMAIN bs = 0..(N - 1)
    /\ \A ch \in 0..(N - 1) : BuilderIs(bs[ch], ch, m)

Assembled(m) == AssembledIn(builders, m)

\* What a sequence of two parts is, element by element.
Parts(S, t, s, r) ==
    /\ t \in Seq(S) /\ Len(s) \in Nat /\ Len(r) \in Nat
    /\ Len(t) = Len(s) + Len(r)
    /\ \A k \in 1..Len(s) : t[k] = s[k]
    /\ \A k \in 1..Len(r) : t[Len(s) + k] = r[k]

LEMMA PartsAre ==
    ASSUME NEW S, NEW s \in Seq(S), NEW r \in Seq(S), NEW t, IsJoin(t, s, r)
    PROVE  Parts(S, t, s, r)
  BY Joined DEF Parts

\* A sample a builder holds was handed over for its channel, and is in the first m blocks.
LEMMA HeldIs ==
    ASSUME Left, NEW m \in 0..Len(file), NEW ch, NEW ss, Holds(ss, ch, m), NEW k \in 1..Len(ss)
    PROVE  /\ ss[k] \in DOMAIN told /\ told[ss[k]] \in Sample /\ told[ss[k]].index = ch
           /\ ss[k] \in Nat /\ ss[k] <= ValueAt(file, m)
<1>1. PICK i \in 1..m : BlockOf(i, ch) /\ \E h : At(i, h, ss[k])
  BY DEF Holds
<1>2. PICK h : At(i, h, ss[k])
  BY <1>1
<1>3. /\ ss[k] \in DOMAIN told /\ told[ss[k]] \in Sample /\ told[ss[k]].index = file[i].index
      /\ ss[k] \in Nat /\ ss[k] <= ValueAt(file, i)
  BY <1>2, ValueIsTold
<1>4. Len(file) \in Nat
  BY Lengths DEF Left, Written, IInv
<1>5. /\ ValueAt(file, i) \in Nat /\ ValueAt(file, m) \in Nat
      /\ ValueAt(file, i) <= ValueAt(file, m)
  BY <1>4 DEF Left, Written, Ordered
<1> QED
  BY <1>1, <1>3, <1>5 DEF BlockOf

\* What has been handed over for a channel and is in the first m blocks, is in one of
\* them, and is held unless that is lost.
LEMMA ToldIsHeld ==
    ASSUME Left, NEW m \in 0..Len(file), NEW ch, NEW ss, Holds(ss, ch, m),
           NEW v \in DOMAIN told, told[v].index = ch, v <= ValueAt(file, m)
    PROVE  \E i \in 1..m : /\ file[i].index = ch /\ \E h : At(i, h, v)
                           /\ i \in Lost \/ \E k \in 1..Len(ss) : ss[k] = v
<1>1. Len(file) \in Nat
  BY Lengths DEF Left, Written, IInv
<1>2. v \in 1..ValueAt(file, m)
  <2>1. ValueAt(file, m) \in Nat
    BY <1>1 DEF Left, Written, Ordered
  <2>2. DOMAIN told = 1..Len(told) /\ Len(told) \in Nat
    <3>1. told \in Seq(Sample)
      BY DEF Left, Written, Meaning
    <3> QED
      BY <3>1
  <2> QED
    BY <2>1, <2>2
<1>3. PICK i \in 1..m : \E h : At(i, h, v)
  BY <1>1, <1>2, ValueIsIn
<1>4. PICK h : At(i, h, v)
  BY <1>3
<1>5. file[i].index = ch
  BY <1>1, <1>4, ValueIsTold
<1>6. i \notin Lost => BlockOf(i, ch)
  BY <1>5 DEF BlockOf
<1>7. i \notin Lost => \E k \in 1..Len(ss) : ss[k] = v
  BY <1>4, <1>6 DEF Holds
<1> QED
  BY <1>4, <1>5, <1>7

\* One more block of the channel.
LEMMA HoldsMore ==
    ASSUME Left, NEW m \in 0..(Len(file) - 1), NEW ch, BlockOf(m + 1, ch),
           NEW ss, Holds(ss, ch, m)
    PROVE  Holds(ss \o file[m + 1].values, ch, m + 1)
<1> DEFINE i == m + 1
           vs == file[i].values
           t == ss \o vs
           a == Len(ss)
           b == Len(vs)
           e == ValueAt(file, m)
<1>1. Len(file) \in Nat
  BY Lengths DEF Left, Written, IInv
<1>2. i \in 1..Len(file) /\ i - 1 = m /\ m \in Nat
  BY <1>1
<1>3. /\ e \in Nat /\ b \in Nat /\ DOMAIN vs = 1..b
      /\ \A k \in 1..b : vs[k] = k + e
      /\ vs \in Seq(Nat)
  <2> HIDE DEF i
  <2> QED
    BY <1>2, ValuesAre, BlockIs
<1>4. ss \in Seq(Nat)
  BY DEF Holds
<1> HIDE DEF vs, i
<1>5. /\ t \in Seq(Nat) /\ a \in Nat /\ Len(t) = a + b
      /\ \A k \in 1..a : t[k] = ss[k]
      /\ \A k \in 1..b : t[a + k] = vs[k]
      /\ \A k \in 1..(a + b) : k \in 1..a \/ \E h \in 1..b : k = a + h
  <2>1. IsJoin(t, ss, vs)
    BY DEF IsJoin
  <2> HIDE DEF t
  <2>2. Parts(Nat, t, ss, vs)
    BY <1>3, <1>4, <2>1, PartsAre
  <2>3. /\ t \in Seq(Nat) /\ a \in Nat /\ Len(t) = a + b
        /\ \A k \in 1..a : t[k] = ss[k]
        /\ \A k \in 1..b : t[a + k] = vs[k]
    BY <2>2 DEF Parts
  <2> HIDE DEF a, b
  <2>4. ASSUME NEW k \in 1..(a + b), k \notin 1..a
        PROVE  \E h \in 1..b : k = a + h
    <3>1. k - a \in 1..b /\ k = a + (k - a)
      BY <1>3, <2>3, <2>4
    <3> QED
      BY <3>1
  <2> QED
    BY <2>3, <2>4
<1>6. \A k \in 1..a : ss[k] \in Nat /\ ss[k] <= e
  <2>1. m \in 0..Len(file)
    BY <1>1
  <2> QED
    BY <2>1, HeldIs
<1> HIDE DEF t, a, b, e
<1>7. ASSUME NEW j \in 1..(a + b), NEW k \in 1..(a + b), j < k
      PROVE  t[j] < t[k]
  <2>1. CASE j \in 1..a /\ k \in 1..a
    BY <1>5, <1>7, <2>1 DEF Holds, a
  <2>2. CASE j \in 1..a /\ k \notin 1..a
    <3>1. PICK h \in 1..b : k = a + h
      BY <1>5, <2>2
    <3>2. t[k] = h + e /\ t[j] <= e /\ t[j] \in Nat
      BY <1>3, <1>5, <1>6, <2>2, <3>1
    <3> QED
      BY <1>3, <3>2
  <2>3. CASE j \notin 1..a
    <3>1. PICK g \in 1..b : j = a + g
      BY <1>5, <2>3
    <3>2. k \notin 1..a
      BY <1>5, <1>7, <2>3
    <3>3. PICK h \in 1..b : k = a + h
      BY <1>5, <3>2
    <3>4. t[j] = g + e /\ t[k] = h + e
      BY <1>3, <1>5, <3>1, <3>3
    <3> QED
      BY <1>3, <1>5, <1>7, <3>1, <3>3, <3>4
  <2> QED
    BY <2>1, <2>2, <2>3
<1>8. ASSUME NEW k \in 1..(a + b)
      PROVE  \E x \in 1..i : BlockOf(x, ch) /\ \E h : At(x, h, t[k])
  <2>1. CASE k \in 1..a
    <3>1. \E x \in 1..m : BlockOf(x, ch) /\ \E h : At(x, h, ss[k])
      BY <2>1 DEF Holds, a
    <3>2. \A x \in 1..m : x \in 1..i
      BY <1>2
    <3> QED
      BY <1>5, <2>1, <3>1, <3>2
  <2>2. ASSUME NEW h \in 1..b, k = a + h
        PROVE  \E x \in 1..i : BlockOf(x, ch) /\ \E g : At(x, g, t[k])
    <3>1. At(i, h, t[k])
      BY <1>2, <1>3, <1>5, <2>2 DEF At, vs
    <3>2. BlockOf(i, ch) /\ i \in 1..i
      BY <1>2 DEF i
    <3> QED
      BY <3>1, <3>2
  <2> QED
    BY <1>5, <2>1, <2>2
<1>9. ASSUME NEW x \in 1..i, BlockOf(x, ch), NEW h, NEW v, At(x, h, v)
      PROVE  \E k \in 1..(a + b) : t[k] = v
  <2>1. CASE x \in 1..m
    <3>1. PICK k \in 1..a : ss[k] = v
      BY <1>9, <2>1 DEF Holds, a
    <3>2. k \in 1..(a + b)
      BY <1>3, <1>5
    <3> QED
      BY <1>5, <3>1, <3>2
  <2>2. CASE x = i
    <3>1. h \in 1..b /\ vs[h] = v
      BY <1>3, <1>9, <2>2 DEF At, vs
    <3>2. a + h \in 1..(a + b)
      BY <1>3, <1>5, <3>1
    <3> QED
      BY <1>5, <3>1, <3>2
  <2> QED
    BY <1>2, <2>1, <2>2 DEF i
<1>10. Holds(t, ch, i)
  BY <1>5, <1>7, <1>8, <1>9 DEF Holds
<1> QED
  BY <1>10 DEF t, vs, i

\* Blocks of other channels, and lost ones, give nothing.
LEMMA HoldsStill ==
    ASSUME NEW m \in Nat, NEW q \in Nat, m <= q, NEW ch,
           \A i \in (m + 1)..q : ~BlockOf(i, ch), NEW ss, Holds(ss, ch, m)
    PROVE  Holds(ss, ch, q)
<1>1. \A i \in 1..q : i \in 1..m \/ ~BlockOf(i, ch)
  <2> SUFFICES ASSUME NEW i \in 1..q, i \notin 1..m PROVE ~BlockOf(i, ch)
    OBVIOUS
  <2>1. i \in (m + 1)..q
    OBVIOUS
  <2> QED
    BY <2>1
<1>2. \A i \in 1..m : i \in 1..q
  OBVIOUS
<1> QED
  BY <1>1, <1>2 DEF Holds

\* What is appended does not move the samples of a segment.
LEMMA OnGridStill ==
    ASSUME NEW ss \in Seq(Nat), NEW vs \in Seq(Nat), NEW t, IsJoin(t, ss, vs),
           NEW seg \in L!A!Segment, End(seg) <= Len(ss), NEW off, OnGrid(ss, seg, off)
    PROVE  OnGrid(t, seg, off)
<1>1. /\ seg.start_index \in Nat /\ seg.sample_count \in Nat
      /\ seg.start_index + seg.sample_count <= Len(ss) /\ Len(ss) \in Nat
  BY DEF L!A!Segment, End
<1>2. \A k \in 1..Len(ss) : t[k] = ss[k]
  BY Joined
<1>3. ASSUME NEW i \in 1..seg.sample_count
      PROVE  t[seg.start_index + i] = ss[seg.start_index + i]
  <2>1. seg.start_index + i \in 1..Len(ss)
    BY <1>1
  <2> QED
    BY <1>2, <2>1
<1> QED
  BY <1>3 DEF OnGrid

IsSegment(seg, start, period, index, count) ==
    seg = [start |-> start, period |-> period, start_index |-> index, sample_count |-> count]

LEMMA SegmentIs ==
    ASSUME NEW start \in Int, NEW period \in Nat, NEW index \in Nat, NEW count \in Nat,
           NEW seg, IsSegment(seg, start, period, index, count)
    PROVE  /\ seg \in L!A!Segment /\ seg.start = start /\ seg.period = period
           /\ seg.start_index = index /\ seg.sample_count = count
           /\ End(seg) = index + count
  BY DEF IsSegment, L!A!Segment, End

\* Samples of a channel, the first at this time.
Ticks(vs, start, period) ==
    \A k \in 1..Len(vs) : /\ told[vs[k]].time = start + (k - 1) * period
                         /\ told[vs[k]].period = period

LEMMA NotEmpty ==
    ASSUME NEW S, NEW q \in Seq(S), Len(q) > 0
    PROVE  q # <<>>
  OBVIOUS

\* A segment begins.
LEMMA StartGridded ==
    ASSUME NEW ss \in Seq(Nat), NEW vs \in Seq(Nat), Len(vs) > 0,
           NEW start \in Int, start <= MaxTime, NEW period \in Nat, Ticks(vs, start, period),
           NEW sg, NEW off,
           Gridded(ss, sg, off) \/ (ss = <<>> /\ sg = <<>>),
           NEW t, IsJoin(t, ss, vs),
           NEW seg, IsSegment(seg, start, period, Len(ss), Len(vs))
    PROVE  Gridded(t, Append(sg, seg), off)
<1> DEFINE a == Len(ss)
           b == Len(vs)
<1>1. a \in Nat /\ b \in Nat /\ b > 0
  OBVIOUS
<1>2. t \in Seq(Nat) /\ Len(t) = a + b
      /\ \A k \in 1..b : t[a + k] = vs[k]
  <2>1. Parts(Nat, t, ss, vs)
    BY PartsAre
  <2> QED
    BY <2>1 DEF Parts
<1> HIDE DEF b
<1>3. \A k \in 1..b : /\ told[vs[k]].time = start + (k - 1) * period
                      /\ told[vs[k]].period = period
  BY DEF Ticks, b
<1>4. /\ seg \in L!A!Segment /\ seg.start_index = a /\ seg.sample_count = b
      /\ seg.start = start /\ seg.period = period /\ End(seg) = a + b
  <2>1. IsSegment(seg, start, period, a, b)
    BY DEF b
  <2> HIDE DEF a
  <2> QED
    BY <1>1, <2>1, SegmentIs
<1>6. OnGrid(t, seg, off)
  <2>1. ASSUME NEW k \in 1..b
        PROVE  told[t[a + k]].time = start + (k - 1) * period /\ told[t[a + k]].period = period
    BY <1>2, <1>3
  <2> QED
    BY <1>4, <2>1 DEF OnGrid, Meets
<1>7. sg \in Seq(L!A!Segment)
  BY DEF Gridded, Covers
<1> DEFINE n == Len(sg)
           s2 == Append(sg, seg)
<1>8. /\ s2 \in Seq(L!A!Segment) /\ n \in Nat /\ Len(s2) = n + 1 /\ s2[n + 1] = seg
      /\ \A k \in 1..n : s2[k] = sg[k] /\ sg[k] \in L!A!Segment
  BY <1>4, <1>7
<1>9. n > 0 => Gridded(ss, sg, off)
  BY <1>8
<1>10. n = 0 => a = 0
  BY DEF Gridded, Covers
<1> HIDE DEF s2, a
<1>11. s2 # <<>>
  <2>1. Len(s2) > 0
    BY <1>8
  <2> QED
    BY <1>8, <2>1, NotEmpty
<1>12. ASSUME NEW k \in 1..n
       PROVE  /\ sg[k].start_index = IF k = 1 THEN 0 ELSE End(sg[k - 1])
              /\ sg[k].sample_count > 0 /\ End(sg[k]) <= a
              /\ OnGrid(t, sg[k], off) /\ End(sg[n]) = a
  <2>1. Gridded(ss, sg, off)
    BY <1>8, <1>9
  <2>2. OnGrid(ss, sg[k], off) /\ sg[k] \in L!A!Segment /\ End(sg[k]) <= Len(ss)
    BY <1>8, <2>1 DEF Gridded, Covers
  <2>3. OnGrid(t, sg[k], off)
    BY <2>2, OnGridStill
  <2> QED
    BY <2>1, <2>3 DEF Gridded, Covers, a
<1> HIDE DEF n
<1>13. End(seg) = a + b
  BY <1>4 DEF a
<1>14. ASSUME NEW k \in 1..(n + 1)
       PROVE  /\ s2[k].start_index = IF k = 1 THEN 0 ELSE End(s2[k - 1])
              /\ s2[k].sample_count > 0 /\ End(s2[k]) <= a + b
              /\ OnGrid(t, s2[k], off)
  <2>1. CASE k \in 1..n
    <3>1. /\ sg[k].start_index = IF k = 1 THEN 0 ELSE End(sg[k - 1])
          /\ sg[k].sample_count > 0 /\ End(sg[k]) <= a
          /\ OnGrid(t, sg[k], off)
      BY <1>12, <2>1
    <3>2. End(sg[k]) \in Int
      <4>1. sg[k] \in L!A!Segment
        BY <1>8, <2>1
      <4> QED
        BY <4>1 DEF End, L!A!Segment
    <3>3. k # 1 => k - 1 \in 1..n
      BY <1>8, <2>1
    <3>4. k # 1 => s2[k - 1] = sg[k - 1]
      BY <1>8, <3>3
    <3>5. s2[k] = sg[k]
      BY <1>8, <2>1
    <3>6. End(sg[k]) <= a + b
      BY <1>1, <3>1, <3>2 DEF a
    <3> QED
      BY <3>1, <3>4, <3>5, <3>6
  <2>2. CASE k = n + 1
    <3>1. s2[k] = seg
      BY <1>8, <2>2
    <3>2. seg.start_index = IF k = 1 THEN 0 ELSE End(s2[k - 1])
      <4>1. CASE n = 0
        BY <1>4, <1>10, <2>2, <4>1 DEF a
      <4>2. CASE n # 0
        <5>1. n \in 1..n /\ k - 1 = n /\ k # 1
          BY <1>8, <2>2, <4>2
        <5>2. End(sg[n]) = a /\ s2[n] = sg[n]
          BY <1>8, <1>12, <5>1
        <5> QED
          BY <1>4, <5>1, <5>2 DEF a
      <4> QED
        BY <4>1, <4>2
    <3> QED
      BY <1>1, <1>4, <1>6, <1>13, <3>1, <3>2 DEF a
  <2> QED
    BY <1>8, <2>1, <2>2
<1>15. Covers(s2, Len(t))
  BY <1>2, <1>8, <1>11, <1>13, <1>14 DEF Covers, a
<1>16. Gridded(t, s2, off)
  BY <1>8, <1>14, <1>15 DEF Gridded
<1> QED
  BY <1>16 DEF s2

\* Nothing of a segment is lost behind a block, if nothing of it is lost before block i
\* and the block holds the sample that was handed over before.
LEMMA NotBehindLost ==
    ASSUME Left, NEW i \in 1..Len(file), file[i].kind = "ContinuedData", ~Displaced(i),
           NEW j \in 1..(i - 1), file[j].index = file[i].index, NEW h, NEW u, At(j, h, u),
           \A x \in DOMAIN told : told[x].index = file[i].index =>
                                    x <= u \/ file[i].values[1] <= x
    PROVE  j \notin Lost /\ ~Displaced(j)
<1> DEFINE ch == file[i].index
           e == ValueAt(file, i - 1)
<1>1. Len(file) \in Nat /\ DOMAIN file = 1..Len(file) /\ i \in Nat /\ j \in Nat
  BY Lengths DEF Left, Written, IInv
<1>2. j \in 1..Len(file) /\ j < i
  BY <1>1
<1>3. file[i].values[1] = 1 + e /\ e \in Nat
  <2>1. Len(file[i].values) \in Nat /\ Len(file[i].values) > 0
    BY ValuesAre
  <2>2. 1 \in 1..Len(file[i].values)
    BY <2>1
  <2> QED
    BY <2>2, ValuesAre
<1>4. ASSUME NEW x \in (j + 1)..(i - 1)
      PROVE  ~(file[x].index = ch /\ file[x].kind = "StartData")
  <2> SUFFICES ASSUME file[x].index = ch PROVE FALSE
    OBVIOUS
  <2> DEFINE w == file[x].values[1]
  <2>1. x \in 1..Len(file) /\ x \in Nat /\ j <= x - 1 /\ x <= i - 1
        /\ x - 1 \in 0..Len(file) /\ i - 1 \in 0..Len(file) /\ j \in 0..Len(file)
        /\ x \in 0..Len(file)
    BY <1>1, <1>2
  <2>2. 1 \in DOMAIN file[x].values
    <3>1. /\ Len(file[x].values) \in Nat /\ Len(file[x].values) > 0
          /\ DOMAIN file[x].values = 1..Len(file[x].values)
      BY <2>1, ValuesAre
    <3> QED
      BY <3>1
  <2>3. At(x, 1, w)
    BY <2>1, <2>2 DEF At
  <2> HIDE DEF w
  <2>4. /\ w \in DOMAIN told /\ told[w].index = ch
        /\ w \in Nat /\ w <= ValueAt(file, x) /\ ValueAt(file, x - 1) < w
    BY <2>3, ValueIsTold
  <2>5. u \in Nat /\ u <= ValueAt(file, j)
    BY ValueIsTold
  <2>6. /\ ValueAt(file, j) \in Nat /\ ValueAt(file, x - 1) \in Nat /\ ValueAt(file, x) \in Nat
        /\ ValueAt(file, j) <= ValueAt(file, x - 1) /\ ValueAt(file, x) <= e
    BY <2>1 DEF Left, Written, Ordered
  <2> HIDE DEF e
  <2>7. ~(w <= u) /\ ~(1 + e <= w)
    BY <1>3, <2>4, <2>5, <2>6
  <2> QED
    BY <1>3, <2>4, <2>7
<1>5. j \notin Lost
  BY <1>2, <1>4 DEF Displaced
<1>6. ASSUME Displaced(j)
      PROVE  FALSE
  <2>1. PICK l \in Lost : /\ l < j /\ file[l].index = ch
                          /\ \A x \in (l + 1)..(j - 1) :
                                ~(file[x].index = ch /\ file[x].kind = "StartData")
    BY <1>6 DEF Displaced
  <2>2. file[j].kind # "StartData"
    BY <1>6 DEF Displaced
  <2>3. l \in Int
    BY DEF Lost
  <2>4. ASSUME NEW x \in (l + 1)..(i - 1)
        PROVE  ~(file[x].index = ch /\ file[x].kind = "StartData")
    <3>1. x \in (l + 1)..(j - 1) \/ x = j \/ x \in (j + 1)..(i - 1)
      BY <1>1, <2>3
    <3> QED
      BY <1>4, <2>1, <2>2, <3>1
  <2>5. l < i
    BY <1>1, <1>2, <2>1, <2>3
  <2> QED
    BY <2>1, <2>4, <2>5 DEF Displaced
<1> QED
  BY <1>5, <1>6

\* The sample is in one block only.
LEMMA InOneBlock ==
    ASSUME Left, NEW i, NEW j, NEW h, NEW g, NEW v, At(i, h, v), At(j, g, v)
    PROVE  i = j
<1>1. /\ i \in 1..Len(file) /\ j \in 1..Len(file)
      /\ v \in Nat /\ v <= ValueAt(file, i) /\ ValueAt(file, i - 1) < v
      /\ v <= ValueAt(file, j) /\ ValueAt(file, j - 1) < v
  BY ValueIsTold DEF At
<1>2. Len(file) \in Nat
  BY Lengths DEF Left, Written, IInv
<1>3. \A x \in 0..Len(file) : ValueAt(file, x) \in Nat
  BY DEF Left, Written, Ordered
<1>4. \A x, y \in 0..Len(file) : x <= y => ValueAt(file, x) <= ValueAt(file, y)
  BY DEF Left, Written, Ordered
<1>5. i \in 0..Len(file) /\ j \in 0..Len(file) /\ i - 1 \in 0..Len(file) /\ j - 1 \in 0..Len(file)
  BY <1>1, <1>2
<1>6. ~(i <= j - 1)
  BY <1>1, <1>3, <1>4, <1>5
<1>7. ~(j <= i - 1)
  BY <1>1, <1>3, <1>4, <1>5
<1> QED
  BY <1>1, <1>2, <1>6, <1>7

\* The samples that are off belong to displaced blocks.
LEMMA OffAre ==
    ASSUME NEW v, v \in Off
    PROVE  \E i \in DOMAIN file : Displaced(i) /\ \E h : At(i, h, v)
  BY DEF Off, ValuesOf, At

\* A block that continues a segment, unless one of the segment is lost.
LEMMA ContinuesOnGrid ==
    ASSUME Left, NEW m \in 0..(Len(file) - 1), NEW ch, BlockOf(m + 1, ch), ~Displaced(m + 1),
           file[m + 1].kind = "ContinuedData", NEW ss, Holds(ss, ch, m), Len(ss) > 0
    PROVE  LET last == told[ss[Len(ss)]]
           IN  /\ last.time \in Int /\ last.period \in Nat
               /\ ss[Len(ss)] \notin Off
               /\ \A h \in 1..Len(file[m + 1].values) :
                     /\ told[file[m + 1].values[h]].time = last.time + h * last.period
                     /\ told[file[m + 1].values[h]].period = last.period
<1> DEFINE i == m + 1
           vs == file[i].values
           a == Len(ss)
           w == ss[a]
           e == ValueAt(file, m)
<1>1. Left /\ Len(file) \in Nat
  BY Lengths DEF Left, Written, IInv
<1>2. i \in 1..Len(file) /\ i - 1 = m /\ m \in 0..Len(file)
  BY <1>1
<1>3. /\ e \in Nat /\ Len(vs) \in Nat /\ Len(vs) > 0 /\ DOMAIN vs = 1..Len(vs)
      /\ \A k \in 1..Len(vs) : vs[k] = k + e
  <2> HIDE DEF i
  <2> QED
    BY <1>1, <1>2, ValuesAre
<1>4. Means(told, "ContinuedData", ch, file[i].start, file[i].period, file[i].times, vs)
  <2> HIDE DEF i
  <2>1. file[i].kind = "ContinuedData" /\ file[i].index = ch
    BY DEF BlockOf, i
  <2> QED
    BY <1>1, <1>2, <2>1 DEF Left, Written, Meaning, BlockMeans
<1>5. ss \in Seq(Nat) /\ a \in Nat /\ a \in 1..a
  <2>1. ss \in Seq(Nat)
    BY DEF Holds
  <2> QED
    BY <2>1
<1> HIDE DEF i, vs, e, a
<1>6. w \in DOMAIN told /\ told[w] \in Sample /\ told[w].index = ch /\ w \in Nat /\ w <= e
  BY <1>1, <1>2, <1>5, HeldIs DEF a, e
<1>7. vs # <<>> /\ vs[1] = e + 1
  BY <1>3
<1>8. PICK u \in DOMAIN told :
             /\ told[u].index = ch /\ u < vs[1]
             /\ \A x \in DOMAIN told : told[x].index = ch => x <= u \/ vs[1] <= x
             /\ \A k \in DOMAIN vs :
                   Is(told, vs[k], ch, told[u].time + k * told[u].period, told[u].period)
  BY <1>4, <1>7 DEF Means
<1>9. u \in Nat
  <2>1. told \in Seq(Sample)
    BY <1>1 DEF Left, Written, Meaning
  <2> QED
    BY <2>1
<1>10. u <= e
  BY <1>3, <1>7, <1>8, <1>9
<1>17. file[i].kind = "ContinuedData" /\ ~Displaced(i) /\ file[i].index = ch
  BY DEF BlockOf, i
<1>18. PICK j \in 1..m : /\ file[j].index = ch /\ \E h : At(j, h, u)
                         /\ j \in Lost \/ \E k \in 1..Len(ss) : ss[k] = u
  BY <1>1, <1>2, <1>8, <1>10, ToldIsHeld DEF e
<1>19. j \in 1..(i - 1)
  BY <1>2, <1>18
<1>20. PICK g : At(j, g, u)
  BY <1>18
<1>21. j \notin Lost /\ ~Displaced(j)
  <2>1. \A x \in DOMAIN told : told[x].index = file[i].index => x <= u \/ file[i].values[1] <= x
    BY <1>8, <1>17 DEF vs
  <2> QED
    BY <1>1, <1>2, <1>17, <1>18, <1>19, <1>20, <2>1, NotBehindLost
<1>11. PICK k \in 1..a : ss[k] = u
  BY <1>18, <1>21 DEF a
<1>12. u <= w
  <2>1. CASE k = a
    BY <1>6, <1>11, <2>1
  <2>2. CASE k # a
    <3>1. k < a
      BY <1>5, <2>2
    <3>2. ss[k] < ss[a]
      BY <1>5, <3>1 DEF Holds, a
    <3> QED
      BY <1>6, <1>9, <1>11, <3>2
  <2> QED
    BY <2>1, <2>2
<1>13. w <= u
  BY <1>3, <1>6, <1>7, <1>8
<1>14. u = w
  BY <1>6, <1>9, <1>12, <1>13
<1>15. told[w].time \in Int /\ told[w].period \in Nat
  BY <1>6 DEF Sample
<1>16. \A h \in 1..Len(vs) : /\ told[vs[h]].time = told[w].time + h * told[w].period
                             /\ told[vs[h]].period = told[w].period
  <2> SUFFICES ASSUME NEW h \in 1..Len(vs)
               PROVE  /\ told[vs[h]].time = told[w].time + h * told[w].period
                      /\ told[vs[h]].period = told[w].period
    OBVIOUS
  <2> DEFINE time == told[w].time
             period == told[w].period
  <2>1. Is(told, vs[h], ch, time + h * period, period)
    BY <1>3, <1>8, <1>14
  <2> HIDE DEF time, period
  <2>2. told[vs[h]].time = time + h * period /\ told[vs[h]].period = period
    BY <2>1 DEF Is
  <2> QED
    BY <2>2 DEF time, period
<1>22. w \notin Off
  <2> SUFFICES ASSUME u \in Off PROVE FALSE
    BY <1>14
  <2>1. PICK x \in DOMAIN file : Displaced(x) /\ \E h : At(x, h, u)
    BY OffAre
  <2>2. x = j
    BY <1>1, <1>20, <2>1, InOneBlock
  <2> QED
    BY <1>21, <2>1, <2>2
<1> QED
  BY <1>15, <1>16, <1>22 DEF a, vs, i


\* A segment with more samples.
Longer(x, y, more) ==
    /\ x.start = y.start /\ x.period = y.period /\ x.start_index = y.start_index
    /\ x.sample_count = y.sample_count + more

\* The last segment is longer.
Grown(s2, sg, more) ==
    /\ Len(s2) = Len(sg)
    /\ \A k \in 1..(Len(sg) - 1) : s2[k] = sg[k]
    /\ Longer(s2[Len(sg)], sg[Len(sg)], more)

\* Samples of a channel, behind one of this time.
Follow(vs, time, period) ==
    \A h \in 1..Len(vs) : /\ told[vs[h]].time = time + h * period
                          /\ told[vs[h]].period = period

\* The last of these samples was meant for this time.
LastIs(ss, time, period) ==
    time = told[ss[Len(ss)]].time /\ period = told[ss[Len(ss)]].period

\* Samples of which none is on the grid, or all go on from the last of those before.
GoesOn(ss, vs, off, time, period) ==
    \/ \A h \in 1..Len(vs) : vs[h] \in off
    \/ ss[Len(ss)] \notin off /\ Follow(vs, time, period)

\* The segment is not empty, and its samples end at number n.
EndsAt(seg, n) == seg.sample_count > 0 /\ End(seg) = n

\* The last segment goes on.
LEMMA OnGridMore ==
    ASSUME NEW ss \in Seq(Nat), NEW vs \in Seq(Nat), NEW t, IsJoin(t, ss, vs),
           NEW x \in L!A!Segment, NEW y \in L!A!Segment, Longer(x, y, Len(vs)),
           EndsAt(y, Len(ss)), NEW off, OnGrid(ss, y, off),
           NEW time \in Int, NEW period \in Nat, LastIs(ss, time, period),
           GoesOn(ss, vs, off, time, period)
    PROVE  OnGrid(t, x, off)
<1> DEFINE a == Len(ss)
           b == Len(vs)
           c == y.sample_count
           z == y.start_index
           start == y.start
           p == y.period
<1>1. /\ a \in Nat /\ b \in Nat
      /\ \A k \in 1..a : t[k] = ss[k]
      /\ \A k \in 1..b : t[a + k] = vs[k]
  <2>1. Parts(Nat, t, ss, vs)
    BY PartsAre
  <2> QED
    BY <2>1 DEF Parts
<1>2. /\ c \in Nat /\ c > 0 /\ z \in Nat /\ z + c = a /\ start \in Int /\ p \in Nat
  BY DEF L!A!Segment, End, EndsAt
<1>3. x.start = start /\ x.period = p /\ x.start_index = z /\ x.sample_count = c + b
  BY DEF Longer
<1>4. start <= MaxTime
  BY DEF OnGrid
<1> DEFINE Good(i) == t[z + i] \notin off => Meets(t[z + i], start + (i - 1) * p, p)
<1>5. ASSUME NEW i \in 1..c
      PROVE  Good(i)
  <2>1. t[z + i] = ss[z + i]
    <3>1. z + i \in 1..a
      <4> HIDE DEF a, c, z
      <4> QED
        BY <1>2, <1>5
    <3> QED
      BY <1>1, <3>1
  <2>2. ss[z + i] \notin off => Meets(ss[z + i], start + (i - 1) * p, p)
    BY <1>5 DEF OnGrid
  <2> QED
    BY <2>1, <2>2
<1>6. ASSUME NEW h \in 1..b
      PROVE  Good(c + h)
  <2> SUFFICES ASSUME t[z + (c + h)] \notin off
               PROVE  Meets(t[z + (c + h)], start + ((c + h) - 1) * p, p)
    OBVIOUS
  <2>1. t[z + (c + h)] = vs[h]
    <3>1. z + (c + h) = a + h
      <4>1. h \in Nat
        BY <1>1
      <4> HIDE DEF a, b, c, z
      <4> QED
        BY <1>2, <4>1
    <3> QED
      BY <1>1, <3>1
  <2>2. ss[a] \notin off /\ Follow(vs, time, period)
    BY <2>1 DEF GoesOn
  <2>3. Meets(ss[a], start + (c - 1) * p, p)
    <3>1. c \in 1..c /\ z + c = a
      BY <1>2
    <3>2. ss[z + c] \notin off => Meets(ss[z + c], start + (c - 1) * p, p)
      BY <3>1 DEF OnGrid
    <3> QED
      BY <2>2, <3>1, <3>2
  <2>4. time = start + (c - 1) * p /\ period = p
    BY <2>3 DEF LastIs, Meets
  <2>5. told[vs[h]].time = time + h * period /\ told[vs[h]].period = period
    BY <2>2 DEF Follow
  <2> HIDE DEF a, b, c, z, start, p
  <2>6. time + h * p = start + ((c + h) - 1) * p
    <3>1. h \in Nat
      BY <1>1
    <3>2. (c - 1) * p + h * p = ((c + h) - 1) * p
      BY <1>2, <3>1
    <3>3. (c - 1) * p \in Int /\ h * p \in Int
      BY <1>2, <3>1
    <3> QED
      BY <1>2, <2>4, <3>2, <3>3
  <2> QED
    BY <2>1, <2>4, <2>5, <2>6 DEF Meets
<1> HIDE DEF Good
<1>7. ASSUME NEW i \in 1..(c + b)
      PROVE  Good(i)
  <2>1. CASE i \in 1..c
    BY <1>5, <2>1
  <2>2. CASE i \notin 1..c
    <3> DEFINE h == i - c
    <3>1. h \in 1..b /\ c + h = i
      <4> HIDE DEF a, b, c, z, start, p
      <4> QED
        BY <1>1, <1>2, <2>2
    <3> HIDE DEF h
    <3> QED
      BY <1>6, <3>1
  <2> QED
    BY <2>1, <2>2
<1> QED
  BY <1>3, <1>4, <1>7 DEF OnGrid, Good

LEMMA ContinuedGridded ==
    ASSUME NEW ss \in Seq(Nat), NEW vs \in Seq(Nat), Len(vs) > 0, NEW t, IsJoin(t, ss, vs),
           NEW sg, NEW off, Gridded(ss, sg, off),
           NEW s2 \in Seq(L!A!Segment), Grown(s2, sg, Len(vs)),
           NEW time \in Int, NEW period \in Nat, LastIs(ss, time, period),
           GoesOn(ss, vs, off, time, period)
    PROVE  Gridded(t, s2, off)
<1> DEFINE a == Len(ss)
           b == Len(vs)
           n == Len(sg)
<1>1. a \in Nat /\ b \in Nat /\ b > 0 /\ Len(t) = a + b
  BY Joined
<1>2. sg \in Seq(L!A!Segment) /\ sg # <<>>
  BY DEF Gridded, Covers
<1>3. n \in Nat /\ n > 0 /\ \A k \in 1..n : sg[k] \in L!A!Segment
  BY <1>2
<1>4. /\ Len(s2) = n /\ \A k \in 1..(n - 1) : s2[k] = sg[k]
      /\ Longer(s2[n], sg[n], b)
  BY DEF Grown
<1>5. s2[n] \in L!A!Segment
  BY <1>3, <1>4
<1>6. \A k \in 1..n : /\ sg[k].start_index = IF k = 1 THEN 0 ELSE End(sg[k - 1])
                      /\ sg[k].sample_count > 0 /\ End(sg[k]) <= a
                      /\ OnGrid(ss, sg[k], off)
  BY DEF Gridded, Covers
<1>7. End(sg[n]) = a
  BY DEF Gridded, Covers
<1>8. s2 # <<>>
  <2>1. Len(s2) > 0
    BY <1>3, <1>4
  <2> QED
    BY <2>1, NotEmpty
<1>9. OnGrid(t, s2[n], off)
  <2> DEFINE x == s2[n]
             y == sg[n]
  <2>1. /\ x \in L!A!Segment /\ y \in L!A!Segment /\ Longer(x, y, Len(vs))
        /\ EndsAt(y, Len(ss)) /\ OnGrid(ss, y, off)
    BY <1>3, <1>4, <1>5, <1>6, <1>7 DEF EndsAt
  <2> HIDE DEF x, y
  <2>2. OnGrid(t, x, off)
    BY <2>1, OnGridMore
  <2> QED
    BY <2>2 DEF x
<1>10. /\ s2[n].start_index = sg[n].start_index /\ End(s2[n]) = a + b
       /\ s2[n].sample_count > 0
  <2>1. /\ s2[n].start_index = sg[n].start_index
        /\ s2[n].sample_count = sg[n].sample_count + b
    BY <1>4 DEF Longer
  <2> HIDE DEF a, b, n
  <2>2. sg[n] \in L!A!Segment /\ sg[n].sample_count > 0 /\ End(sg[n]) = a
    <3>1. n \in 1..n
      BY <1>3
    <3> QED
      BY <1>3, <1>6, <1>7, <3>1
  <2>3. sg[n].sample_count \in Nat /\ sg[n].start_index \in Nat
        /\ sg[n].start_index + sg[n].sample_count = a
    BY <2>2 DEF L!A!Segment, End
  <2> DEFINE u == sg[n].sample_count
             z == sg[n].start_index
  <2>4. End(s2[n]) = z + (u + b)
    BY <2>1 DEF End
  <2>5. u \in Nat /\ z \in Nat /\ z + u = a /\ u > 0 /\ a \in Nat /\ b \in Nat
    BY <1>1, <2>2, <2>3
  <2>6. s2[n].start_index = z /\ s2[n].sample_count = u + b
    BY <2>1
  <2> HIDE DEF u, z
  <2>7. z + (u + b) = a + b /\ u + b > 0
    BY <2>5
  <2> QED
    BY <2>4, <2>6, <2>7 DEF z
<1>11. ASSUME NEW k \in 1..(n - 1)
       PROVE  k \in 1..n /\ OnGrid(t, sg[k], off) /\ End(sg[k]) <= a + b
  <2>1. k \in 1..n
    BY <1>3
  <2>2. OnGrid(ss, sg[k], off) /\ sg[k] \in L!A!Segment /\ End(sg[k]) <= Len(ss)
    BY <1>3, <1>6, <2>1
  <2>3. OnGrid(t, sg[k], off)
    BY <2>2, OnGridStill
  <2>4. End(sg[k]) \in Int
    BY <2>2 DEF L!A!Segment, End
  <2> QED
    BY <1>1, <2>1, <2>2, <2>3, <2>4
<1> HIDE DEF a, b, n
<1>12. ASSUME NEW k \in 1..n
       PROVE  /\ s2[k].start_index = IF k = 1 THEN 0 ELSE End(s2[k - 1])
              /\ s2[k].sample_count > 0 /\ End(s2[k]) <= a + b
              /\ OnGrid(t, s2[k], off)
  <2>1. s2[k].start_index = sg[k].start_index
    <3>1. k = n \/ k \in 1..(n - 1)
      BY <1>3
    <3> QED
      BY <1>4, <1>10, <3>1
  <2>2. sg[k].start_index = IF k = 1 THEN 0 ELSE End(s2[k - 1])
    <3>1. k # 1 => k - 1 \in 1..(n - 1)
      BY <1>3
    <3>2. k # 1 => s2[k - 1] = sg[k - 1]
      BY <1>4, <3>1
    <3> QED
      BY <1>6, <3>2
  <2>3. s2[k].sample_count > 0 /\ End(s2[k]) <= a + b /\ OnGrid(t, s2[k], off)
    <3>1. CASE k = n
      <4>1. a + b <= a + b
        BY <1>1
      <4> QED
        BY <1>9, <1>10, <3>1, <4>1
    <3>2. CASE k \in 1..(n - 1)
      <4>1. s2[k] = sg[k]
        BY <1>4, <3>2
      <4> QED
        BY <1>6, <1>11, <3>2, <4>1
    <3> QED
      BY <1>3, <3>1, <3>2
  <2> QED
    BY <2>1, <2>2, <2>3
<1>13. Covers(s2, Len(t))
  BY <1>1, <1>4, <1>8, <1>10, <1>12 DEF Covers
<1> QED
  BY <1>4, <1>12, <1>13 DEF Gridded

\* Samples of a channel, with their stamps.
StampsAre(vs, times) ==
    /\ Len(times) = Len(vs)
    /\ \A k \in 1..Len(vs) : times[k] <= MaxTime /\ told[vs[k]].time = times[k]

\* Stamped samples come behind those that are held.
LEMMA StampedMore ==
    ASSUME NEW ss \in Seq(Nat), NEW vs \in Seq(Nat), NEW t, IsJoin(t, ss, vs),
           NEW ts, Stamped(ss, ts), NEW times \in Seq(Int), StampsAre(vs, times),
           NEW t2, IsJoin(t2, ts, times)
    PROVE  Stamped(t, t2)
<1> DEFINE a == Len(ss)
           b == Len(vs)
<1>1. /\ ts \in Seq(Int) /\ Len(ts) = a
      /\ \A k \in 1..a : ts[k] <= MaxTime /\ told[ss[k]].time = ts[k]
  BY DEF Stamped
<1>0. /\ Len(times) = b
      /\ \A k \in 1..b : times[k] <= MaxTime /\ told[vs[k]].time = times[k]
  BY DEF StampsAre
<1>2. /\ a \in Nat /\ b \in Nat /\ Len(t) = a + b
      /\ \A k \in 1..a : t[k] = ss[k]
      /\ \A k \in 1..b : t[a + k] = vs[k]
      /\ \A k \in 1..(a + b) : k \in 1..a \/ \E h \in 1..b : k = a + h
  BY Joined
<1>3. /\ t2 \in Seq(Int) /\ Len(t2) = a + b
      /\ \A k \in 1..a : t2[k] = ts[k]
      /\ \A k \in 1..b : t2[a + k] = times[k]
  <2>1. /\ t2 \in Seq(Int) /\ Len(t2) = Len(ts) + Len(times)
        /\ \A k \in 1..Len(ts) : t2[k] = ts[k]
        /\ \A k \in 1..Len(times) : t2[Len(ts) + k] = times[k]
    <3>1. Parts(Int, t2, ts, times)
      BY <1>1, PartsAre
    <3> QED
      BY <3>1 DEF Parts
  <2> QED
    BY <1>0, <1>1, <2>1
<1> HIDE DEF a, b
<1>4. ASSUME NEW k \in 1..(a + b)
      PROVE  t2[k] <= MaxTime /\ told[t[k]].time = t2[k]
  <2>1. CASE k \in 1..a
    BY <1>1, <1>2, <1>3, <2>1
  <2>2. ASSUME NEW h \in 1..b, k = a + h
        PROVE  t2[k] <= MaxTime /\ told[t[k]].time = t2[k]
    <3>1. t2[k] = times[h] /\ t[k] = vs[h]
      BY <1>2, <1>3, <2>2
    <3> QED
      BY <1>0, <3>1
  <2> QED
    BY <1>2, <2>1, <2>2
<1> QED
  BY <1>2, <1>3, <1>4 DEF Stamped, a, b

---------------------------------------------------------------------------
(* The builders: one more block. *)

\* What the block of the channel means, and what state its builder may be in.
LEMMA BlockMeaning ==
    ASSUME Laid, NEW i \in 1..Len(file), NEW ch, BlockOf(i, ch)
    PROVE  LET b == file[i]
           IN  /\ ch \in 0..(N - 1) /\ b.index = ch /\ b.kind \in Kinds
               /\ b.start \in Int /\ b.period \in Nat /\ b.times \in Seq(Int)
               /\ b.values \in Seq(Nat) /\ Len(b.values) > 0
               /\ b.kind = "StartData" => b.start <= MaxTime /\ Ticks(b.values, b.start, b.period)
               /\ b.kind = "AbsTimeStampData" => StampsAre(b.values, b.times)
<1> DEFINE b == file[i]
           vs == b.values
<1>1. Left /\ b.index = ch
  BY DEF Laid, BlockOf
<1>2. /\ ch \in 0..(N - 1) /\ b.kind \in Kinds
      /\ b.start \in Int /\ b.period \in Nat /\ b.times \in Seq(Int)
      /\ vs \in Seq(Nat)
  BY <1>1, BlockIs
<1>3. Len(vs) > 0 /\ DOMAIN vs = 1..Len(vs)
  BY <1>1, ValuesAre
<1>4. Means(told, b.kind, ch, b.start, b.period, b.times, vs)
  BY <1>1 DEF Left, Written, Meaning, BlockMeans
<1>5. ASSUME b.kind = "StartData"
      PROVE  b.start <= MaxTime /\ Ticks(vs, b.start, b.period)
  <2>1. /\ b.start <= MaxTime
        /\ \A k \in 1..Len(vs) : Is(told, vs[k], ch, b.start + (k - 1) * b.period, b.period)
    BY <1>3, <1>4, <1>5 DEF Means
  <2>2. ASSUME NEW k \in 1..Len(vs)
        PROVE  told[vs[k]].time = b.start + (k - 1) * b.period /\ told[vs[k]].period = b.period
    <3> DEFINE time == b.start + (k - 1) * b.period
               period == b.period
    <3>1. Is(told, vs[k], ch, time, period)
      BY <2>1
    <3> HIDE DEF time, period
    <3>2. told[vs[k]].time = time /\ told[vs[k]].period = period
      BY <3>1 DEF Is
    <3> QED
      BY <3>2 DEF time, period
  <2> QED
    BY <2>1, <2>2 DEF Ticks
<1>6. ASSUME b.kind = "AbsTimeStampData"
      PROVE  StampsAre(vs, b.times)
  <2>1. /\ Len(b.times) = Len(vs)
        /\ \A k \in 1..Len(vs) : b.times[k] <= MaxTime /\ Is(told, vs[k], ch, b.times[k], 0)
    BY <1>3, <1>4, <1>6 DEF Means
  <2>2. ASSUME NEW k \in 1..Len(vs)
        PROVE  told[vs[k]].time = b.times[k]
    <3> DEFINE v == vs[k]
               time == b.times[k]
    <3>1. Is(told, v, ch, time, 0)
      BY <2>1
    <3> HIDE DEF v, time
    <3>2. told[v].time = time
      BY <3>1 DEF Is
    <3> QED
      BY <3>2 DEF v, time
  <2> QED
    BY <2>1, <2>2 DEF StampsAre
<1> QED
  BY <1>1, <1>2, <1>3, <1>5, <1>6

\* The values of the block are added.
LEMMA HoldsJoined ==
    ASSUME Laid, NEW m \in 0..(Len(file) - 1), NEW ch, BlockOf(m + 1, ch),
           NEW ss, Holds(ss, ch, m), NEW t, IsJoin(t, ss, file[m + 1].values)
    PROVE  Holds(t, ch, m + 1)
<1>1. Left
  BY DEF Laid
<1>2. Holds(ss \o file[m + 1].values, ch, m + 1)
  BY <1>1, HoldsMore
<1> QED
  BY <1>2 DEF IsJoin

LEMMA StartKept ==
    ASSUME Laid, NEW m \in 0..(Len(file) - 1), NEW ch, BlockOf(m + 1, ch),
           file[m + 1].kind = "StartData",
           NEW st, NEW ss, NEW sg, NEW ts, Kept(st, ss, sg, ts, ch, m),
           NEW t, IsJoin(t, ss, file[m + 1].values),
           NEW seg, IsSegment(seg, file[m + 1].start, file[m + 1].period, Len(ss),
                              Len(file[m + 1].values))
    PROVE  Kept("Equidistant", t, Append(sg, seg), ts, ch, m + 1)
<1> DEFINE i == m + 1
           b == file[i]
           vs == b.values
           start == b.start
           period == b.period
<1>1. Len(file) \in Nat /\ Left
  BY Lengths DEF Left, Written, IInv, Laid
<1>2. i \in 1..Len(file)
  BY <1>1
<1>3. /\ ch \in 0..(N - 1) /\ b.index = ch
      /\ start \in Int /\ period \in Nat
      /\ vs \in Seq(Nat) /\ Len(vs) > 0
      /\ start <= MaxTime /\ Ticks(vs, start, period)
  <2>1. BlockOf(i, ch) /\ b.kind = "StartData"
    OBVIOUS
  <2> HIDE DEF i
  <2> QED
    BY <1>2, <2>1, BlockMeaning
<1>4. /\ channels[ch + 1].kindLock = "Equidistant"
      /\ DataType(ch) \in {"float", "double"}
  <2>1. b.kind = "StartData"
    OBVIOUS
  <2> HIDE DEF i
  <2> QED
    BY <1>1, <1>2, <1>3, <2>1, BlockIs
<1>5. Holds(t, ch, i)
  BY HoldsJoined DEF Kept
<1>6. DataType(ch) \notin L!A!VariableTypes
  BY <1>4 DEF L!A!VariableTypes
<1>7. Agrees("Equidistant", t, ch)
  BY <1>4, <1>6 DEF Agrees
<1>8. st \in {"Pending", "Equidistant"}
  BY <1>4, <1>6 DEF Kept, Agrees
<1>9. Gridded(ss, sg, Off) \/ (ss = <<>> /\ sg = <<>>)
  BY <1>8 DEF Kept, Agrees, Timed
<1>10. ss \in Seq(Nat)
  BY DEF Kept, Holds
<1>11. Gridded(t, Append(sg, seg), Off)
  <2> DEFINE off == Off
  <2>1. IsJoin(t, ss, vs) /\ IsSegment(seg, start, period, Len(ss), Len(vs))
        /\ (Gridded(ss, sg, off) \/ (ss = <<>> /\ sg = <<>>))
    BY <1>9
  <2> HIDE DEF vs, start, period, off
  <2>2. Gridded(t, Append(sg, seg), off)
    BY <1>3, <1>10, <2>1, StartGridded
  <2> QED
    BY <2>2 DEF off
<1> QED
  BY <1>5, <1>7, <1>11 DEF Kept, Timed

LEMMA StampedKept ==
    ASSUME Laid, NEW m \in 0..(Len(file) - 1), NEW ch, BlockOf(m + 1, ch),
           file[m + 1].kind = "AbsTimeStampData",
           NEW st, NEW ss, NEW sg, NEW ts, Kept(st, ss, sg, ts, ch, m),
           NEW t, IsJoin(t, ss, file[m + 1].values), NEW t2, IsJoin(t2, ts, file[m + 1].times)
    PROVE  Kept(IF st = "Pending" THEN "Timestamped" ELSE st, t, sg, t2, ch, m + 1)
<1> DEFINE i == m + 1
           b == file[i]
           vs == b.values
           times == b.times
           st2 == IF st = "Pending" THEN "Timestamped" ELSE st
<1>1. Len(file) \in Nat /\ Left
  BY Lengths DEF Left, Written, IInv, Laid
<1>2. i \in 1..Len(file)
  BY <1>1
<1>3. /\ ch \in 0..(N - 1) /\ b.index = ch
      /\ times \in Seq(Int) /\ vs \in Seq(Nat) /\ StampsAre(vs, times)
  <2>1. BlockOf(i, ch) /\ b.kind = "AbsTimeStampData"
    OBVIOUS
  <2> HIDE DEF i
  <2> QED
    BY <1>2, <2>1, BlockMeaning
<1>4. channels[ch + 1].kindLock =
         IF DataType(ch) \in L!A!VariableTypes THEN "Variable" ELSE "Timestamped"
  <2>1. b.kind = "AbsTimeStampData"
    OBVIOUS
  <2> HIDE DEF i
  <2> QED
    BY <1>1, <1>2, <1>3, <2>1, BlockIs
<1>5. Holds(t, ch, i)
  BY HoldsJoined DEF Kept
<1>6. st \in {"Pending", "Timestamped", "Variable"}
  BY <1>4 DEF Kept, Agrees
<1>7. Agrees(st2, t, ch)
  BY <1>4, <1>6 DEF Kept, Agrees
<1>8. st2 # "Equidistant" /\ sg = <<>> /\ Stamped(ss, ts)
  BY <1>6 DEF Kept, Timed
<1>9. ss \in Seq(Nat)
  BY DEF Kept, Holds
<1>10. Stamped(t, t2)
  <2>1. IsJoin(t, ss, vs) /\ IsJoin(t2, ts, times)
    OBVIOUS
  <2> HIDE DEF vs, times
  <2> QED
    BY <1>3, <1>8, <1>9, <2>1, StampedMore
<1> HIDE DEF st2
<1>11. Timed(st2, t, sg, t2, Off)
  BY <1>8, <1>10 DEF Timed
<1>12. Kept(st2, t, sg, t2, ch, i)
  BY <1>5, <1>7, <1>11 DEF Kept
<1> QED
  BY <1>12 DEF st2

LEMMA ContinuedKept ==
    ASSUME Laid, NEW m \in 0..(Len(file) - 1), NEW ch, BlockOf(m + 1, ch),
           file[m + 1].kind = "ContinuedData",
           NEW ss, NEW sg, NEW ts, Kept("Equidistant", ss, sg, ts, ch, m),
           NEW t, IsJoin(t, ss, file[m + 1].values),
           NEW s2 \in Seq(L!A!Segment), Grown(s2, sg, Len(file[m + 1].values))
    PROVE  Kept("Equidistant", t, s2, ts, ch, m + 1)
<1> DEFINE i == m + 1
           vs == file[i].values
           off == Off
           last == told[ss[Len(ss)]]
           time == last.time
           period == last.period
<1>1. Len(file) \in Nat /\ Left
  BY Lengths DEF Left, Written, IInv, Laid
<1>2. i \in 1..Len(file) /\ m \in 0..Len(file)
  BY <1>1
<1>3. vs \in Seq(Nat) /\ Len(vs) > 0
  <2>1. BlockOf(i, ch)
    OBVIOUS
  <2> HIDE DEF i
  <2> QED
    BY <1>2, <2>1, BlockMeaning
<1>4. Holds(t, ch, i)
  BY HoldsJoined DEF Kept
<1>5. Holds(ss, ch, m) /\ ss \in Seq(Nat) /\ Gridded(ss, sg, off)
  BY DEF Kept, Holds, Timed
<1>6. Len(ss) > 0 /\ Len(ss) \in Nat
  <2> DEFINE n == Len(sg)
             x == sg[n]
  <2>1. sg \in Seq(L!A!Segment) /\ sg # <<>>
    BY <1>5 DEF Gridded, Covers
  <2>2. n \in 1..n /\ x \in L!A!Segment
    BY <2>1
  <2>3. x.sample_count > 0 /\ End(x) = Len(ss)
    BY <1>5, <2>2 DEF Gridded, Covers
  <2> HIDE DEF x
  <2>4. x.start_index \in Nat /\ x.sample_count \in Nat
    BY <2>2 DEF L!A!Segment
  <2> QED
    BY <2>3, <2>4 DEF End
<1>7. last \in Sample
  <2>1. Len(ss) \in 1..Len(ss)
    BY <1>6
  <2> QED
    BY <1>1, <1>2, <1>5, <2>1, HeldIs
<1>8. time \in Int /\ period \in Nat
  BY <1>7 DEF Sample
<1>9. LastIs(ss, time, period)
  BY DEF LastIs
<1>10. GoesOn(ss, vs, off, time, period)
  <2>1. CASE Displaced(i)
    <3>1. \A h \in 1..Len(vs) : vs[h] \in Off
      <4>1. i \in DOMAIN file
        BY <1>1, <1>2
      <4>2. vs = file[i].values /\ DOMAIN vs = 1..Len(vs)
        BY <1>3
      <4> HIDE DEF i, vs
      <4> QED
        BY <2>1, <4>1, <4>2 DEF Off, ValuesOf
    <3> QED
      BY <3>1 DEF GoesOn
  <2>2. CASE ~Displaced(i)
    BY <1>1, <1>5, <1>6, <2>2, ContinuesOnGrid DEF Follow, GoesOn
  <2> QED
    BY <2>1, <2>2
<1>11. Agrees("Equidistant", t, ch)
  BY DEF Kept, Agrees
<1>12. Gridded(t, s2, off)
  <2>1. IsJoin(t, ss, vs) /\ Grown(s2, sg, Len(vs))
    OBVIOUS
  <2> HIDE DEF vs, time, period, off
  <2> QED
    BY <1>3, <1>5, <1>8, <1>9, <1>10, <2>1, ContinuedGridded
<1> QED
  BY <1>4, <1>11, <1>12 DEF Kept, Timed

\* What the builder of a channel becomes.
Becomes(d, c, st) == Shape(d) /\ d.data_type = c.data_type /\ d.state = st

Lengthened(s2, sg, more) ==
    s2 = [sg EXCEPT ![Len(sg)].sample_count = sg[Len(sg)].sample_count + more]

LEMMA StartIs ==
    ASSUME NEW c, Shape(c), NEW b, NEW d, d = L!A!apply_start(c, b), NEW seg,
           IsSegment(seg, b.start, b.period, Len(c.samples), Len(b.values))
    PROVE  /\ Becomes(d, c, "Equidistant") /\ IsJoin(d.samples, c.samples, b.values)
           /\ d.timestamps_ns = c.timestamps_ns /\ d.segments = Append(c.segments, seg)
  BY DEF Shape, BuilderFields, L!A!apply_start, Becomes, IsJoin, IsSegment

LEMMA StampedIs ==
    ASSUME NEW c, Shape(c), NEW b, NEW d, d = L!A!apply_abs_timestamped(c, b)
    PROVE  /\ Becomes(d, c, IF c.state = "Pending" THEN "Timestamped" ELSE c.state)
           /\ IsJoin(d.samples, c.samples, b.values)
           /\ IsJoin(d.timestamps_ns, c.timestamps_ns, b.times) /\ d.segments = c.segments
  BY DEF Shape, BuilderFields, L!A!apply_abs_timestamped, Becomes, IsJoin

LEMMA ContinuedIs ==
    ASSUME NEW c, Shape(c), NEW b, NEW d, d = L!A!apply_continued(c, b)
    PROVE  /\ Becomes(d, c, c.state) /\ IsJoin(d.samples, c.samples, b.values)
           /\ d.timestamps_ns = c.timestamps_ns
           /\ Lengthened(d.segments, c.segments, Len(b.values))
  BY DEF Shape, BuilderFields, L!A!apply_continued, Becomes, IsJoin, Lengthened

\* What the iterator hands over for block i.
IsBlock(b, i) ==
    /\ b.channel_index = file[i].index
    /\ b.kind = IF file[i].kind = "AbsTimeStampData" THEN "AbsTimestampData" ELSE file[i].kind
    /\ b.data_type = DataType(file[i].index)
    /\ b.start = file[i].start /\ b.period = file[i].period
    /\ b.times = file[i].times /\ b.values = file[i].values

\* What it hands over for a frame that is skipped.
IsSkipped(b) == b.channel_index \in 0..(N - 1) /\ b.kind = "Skipped"

LEMMA ReturnedIs ==
    ASSUME Laid, NEW k \in 1..FramesFound, NEW item, item.frame = k,
           item.result \in Results(k)
    PROVE  IF Misplaced(k) THEN IsSkipped(L!Returned(item))
                           ELSE IsBlock(L!Returned(item), Place(k))
<1>1. FoundAt(data[k], blocks[k], k)
  BY DEF Laid
<1>2. CASE Misplaced(k)
  <2> DEFINE ch == data[k].index
  <2>1. ch \in 0..(N - 1) /\ item.result # "data" /\ blocks[k] = Garbage(ch)
    BY <1>1, <1>2 DEF FoundAt, IsMisread, Results
  <2>2. L!Returned(item) = [Garbage(ch) EXCEPT !.channel_index = ch, !.kind = "Skipped"]
    BY <2>1 DEF L!Returned
  <2> HIDE DEF ch
  <2>3. IsSkipped(L!Returned(item))
    BY <2>1, <2>2 DEF IsSkipped, Garbage
  <2> QED
    BY <1>2, <2>3
<1>3. CASE ~Misplaced(k)
  <2> DEFINE i == Place(k)
  <2>1. blocks[k] = Decoded(i) /\ data[k].index = file[i].index /\ item.result = "data"
    BY <1>1, <1>3 DEF FoundAt, IsFrame, Results
  <2> HIDE DEF i
  <2>2. L!Returned(item) = [Decoded(i) EXCEPT !.channel_index = file[i].index, !.kind = @]
    BY <2>1 DEF L!Returned
  <2>3. IsBlock(L!Returned(item), i)
    BY <2>2 DEF IsBlock, Decoded
  <2> QED
    BY <1>3, <2>3 DEF i
<1> QED
  BY <1>2, <1>3

\* The block of a channel is added to its builder.
LEMMA TakenBy ==
    ASSUME Laid, NEW m \in 0..(Len(file) - 1), m + 1 \notin Lost,
           NEW ch, ch = file[m + 1].index, NEW b, IsBlock(b, m + 1),
           NEW c, BuilderIs(c, ch, m), ~(b.kind = "ContinuedData" /\ c.state = "Pending")
    PROVE  BuilderIs(L!A!Applied(c, b), ch, m + 1)
<1> DEFINE i == m + 1
           d == L!A!Applied(c, b)
<1>1. Len(file) \in Nat /\ Left
  BY Lengths DEF Left, Written, IInv, Laid
<1>2. i \in 1..Len(file)
  BY <1>1
<1>3. BlockOf(i, ch)
  BY DEF BlockOf
<1>4. /\ file[i].kind \in Kinds /\ file[i].values \in Seq(Nat) /\ Len(file[i].values) > 0
      /\ file[i].times \in Seq(Int) /\ ch \in 0..(N - 1)
  <2> HIDE DEF i
  <2> QED
    BY <1>2, <1>3, BlockMeaning
<1>5. /\ b.start = file[i].start /\ b.period = file[i].period
      /\ b.times = file[i].times /\ b.values = file[i].values
      /\ b.kind = IF file[i].kind = "AbsTimeStampData" THEN "AbsTimestampData" ELSE file[i].kind
  BY DEF IsBlock
<1>6. /\ Shape(c) /\ c.data_type = DataType(ch)
      /\ Kept(c.state, c.samples, c.segments, c.timestamps_ns, ch, m)
  BY DEF BuilderIs
<1> DEFINE st == c.state
           ss == c.samples
           sg == c.segments
           ts == c.timestamps_ns
           t  == d.samples
           s2 == d.segments
           t2 == d.timestamps_ns
<1>7. CASE file[i].kind = "StartData"
  <2> DEFINE seg == [start |-> file[i].start, period |-> file[i].period,
                     start_index |-> Len(ss), sample_count |-> Len(file[i].values)]
  <2>1. d = L!A!apply_start(c, b)
    BY <1>5, <1>7 DEF L!A!Applied
  <2>2. IsSegment(seg, file[i].start, file[i].period, Len(ss), Len(file[i].values))
    BY DEF IsSegment
  <2>3. /\ Becomes(d, c, "Equidistant") /\ IsJoin(t, ss, file[i].values)
        /\ t2 = ts /\ s2 = Append(sg, seg)
    <3>1. IsSegment(seg, b.start, b.period, Len(ss), Len(b.values))
      BY <1>5, <2>2
    <3> HIDE DEF d, seg
    <3>2. /\ Becomes(d, c, "Equidistant") /\ IsJoin(t, ss, b.values)
          /\ t2 = ts /\ s2 = Append(sg, seg)
      BY <1>6, <2>1, <3>1, StartIs
    <3> QED
      BY <1>5, <3>2
  <2> HIDE DEF d, seg, t, ss, sg, ts, s2, t2, st
  <2>4. Kept(st, ss, sg, ts, ch, m)
    BY <1>6 DEF st, ss, sg, ts
  <2>5. Kept("Equidistant", t, Append(sg, seg), ts, ch, i)
    BY <1>3, <1>7, <2>2, <2>3, <2>4, StartKept
  <2>6. Kept(d.state, t, s2, t2, ch, i)
    BY <2>3, <2>5 DEF Becomes
  <2> QED
    BY <1>6, <2>3, <2>6 DEF BuilderIs, Becomes, t, s2, t2, d
<1>8. CASE file[i].kind = "AbsTimeStampData"
  <2>1. d = L!A!apply_abs_timestamped(c, b)
    BY <1>5, <1>8 DEF L!A!Applied
  <2>2. /\ Becomes(d, c, IF st = "Pending" THEN "Timestamped" ELSE st)
        /\ IsJoin(t, ss, file[i].values) /\ IsJoin(t2, ts, file[i].times) /\ s2 = sg
    <3> HIDE DEF d
    <3>1. /\ Becomes(d, c, IF st = "Pending" THEN "Timestamped" ELSE st)
          /\ IsJoin(t, ss, b.values) /\ IsJoin(t2, ts, b.times) /\ s2 = sg
      BY <1>6, <2>1, StampedIs
    <3> QED
      BY <1>5, <3>1
  <2> HIDE DEF d, t, ss, sg, ts, s2, t2, st
  <2>4. Kept(st, ss, sg, ts, ch, m)
    BY <1>6 DEF st, ss, sg, ts
  <2>5. Kept(IF st = "Pending" THEN "Timestamped" ELSE st, t, sg, t2, ch, i)
    BY <1>3, <1>8, <2>2, <2>4, StampedKept
  <2>6. Kept(d.state, t, s2, t2, ch, i)
    BY <2>2, <2>5 DEF Becomes
  <2> QED
    BY <1>6, <2>2, <2>6 DEF BuilderIs, Becomes, t, s2, t2, d
<1>9. CASE file[i].kind = "ContinuedData"
  <2> DEFINE n == Len(sg)
             more == Len(file[i].values)
             x == [sg[n] EXCEPT !.sample_count = sg[n].sample_count + more]
  <2>1. d = L!A!apply_continued(c, b)
    BY <1>5, <1>9 DEF L!A!Applied
  <2>2. /\ Becomes(d, c, st) /\ IsJoin(t, ss, file[i].values) /\ t2 = ts
        /\ s2 = [sg EXCEPT ![n] = x]
    <3> HIDE DEF d
    <3>1. /\ Becomes(d, c, st) /\ IsJoin(t, ss, b.values) /\ t2 = ts
          /\ Lengthened(s2, sg, Len(b.values))
      BY <1>6, <2>1, ContinuedIs
    <3> HIDE DEF t, ss, sg, ts, s2, t2, st
    <3> QED
      BY <1>5, <3>1 DEF Lengthened
  <2>4. st = "Equidistant"
    <3>1. st # "Pending"
      BY <1>5, <1>9
    <3>2. channels[ch + 1].kindLock = "Equidistant" /\ DataType(ch) \in {"float", "double"}
      <4>1. ch = file[i].index
        OBVIOUS
      <4>2. file[i].kind # "AbsTimeStampData"
        BY <1>9
      <4> HIDE DEF i
      <4> QED
        BY <1>1, <1>2, <4>1, <4>2, BlockIs
    <3>3. DataType(ch) \notin L!A!VariableTypes
      BY <3>2 DEF L!A!VariableTypes
    <3>4. Agrees(st, ss, ch)
      BY <1>6 DEF Kept
    <3> HIDE DEF st, ss
    <3> QED
      BY <3>1, <3>2, <3>3, <3>4 DEF Agrees
  <2>5. more \in Nat
    BY <1>4
  <2>6. sg \in Seq(L!A!Segment) /\ sg # <<>>
    BY <1>6, <2>4 DEF Kept, Timed, Gridded, Covers
  <2>7. s2 \in Seq(L!A!Segment) /\ Grown(s2, sg, more)
    <3> HIDE DEF d, t, ss, sg, ts, s2, t2, st, more
    <3>1. n \in Nat /\ n > 0 /\ sg[n] \in L!A!Segment
      BY <2>6
    <3>2. x \in L!A!Segment /\ Longer(x, sg[n], more)
      BY <2>5, <3>1 DEF L!A!Segment, Longer
    <3> HIDE DEF x
    <3>3. /\ s2 \in Seq(L!A!Segment) /\ Len(s2) = n /\ s2[n] = x
          /\ \A k \in 1..(n - 1) : s2[k] = sg[k]
      BY <2>2, <2>6, <3>1, <3>2
    <3> QED
      BY <3>2, <3>3 DEF Grown
  <2> HIDE DEF d, t, ss, sg, ts, s2, t2, st
  <2>8. Kept("Equidistant", ss, sg, ts, ch, m)
    BY <1>6, <2>4 DEF st, ss, sg, ts
  <2>9. Kept("Equidistant", t, s2, ts, ch, i)
    BY <1>3, <1>9, <2>2, <2>7, <2>8, ContinuedKept
  <2>10. Kept(d.state, t, s2, t2, ch, i)
    BY <2>2, <2>4, <2>9 DEF Becomes
  <2> QED
    BY <1>6, <2>2, <2>10 DEF BuilderIs, Becomes, t, s2, t2, d
<1> QED
  BY <1>4, <1>7, <1>8, <1>9 DEF Kinds

\* Blocks of other channels, and lost ones, leave the builder as it is.
LEMMA KeptStill ==
    ASSUME NEW m \in Nat, NEW q \in Nat, m <= q, NEW ch,
           \A i \in (m + 1)..q : ~BlockOf(i, ch), NEW c, BuilderIs(c, ch, m)
    PROVE  BuilderIs(c, ch, q)
<1>1. Kept(c.state, c.samples, c.segments, c.timestamps_ns, ch, m)
  BY DEF BuilderIs
<1>2. Holds(c.samples, ch, q)
  BY <1>1, HoldsStill DEF Kept
<1> QED
  BY <1>1, <1>2 DEF BuilderIs, Kept

LEMMA AssembledStill ==
    ASSUME NEW m \in Nat, NEW q \in Nat, m <= q, \A i \in (m + 1)..q : i \in Lost,
           NEW bs, AssembledIn(bs, m)
    PROVE  AssembledIn(bs, q)
<1>1. ASSUME NEW ch \in 0..(N - 1)
      PROVE  BuilderIs(bs[ch], ch, q)
  <2> DEFINE c == bs[ch]
  <2>1. BuilderIs(c, ch, m)
    BY DEF AssembledIn
  <2>2. \A i \in (m + 1)..q : ~BlockOf(i, ch)
    BY DEF BlockOf
  <2> HIDE DEF c
  <2>3. BuilderIs(c, ch, q)
    BY <2>1, <2>2, KeptStill
  <2> QED
    BY <2>3 DEF c
<1> QED
  BY <1>1 DEF AssembledIn

\* A block continues samples of which every beginning is lost.
BeginningIsLost ==
    \E i \in DOMAIN file \ Lost :
       /\ file[i].kind = "ContinuedData"
       /\ \E l \in Lost : l < i /\ file[l].index = file[i].index
       /\ \A j \in 1..(i - 1) :
             file[j].index = file[i].index /\ file[j].kind = "StartData" => j \in Lost

\* A channel without samples whose block continues some has lost the beginning.
LEMMA BeginningLost ==
    ASSUME Laid, NEW m \in 0..(Len(file) - 1), NEW ch, BlockOf(m + 1, ch),
           file[m + 1].kind = "ContinuedData", Holds(<<>>, ch, m)
    PROVE  BeginningIsLost
<1> DEFINE i == m + 1
<1>1. Len(file) \in Nat /\ Left
  BY Lengths DEF Left, Written, IInv, Laid
<1>2. i \in 1..Len(file) /\ i - 1 = m /\ m \in Nat
  BY <1>1
<1>3. file[i].kind = "ContinuedData" /\ file[i].index = ch /\ i \notin Lost
  BY DEF BlockOf
<1>4. PICK l \in 1..m : file[l].index = ch /\ file[l].kind = "StartData"
  <2> HIDE DEF i
  <2>2. \E j \in 1..(i - 1) : file[j].index = file[i].index /\ file[j].kind = "StartData"
    BY <1>1, <1>2, <1>3, BlockIs
  <2> QED
    BY <1>2, <1>3, <2>2
<1>5. ASSUME NEW j \in 1..m, file[j].index = ch
      PROVE  j \in Lost
  <2> SUFFICES ASSUME j \notin Lost PROVE FALSE
    OBVIOUS
  <2>1. BlockOf(j, ch) /\ j \in 1..Len(file)
    BY <1>1, <1>5 DEF BlockOf
  <2>2. 1 \in DOMAIN file[j].values
    <3>1. Len(file[j].values) \in Nat /\ Len(file[j].values) > 0
          /\ DOMAIN file[j].values = 1..Len(file[j].values)
      BY <1>1, <2>1, ValuesAre
    <3> QED
      BY <3>1
  <2>3. At(j, 1, file[j].values[1])
    BY <2>1, <2>2 DEF At
  <2>4. \E k \in 1..Len(<<>>) : <<>>[k] = file[j].values[1]
    BY <1>5, <2>1, <2>3 DEF Holds
  <2> QED
    BY <2>4
<1>6. i \in DOMAIN file \ Lost
  <2>1. DOMAIN file = 1..Len(file)
    BY Lengths DEF Left, Written, IInv, Laid
  <2> QED
    BY <1>2, <1>3, <2>1
<1> HIDE DEF i
<1>7. l \in Lost /\ l < i
  BY <1>2, <1>4, <1>5
<1> QED
  BY <1>2, <1>3, <1>4, <1>5, <1>6, <1>7 DEF BeginningIsLost

\* A block is refused only where it continues samples whose beginning is lost.
LEMMA RefusedIs ==
    ASSUME Laid, NEW m \in 0..(Len(file) - 1), m + 1 \notin Lost, Assembled(m),
           NEW b, IsBlock(b, m + 1)
    PROVE  LET ch == file[m + 1].index
           IN  /\ ch \in 0..(N - 1)
               /\ \/ /\ L!A!Error(b) = "none"
                     /\ ~(b.kind = "ContinuedData" /\ builders[ch].state = "Pending")
                  \/ L!A!Error(b) = "ContinuedDataWithoutStart" /\ BeginningIsLost
<1> DEFINE i == m + 1
           ch == file[i].index
           c == builders[ch]
<1>1. Len(file) \in Nat /\ Left
  BY Lengths DEF Left, Written, IInv, Laid
<1>2. i \in 1..Len(file)
  BY <1>1
<1>3. /\ ch \in 0..(N - 1) /\ file[i].kind \in Kinds
      /\ channels[ch + 1].kindLock =
            IF file[i].kind # "AbsTimeStampData" THEN "Equidistant"
            ELSE IF DataType(ch) \in L!A!VariableTypes THEN "Variable" ELSE "Timestamped"
      /\ file[i].kind # "AbsTimeStampData" => DataType(ch) \in {"float", "double"}
  <2> HIDE DEF i
  <2> QED
    BY <1>1, <1>2, BlockIs
<1>4. ch \in L!A!Indices
  BY <1>3, DeclaredIndices
<1>5. BuilderIs(c, ch, m)
  BY <1>3 DEF Assembled, AssembledIn
<1>6. /\ b.channel_index = ch /\ b.data_type = DataType(ch)
      /\ b.kind = IF file[i].kind = "AbsTimeStampData" THEN "AbsTimestampData" ELSE file[i].kind
  BY DEF IsBlock
<1>7. c.data_type = DataType(ch) /\ Agrees(c.state, c.samples, ch) /\ Holds(c.samples, ch, m)
  BY <1>5 DEF BuilderIs, Kept
<1>8. b.kind # "Skipped" /\ b.kind # "ContinuedRelStampData"
  BY <1>3, <1>6 DEF Kinds
<1>9. CASE b.kind = "ContinuedData" /\ c.state = "Pending"
  <2>1. L!A!Error(b) = "ContinuedDataWithoutStart"
    BY <1>4, <1>6, <1>7, <1>8, <1>9 DEF L!A!Error
  <2>2. c.samples = <<>>
    BY <1>7, <1>9 DEF Agrees
  <2>3. file[i].kind = "ContinuedData" /\ BlockOf(i, ch)
    BY <1>6, <1>9 DEF BlockOf
  <2>4. Holds(<<>>, ch, m)
    BY <1>7, <2>2
  <2>5. BeginningIsLost
    <3> HIDE DEF ch
    <3> QED
      BY <2>3, <2>4, BeginningLost
  <2> QED
    BY <1>3, <2>1, <2>5
<1>10. CASE ~(b.kind = "ContinuedData" /\ c.state = "Pending")
  <2>1. ~L!A!Mixed(c, b)
    <3>1. DataType(ch) \in {"float", "double"} => DataType(ch) \notin L!A!VariableTypes
      BY DEF L!A!VariableTypes
    <3> HIDE DEF c, ch, i
    <3> QED
      BY <1>3, <1>6, <1>7, <1>8, <1>10, <3>1 DEF L!A!Mixed, Agrees, Kinds
  <2>2. L!A!Error(b) = "none"
    BY <1>4, <1>6, <1>7, <1>8, <1>10, <2>1 DEF L!A!Error
  <2> QED
    BY <1>3, <1>10, <2>2
<1> QED
  BY <1>9, <1>10

\* The block is applied.
LEMMA AppliedIs ==
    ASSUME Laid, NEW m \in 0..(Len(file) - 1), m + 1 \notin Lost, Assembled(m),
           NEW b, IsBlock(b, m + 1), L!A!apply_block(b)
    PROVE  AssembledIn(builders', m + 1)
<1> DEFINE i == m + 1
           ch == file[i].index
           c == builders[ch]
           d == L!A!Applied(c, b)
<1>1. L!A!Error(b) = "none" /\ builders' = [builders EXCEPT ![ch] = d]
  BY DEF L!A!apply_block, IsBlock
<1>2. ch \in 0..(N - 1) /\ ~(b.kind = "ContinuedData" /\ c.state = "Pending")
  BY <1>1, RefusedIs
<1>3. DOMAIN builders = 0..(N - 1) /\ \A x \in 0..(N - 1) : BuilderIs(builders[x], x, m)
  BY DEF Assembled, AssembledIn
<1>4. m \in Nat
  BY Lengths DEF Left, Written, IInv, Laid
<1>5. BuilderIs(d, ch, i)
  <2>1. BuilderIs(c, ch, m)
    BY <1>2, <1>3
  <2> HIDE DEF c
  <2> QED
    BY <1>2, <2>1, TakenBy
<1>6. ASSUME NEW x \in 0..(N - 1), x # ch
      PROVE  BuilderIs(builders[x], x, i)
  <2>1. \A j \in (m + 1)..i : ~BlockOf(j, x)
    <3>1. \A j \in (m + 1)..i : j = i
      BY <1>4
    <3> QED
      BY <1>6, <3>1 DEF BlockOf
  <2>2. i \in Nat /\ m <= i
    BY <1>4
  <2> HIDE DEF i
  <2>3. BuilderIs(builders[x], x, m)
    BY <1>3
  <2> QED
    BY <1>4, <2>1, <2>2, <2>3, KeptStill
<1> HIDE DEF d, ch
<1>7. /\ DOMAIN builders' = 0..(N - 1) /\ builders'[ch] = d
      /\ \A x \in 0..(N - 1) : x # ch => builders'[x] = builders[x]
  BY <1>1, <1>2, <1>3
<1> QED
  BY <1>5, <1>6, <1>7 DEF AssembledIn

\* A block that is skipped changes nothing, and is never refused.
LEMMA SkippedIs ==
    ASSUME NEW b, IsSkipped(b)
    PROVE  L!A!Error(b) = "none" /\ L!A!Applied(builders[b.channel_index], b) = builders[b.channel_index]
<1>1. b.channel_index \in L!A!Indices /\ b.kind = "Skipped"
  BY DeclaredIndices DEF IsSkipped
<1> QED
  BY <1>1 DEF L!A!Error, L!A!Applied

---------------------------------------------------------------------------
(* The inductive invariant of a recording. *)

Untouched == L!R!Started /\ L!A!Init

\* The load has failed, and the damage is to blame.
DamageFailed ==
    \/ /\ outcome = "UnknownChannelIndex" /\ Lost # {}
       /\ \E k \in DOMAIN data : data[k].index \notin L!A!Indices
    \/ outcome = "ContinuedDataWithoutStart" /\ BeginningIsLost

RecordingInv ==
    /\ Written
    /\ opened \in BOOLEAN
    /\ ~opened => Untouched
    /\ opened => Laid
    /\ opened => \/ outcome = "loading" /\ Reading /\ Assembled(Place(Passed))
                 \/ outcome = "loaded" /\ Assembled(Len(file))
                 \/ DamageFailed

\* Where the blocks and the damage are, stays.
LEMMA DamageStays ==
    ASSUME UNCHANGED <<vars, damage>>
    PROVE  /\ file' = file /\ Lost' = Lost /\ FramesFound' = FramesFound
           /\ BeginningIsLost' = BeginningIsLost
           /\ \A k : Misplaced(k)' <=> Misplaced(k)
           /\ \A k : Place(k)' = Place(k)
<1>1. file' = file /\ rotten' = rotten /\ resumed' = resumed /\ misread' = misread
  BY DEF vars, disk, damage
<1>2. Lost' = Lost /\ FramesFound' = FramesFound
  BY <1>1 DEF Lost, FramesFound
<1>3. \A k : Misplaced(k)' <=> Misplaced(k)
  BY <1>1 DEF Misplaced
<1>4. \A k : Place(k)' = Place(k)
  BY <1>1, <1>3 DEF Place
<1>5. BeginningIsLost' = BeginningIsLost
  BY <1>1, <1>2 DEF BeginningIsLost
<1> QED
  BY <1>1, <1>2, <1>3, <1>4, <1>5

\* What lies before the reader stays.
LEMMA LaidStays ==
    ASSUME Laid, Written', UNCHANGED <<vars, damage, data, present, declared, blocks>>
    PROVE  Laid'
<1>1. /\ file' = file /\ header' = header /\ frameCrc' = frameCrc
      /\ data' = data /\ present' = present /\ declared' = declared /\ blocks' = blocks
      /\ rotten' = rotten /\ resumed' = resumed /\ misread' = misread
  BY DEF vars, disk, config, damage
<1>2. Left'
  BY <1>1 DEF Laid, Left
<1>3. DamageIs'
  BY <1>1 DEF Laid, DamageIs
<1>4. LaidOut(data, present, FramesFound, rotten < resumed)'
  <2>1. FramesFound' = FramesFound
    BY DamageStays
  <2> QED
    BY <1>1, <2>1 DEF Laid, LaidOut, OffsetIn
<1>5. \A g, b, k : FoundAt(g, b, k)' <=> FoundAt(g, b, k)
  <2>1. /\ \A k : Misplaced(k)' <=> Misplaced(k)
        /\ \A k : Place(k)' = Place(k)
    BY DamageStays
  <2>2. \A i : Decoded(i)' = Decoded(i)
    BY <1>1 DEF Decoded, DataType
  <2>3. \A g, i : IsFrame(g, i)' <=> IsFrame(g, i)
    BY <1>1 DEF IsFrame
  <2> QED
    BY <2>1, <2>2, <2>3 DEF FoundAt, IsMisread, Garbage, DataType
<1>6. /\ (\A k \in 1..FramesFound : FoundAt(data[k], blocks[k], k))'
      /\ (\A k \in DOMAIN data \ (1..FramesFound) : blocks[k] = Garbage(data[k].index))'
  <2>1. FramesFound' = FramesFound
    BY DamageStays
  <2>2. \A k \in 1..FramesFound : FoundAt(data[k], blocks[k], k)
    BY DEF Laid
  <2>3. \A k \in 1..FramesFound : FoundAt(data[k], blocks[k], k)'
    BY <1>1, <1>5, <2>2
  <2>4. \A k \in DOMAIN data \ (1..FramesFound) : blocks[k] = Garbage(data[k].index)
    BY DEF Laid
  <2> QED
    BY <1>1, <2>1, <2>3, <2>4 DEF Garbage, DataType
<1> QED
  BY <1>1, <1>2, <1>3, <1>4, <1>6 DEF Laid

\* And so does what a builder that does not change holds of it.
LEMMA KeptStays ==
    ASSUME UNCHANGED <<vars, told, damage>>, NEW bs, NEW m, AssembledIn(bs, m)
    PROVE  AssembledIn(bs, m)'
<1>1. file' = file /\ channels' = channels /\ told' = told /\ Lost' = Lost
  BY DamageStays DEF vars, disk, config
<1>2. \A i, k, v : At(i, k, v)' <=> At(i, k, v)
  BY <1>1 DEF At
<1>3. \A i, ch : BlockOf(i, ch)' <=> BlockOf(i, ch)
  BY <1>1 DEF BlockOf
<1>4. \A ss, ch : Holds(ss, ch, m)' <=> Holds(ss, ch, m)
  BY <1>2, <1>3 DEF Holds
<1>5. Off' = Off
  <2>1. \A i : Displaced(i)' <=> Displaced(i)
    BY <1>1 DEF Displaced
  <2>2. \A i : ValuesOf(i)' = ValuesOf(i)
    BY <1>1 DEF ValuesOf
  <2> QED
    BY <1>1, <2>1, <2>2 DEF Off
<1>6. \A st, ss, ch : Agrees(st, ss, ch)' <=> Agrees(st, ss, ch)
  BY <1>1 DEF Agrees, DataType
<1>7. \A ss, sg, off : Gridded(ss, sg, off)' <=> Gridded(ss, sg, off)
  <2>1. \A v, time, period : Meets(v, time, period)' <=> Meets(v, time, period)
    BY <1>1 DEF Meets
  <2> QED
    BY <2>1 DEF Gridded, Covers, OnGrid, End
<1>8. \A ss, ts : Stamped(ss, ts)' <=> Stamped(ss, ts)
  BY <1>1 DEF Stamped
<1>9. \A st, ss, sg, ts : Timed(st, ss, sg, ts, Off)' <=> Timed(st, ss, sg, ts, Off)
  BY <1>5, <1>7, <1>8 DEF Timed
<1>10. \A st, ss, sg, ts, ch : Kept(st, ss, sg, ts, ch, m)' <=> Kept(st, ss, sg, ts, ch, m)
  BY <1>4, <1>6, <1>9 DEF Kept
<1>11. \A c, ch : BuilderIs(c, ch, m)' <=> BuilderIs(c, ch, m)
  BY <1>10 DEF BuilderIs, Shape, DataType
<1> QED
  BY <1>11 DEF AssembledIn

\* A new builder holds nothing.
LEMMA NothingAssembled ==
    ASSUME L!A!Init
    PROVE  Assembled(0)
<1>1. builders = [ch \in 0..(N - 1) |-> L!A!NewBuilder(ch)]
  BY DeclaredIndices DEF L!A!Init
<1>2. ASSUME NEW ch \in 0..(N - 1)
      PROVE  BuilderIs(L!A!NewBuilder(ch), ch, 0)
  <2> DEFINE c == L!A!NewBuilder(ch)
             dt == DataType(ch)
  <2>1. dt \in L!A!DataTypes \ {"unsupported"} /\ L!A!Definition(ch).data_type = dt
    BY <1>2, DefinitionIs
  <2>2. /\ c.data_type = dt /\ c.state = L!A!initial_state_for(dt)
        /\ c.samples = <<>> /\ c.segments = <<>> /\ c.timestamps_ns = <<>> /\ Shape(c)
    BY <2>1 DEF L!A!NewBuilder, Shape, BuilderFields
  <2>3. c.state = IF dt \in L!A!VariableTypes THEN "Variable" ELSE "Pending"
    BY <2>1, <2>2 DEF L!A!initial_state_for
  <2>4. Holds(<<>>, ch, 0)
    BY DEF Holds
  <2>5. Stamped(<<>>, <<>>)
    BY DEF Stamped
  <2>6. Agrees(c.state, <<>>, ch)
    BY <2>3 DEF Agrees
  <2>7. Timed(c.state, <<>>, <<>>, <<>>, Off)
    BY <2>3, <2>5 DEF Timed
  <2> HIDE DEF c
  <2>8. Kept(c.state, c.samples, c.segments, c.timestamps_ns, ch, 0)
    BY <2>2, <2>4, <2>6, <2>7 DEF Kept
  <2>9. BuilderIs(c, ch, 0)
    BY <2>2, <2>8 DEF BuilderIs
  <2> QED
    BY <2>9 DEF c
<1> QED
  BY <1>1, <1>2 DEF Assembled, AssembledIn

\* The cursor is at the first frame.
LEMMA NothingRead ==
    ASSUME Laid, L!R!Started
    PROVE  Reading
<1>1. pos = 0 /\ frame = 0 /\ finished = FALSE /\ adrift = FALSE /\ yielded = <<>>
  BY DEF L!R!Started
<1>2. FramesFound \in Nat /\ data \in Seq(FrameType)
  BY PlaceIs DEF Laid, LaidOut
<1>3. OffsetIn(data, frame + 1) = 0
  <2>1. frame + 1 = 1
    BY <1>1
  <2> QED
    BY <1>2, <2>1, FirstOffset
<1>4. yielded \in Seq(Item)
  BY <1>1
<1>5. frame \in 0..(FramesFound + 1) /\ frame <= FramesFound
  BY <1>1, <1>2
<1>6. finished = FALSE /\ adrift = FALSE /\ pos = OffsetIn(data, frame + 1)
  BY <1>1, <1>3
<1> QED
  BY <1>4, <1>5, <1>6 DEF Reading

LEMMA NothingPassed ==
    ASSUME Laid, L!R!Started
    PROVE  Place(Passed) = 0
  BY PlaceIs DEF Passed, L!R!Started

LEMMA RecordingInvInit == AllInit => RecordingInv
<1> SUFFICES ASSUME AllInit PROVE RecordingInv
  OBVIOUS
<1>1. Written
  BY WrittenInit
<1> QED
  BY <1>1 DEF AllInit, RecordingInv, Untouched

\* The file is found.
LEMMA OpenStep == RecordingInv /\ Written' /\ Open => RecordingInv'
<1> SUFFICES ASSUME RecordingInv, Written', Open PROVE RecordingInv'
  OBVIOUS
<1>1. ~opened /\ opened' = TRUE /\ Untouched /\ Written
  BY DEF Open, RecordingInv
<1>2. Laid'
  BY <1>1, OpenLays
<1>3. (L!R!Started)' /\ (L!A!Init)' /\ outcome' = "loading" /\ frame' = 0
  <2>1. UNCHANGED <<pos, frame, finished, adrift, stats, yielded,
                    builders, outcome, loaded, by_name, by_index, fed>>
    BY DEF Open
  <2> QED
    BY <1>1, <2>1 DEF Untouched, L!R!Started, L!R!NoStats, L!A!Init
<1>4. Reading'
  BY <1>2, <1>3, NothingRead, PTL
<1>5. Assembled(0)'
  BY <1>3, NothingAssembled, PTL
<1>6. Assembled(Place(Passed))'
  <2>1. (Place(Passed) = 0)'
    BY <1>2, <1>3, NothingPassed, PTL
  <2>2. Place(Passed)' = 0
    BY <2>1
  <2> QED
    BY <1>5, <2>2
<1> QED
  BY <1>1, <1>2, <1>3, <1>4, <1>6 DEF RecordingInv

\* What the builders hold after the next frame.
LEMMA FrameTaken ==
    ASSUME Laid, NEW k \in 1..FramesFound, Assembled(Place(k - 1)),
           NEW item, item.frame = k, item.result \in Results(k),
           L!A!apply_block(L!Returned(item)) \/ L!A!RejectBlock(L!Returned(item))
    PROVE  \/ outcome' = outcome /\ AssembledIn(builders', Place(k))
           \/ outcome' = "ContinuedDataWithoutStart" /\ BeginningIsLost
<1> DEFINE b == L!Returned(item)
           p == Place(k - 1)
           q == Place(k)
<1>1. AssembledIn(builders, p) /\ p \in Nat /\ q \in Nat /\ Len(file) \in Nat
  BY PlaceIs DEF Assembled
<1>2. IF Misplaced(k) THEN IsSkipped(b) ELSE IsBlock(b, q)
  BY ReturnedIs
<1>3. L!A!apply_block(b) \/ L!A!RejectBlock(b)
  OBVIOUS
<1>4. CASE Misplaced(k)
  <2>1. p <= q /\ \A i \in (p + 1)..q : i \in Lost
    BY <1>4, PlaceIs
  <2> HIDE DEF p, q, b
  <2>2. AssembledIn(builders, q)
    BY <1>1, <2>1, AssembledStill
  <2> DEFINE ch == b.channel_index
  <2>3. /\ ch \in 0..(N - 1)
        /\ L!A!Error(b) = "none" /\ L!A!Applied(builders[ch], b) = builders[ch]
    BY <1>2, <1>4, SkippedIs DEF IsSkipped
  <2>4. outcome' = outcome /\ builders' = [builders EXCEPT ![ch] = builders[ch]]
    BY <1>3, <2>3 DEF L!A!apply_block, L!A!RejectBlock
  <2> HIDE DEF ch
  <2>5. /\ DOMAIN builders' = 0..(N - 1)
        /\ \A x \in 0..(N - 1) : builders'[x] = builders[x]
    BY <2>2, <2>4 DEF AssembledIn
  <2>6. AssembledIn(builders', q)
    BY <2>2, <2>5 DEF AssembledIn
  <2> QED
    BY <2>4, <2>6 DEF q
<1>5. CASE ~Misplaced(k)
  <2> DEFINE m == q - 1
  <2>1. /\ q \in 1..Len(file) /\ q \notin Lost /\ p < q
        /\ \A i \in (p + 1)..(q - 1) : i \in Lost
    BY <1>5, PlaceIs
  <2> HIDE DEF p, q, b
  <2>2. m \in 0..(Len(file) - 1) /\ m + 1 = q /\ m \in Nat /\ p <= m
    BY <1>1, <2>1
  <2>3. \A i \in (p + 1)..m : i \in Lost
    BY <2>1
  <2> HIDE DEF m
  <2>4. Assembled(m)
    BY <1>1, <2>2, <2>3, AssembledStill DEF Assembled
  <2>5. IsBlock(b, m + 1) /\ m + 1 \notin Lost
    BY <1>2, <1>5, <2>1, <2>2
  <2>6. CASE L!A!apply_block(b)
    <3>1. AssembledIn(builders', m + 1)
      BY <2>2, <2>4, <2>5, <2>6, AppliedIs
    <3>2. outcome' = outcome
      BY <2>6 DEF L!A!apply_block
    <3> QED
      BY <2>2, <3>1, <3>2 DEF q
  <2>7. CASE L!A!RejectBlock(b)
    <3>1. L!A!Error(b) # "none" /\ outcome' = L!A!Error(b)
      BY <2>7 DEF L!A!RejectBlock, L!A!Fail
    <3>2. \/ L!A!Error(b) = "none"
          \/ L!A!Error(b) = "ContinuedDataWithoutStart" /\ BeginningIsLost
      BY <2>2, <2>4, <2>5, RefusedIs
    <3> QED
      BY <3>1, <3>2
  <2> QED
    BY <1>3, <2>6, <2>7
<1> QED
  BY <1>4, <1>5

\* The last element of a sequence that grows.
LEMMA LastAppended ==
    ASSUME NEW S, NEW s \in Seq(S), NEW x, NEW t, t = Append(s, x)
    PROVE  t # s /\ L!Last(t) = x
<1>1. Len(t) = Len(s) + 1 /\ Len(s) \in Nat /\ t[Len(s) + 1] = x
  OBVIOUS
<1> QED
  BY <1>1 DEF L!Last

\* The turn that comes upon the index of no channel.
LEMMA UnknownStep ==
    ASSUME Laid, Reading, L!Turn, rotten < resumed, UNCHANGED <<vars, damage>>,
           NEW k \in DOMAIN data, k = FramesFound + 1, data[k].index \notin 0..(N - 1),
           UNCHANGED data, NEW r \in {"UnknownChannelIndex", "SignatureBlock"},
           yielded' = Append(yielded, [frame |-> k, result |-> r])
    PROVE  DamageFailed'
<1> DEFINE item == [frame |-> k, result |-> r]
           b == L!Returned(item)
<1>1. yielded' # yielded /\ L!Last(yielded') = item
  <2>1. yielded \in Seq(Item) /\ yielded' = Append(yielded, item)
    BY DEF Reading
  <2> HIDE DEF item
  <2> QED
    BY <2>1, LastAppended
<1>2. b.channel_index = data[k].index
  <2>1. FramesFound \in Nat
    BY PlaceIs
  <2>2. k \notin 1..FramesFound
    BY <2>1
  <2>3. blocks[k] = Garbage(data[k].index)
    BY <2>2 DEF Laid
  <2> QED
    BY <2>3 DEF L!Returned, Garbage
<1>3. item.result = r
  OBVIOUS
<1>4. data[k].index \notin L!A!Indices
  BY DeclaredIndices
<1>5. L!A!Error(b) = "UnknownChannelIndex"
  BY <1>2, <1>4 DEF L!A!Error
<1>6. \/ L!A!apply_block(b)
      \/ L!A!RejectBlock(b)
      \/ r \in L!A!IteratorErrors /\ L!A!Fail(r)
  <2> HIDE DEF item
  <2> QED
    BY <1>1, <1>3 DEF L!Turn
<1> HIDE DEF b, item
<1>7. outcome' = "UnknownChannelIndex"
  <2>1. ~L!A!apply_block(b)
    BY <1>5 DEF L!A!apply_block
  <2>2. L!A!RejectBlock(b) => outcome' = "UnknownChannelIndex"
    BY <1>5 DEF L!A!RejectBlock, L!A!Fail
  <2>3. r \in L!A!IteratorErrors => r = "UnknownChannelIndex"
    BY DEF L!A!IteratorErrors
  <2> QED
    BY <1>6, <2>1, <2>2, <2>3 DEF L!A!Fail
<1>8. (Lost # {})'
  <2>1. rotten \in Lost
    BY DEF Laid, DamageIs, Lost
  <2>2. Lost' = Lost
    BY DamageStays
  <2> QED
    BY <2>1, <2>2
<1>9. (\E j \in DOMAIN data : data[j].index \notin L!A!Indices)'
  <2>1. \E j \in DOMAIN data : data[j].index \notin L!A!Indices
    BY <1>4
  <2> QED
    BY <2>1 DEF L!A!Indices
<1> QED
  BY <1>7, <1>8, <1>9 DEF DamageFailed

\* One turn of the loop.
LEMMA TurnStep ==
    ASSUME Laid, Reading, Assembled(Place(Passed)), L!Turn, Written',
           UNCHANGED <<vars, told, damage>>
    PROVE  /\ Laid'
           /\ \/ outcome' = "loading" /\ Reading' /\ Assembled(Place(Passed))'
              \/ DamageFailed'
<1>1. L!R!next /\ blocks' = blocks /\ outcome = "loading" /\ finished = FALSE
  BY NextCalls DEF L!Turn, Reading
<1>2. /\ FramesFound \in Nat /\ frame \in Nat /\ frame <= FramesFound
      /\ yielded \in Seq(Item) /\ Passed = frame
  BY <1>1, PlaceIs DEF Reading, Passed
<1>3. UNCHANGED <<vars, damage>> /\ FramesFound' = FramesFound /\ \A k : Place(k)' = Place(k)
  BY DamageStays
<1>4. CASE frame = FramesFound
  <2>1. \/ /\ finished' = TRUE /\ frame' \in {FramesFound, FramesFound + 1}
           /\ UNCHANGED <<data, present, declared, adrift, yielded>>
        \/ /\ rotten < resumed
           /\ FramesFound + 1 \in DOMAIN data /\ data[FramesFound + 1].index \notin 0..(N - 1)
           /\ UNCHANGED <<data, present, declared, adrift>>
           /\ \E r \in {"UnknownChannelIndex", "SignatureBlock"} :
                 yielded' = Append(yielded, [frame |-> FramesFound + 1, result |-> r])
    BY <1>1, <1>4, ReadEnd
  <2>2. Laid'
    BY <1>1, <1>3, <2>1, LaidStays
  <2>3. CASE finished' = TRUE /\ frame' \in {FramesFound, FramesFound + 1}
             /\ UNCHANGED <<data, present, declared, adrift, yielded>>
    <3>1. UNCHANGED L!assembly
      BY <2>3 DEF L!Turn
    <3>2. builders' = builders /\ outcome' = outcome
      BY <3>1 DEF L!assembly
    <3>3. Reading'
      <4>1. /\ (frame \in 0..(FramesFound + 1))' /\ (frame >= FramesFound)'
        BY <1>2, <1>3, <2>3
      <4> QED
        BY <1>2, <2>3, <4>1 DEF Reading, Item
    <3> DEFINE p == Place(FramesFound)
    <3>4. AssembledIn(builders, p)
      BY <1>2, <1>4 DEF Assembled
    <3>5. Place(Passed)' = p
      <4>1. Passed' = FramesFound
        BY <1>3, <2>3 DEF Passed
      <4> QED
        BY <1>3, <4>1
    <3> HIDE DEF p
    <3>6. Assembled(Place(Passed))'
      BY <3>2, <3>4, <3>5, KeptStays DEF Assembled
    <3> QED
      BY <1>1, <2>2, <3>2, <3>3, <3>6
  <2>4. CASE rotten < resumed
             /\ FramesFound + 1 \in DOMAIN data /\ data[FramesFound + 1].index \notin 0..(N - 1)
             /\ UNCHANGED <<data, present, declared, adrift>>
             /\ \E r \in {"UnknownChannelIndex", "SignatureBlock"} :
                   yielded' = Append(yielded, [frame |-> FramesFound + 1, result |-> r])
    <3> DEFINE k == FramesFound + 1
    <3>1. PICK r \in {"UnknownChannelIndex", "SignatureBlock"} :
                 yielded' = Append(yielded, [frame |-> k, result |-> r])
      BY <2>4
    <3>2. k \in DOMAIN data /\ k = FramesFound + 1 /\ data[k].index \notin 0..(N - 1)
      BY <2>4
    <3> HIDE DEF k
    <3>3. DamageFailed'
      BY <1>3, <2>4, <3>1, <3>2, UnknownStep
    <3> QED
      BY <2>2, <3>3
  <2> QED
    BY <2>1, <2>3, <2>4
<1>5. CASE frame < FramesFound
  <2> DEFINE k == frame + 1
  <2>1. PICK r \in Results(k) : Passes(r)
    BY <1>1, <1>5, ReadWhole
  <2> DEFINE item == [frame |-> k, result |-> r]
             b == L!Returned(item)
  <2>2. UNCHANGED <<data, present, declared>> /\ yielded' = Append(yielded, item)
    BY <2>1 DEF Passes
  <2>3. Laid'
    BY <1>1, <1>3, <2>2, LaidStays
  <2>4. k \in 1..FramesFound /\ k - 1 = frame
    BY <1>2, <1>5
  <2>5. r \in {"data", "CrcFailed", "ZeroLengthBlock"}
    BY <2>1 DEF Results
  <2>6. Reading' /\ Passed' = k
    BY <1>1, <1>2, <1>3, <1>5, <2>1, <2>5, ReadingStep
  <2>7. yielded' # yielded /\ L!Last(yielded') = item
    <3> HIDE DEF item
    <3> QED
      BY <1>2, <2>2, LastAppended
  <2>8. item.frame = k /\ item.result = r
    OBVIOUS
  <2>9. item.result \notin L!A!IteratorErrors
    BY <2>5 DEF L!A!IteratorErrors
  <2>10. L!A!apply_block(b) \/ L!A!RejectBlock(b)
    <3> HIDE DEF item
    <3> QED
      BY <2>7, <2>9 DEF L!Turn
  <2>11. Assembled(Place(k - 1))
    BY <1>2, <2>4
  <2> HIDE DEF item, k
  <2>12. \/ outcome' = outcome /\ AssembledIn(builders', Place(k))
         \/ outcome' = "ContinuedDataWithoutStart" /\ BeginningIsLost
    BY <2>1, <2>4, <2>8, <2>10, <2>11, FrameTaken
  <2>13. CASE outcome' = outcome /\ AssembledIn(builders', Place(k))
    <3> DEFINE p == Place(k)
    <3>1. AssembledIn(builders', p) /\ Place(Passed)' = p
      BY <1>3, <2>6, <2>13
    <3> HIDE DEF p
    <3>2. AssembledIn(builders, Place(Passed))'
      BY <3>1, KeptStays
    <3> QED
      BY <1>1, <2>3, <2>6, <2>13, <3>2 DEF Assembled
  <2>14. CASE outcome' = "ContinuedDataWithoutStart" /\ BeginningIsLost
    <3>1. BeginningIsLost'
      BY <1>3, <2>14, DamageStays
    <3> QED
      BY <2>3, <2>14, <3>1 DEF DamageFailed
  <2> QED
    BY <2>12, <2>13, <2>14
<1> QED
  BY <1>2, <1>4, <1>5

LEMMA LoadStep == RecordingInv /\ Written' /\ Load => RecordingInv'
<1> SUFFICES ASSUME RecordingInv, Written', Load PROVE RecordingInv'
  OBVIOUS
<1>1. /\ opened = TRUE /\ opened' = TRUE /\ L!Next /\ UNCHANGED <<vars, told, damage>>
      /\ file' = file
  BY DEF Load, RecordingInv, vars, disk
<1>2. outcome = "loading"
  BY <1>1 DEF L!Next, L!Turn, L!Finish, L!A!Finish
<1>3. Laid /\ Reading /\ Assembled(Place(Passed))
  BY <1>1, <1>2 DEF RecordingInv, DamageFailed
<1>4. CASE L!Turn
  BY <1>1, <1>3, <1>4, TurnStep DEF RecordingInv
<1>5. CASE L!Finish
  <2>1. /\ finished /\ outcome' = "loaded" /\ builders' = builders
        /\ UNCHANGED <<data, present, declared, blocks>>
    BY <1>5 DEF L!Finish, L!A!Finish, L!reader
  <2>2. Laid'
    BY <1>1, <1>3, <2>1, LaidStays
  <2> DEFINE p == Place(FramesFound)
             n == Len(file)
  <2>3. AssembledIn(builders, p)
    BY <1>3, <2>1 DEF Assembled, Passed
  <2>4. p \in Nat /\ n \in Nat /\ p <= n /\ \A i \in (p + 1)..n : i \in Lost
    BY <1>3, PlaceIs
  <2> HIDE DEF p
  <2>5. AssembledIn(builders, Len(file))
    BY <2>3, <2>4, AssembledStill
  <2>6. Assembled(Len(file))'
    BY <1>1, <2>1, <2>5, KeptStays DEF Assembled
  <2> QED
    BY <1>1, <2>1, <2>2, <2>6 DEF RecordingInv
<1> QED
  BY <1>1, <1>4, <1>5 DEF L!Next

LEMMA RecordingInvStep == RecordingInv /\ [AllNext]_all => RecordingInv'
<1> SUFFICES ASSUME RecordingInv, [AllNext]_all PROVE RecordingInv'
  OBVIOUS
<1>1. Written'
  BY WrittenStep DEF RecordingInv
<1>2. CASE Record
  <2>1. /\ opened = FALSE /\ opened' = FALSE /\ UNCHANGED loader
    BY <1>2 DEF Record, RecordingInv
  <2>2. Untouched'
    BY <2>1 DEF RecordingInv, Untouched, loader, L!R!Started, L!R!NoStats, L!A!Init
  <2> QED
    BY <1>1, <2>1, <2>2 DEF RecordingInv
<1>3. CASE Open
  BY <1>1, <1>3, OpenStep
<1>4. CASE Load
  BY <1>1, <1>4, LoadStep
<1>5. CASE UNCHANGED all
  <2>1. /\ UNCHANGED <<vars, told, damage>> /\ UNCHANGED <<data, present, declared, blocks>>
        /\ opened' = opened /\ outcome' = outcome /\ builders' = builders
        /\ frame' = frame /\ finished' = finished
    BY <1>5 DEF all, loader
  <2>2. /\ UNCHANGED <<vars, damage>> /\ file' = file /\ FramesFound' = FramesFound
        /\ BeginningIsLost' = BeginningIsLost /\ Lost' = Lost /\ \A k : Place(k)' = Place(k)
    BY <2>1, DamageStays
  <2>3. opened => Laid'
    BY <1>1, <2>1, <2>2, LaidStays DEF RecordingInv
  <2>4. ~opened => Untouched'
    BY <1>5 DEF RecordingInv, Untouched, all, loader, L!R!Started, L!R!NoStats, L!A!Init
  <2>5. Reading => Reading'
    BY <1>5, <2>2 DEF Reading, OffsetIn, all, loader, Item
  <2>6. Assembled(Place(Passed)) => Assembled(Place(Passed))'
    <3> DEFINE p == Place(Passed)
    <3>1. p' = p
      BY <2>1, <2>2 DEF Passed
    <3> HIDE DEF p
    <3>2. Assembled(p) => Assembled(p)'
      BY <2>1, <3>1, KeptStays DEF Assembled
    <3> QED
      BY <3>2 DEF p
  <2>7. Assembled(Len(file)) => Assembled(Len(file))'
    BY <2>1, <2>2, KeptStays DEF Assembled
  <2>8. DamageFailed => DamageFailed'
    BY <2>1, <2>2 DEF DamageFailed, L!A!Indices
  <2> QED
    BY <1>1, <2>1, <2>3, <2>4, <2>5, <2>6, <2>7, <2>8 DEF RecordingInv
<1> QED
  BY <1>2, <1>3, <1>4, <1>5 DEF AllNext

\* What the writer left is in the builders, up to the frame that is read: with this
\* invariant of the two programs together, each of the properties is one of states.
THEOREM RecordingInvariant == RecordingSpec => []RecordingInv
<1>1. AllInit => RecordingInv
  BY RecordingInvInit
<1>2. RecordingInv /\ [AllNext]_all => RecordingInv'
  BY RecordingInvStep
<1> QED
  BY <1>1, <1>2, PTL DEF RecordingSpec

\* OnlyDamageFails: only damage makes a load fail, on the index of no channel that a
\* reader out of step comes upon, or where every beginning of a segment is lost; a power
\* loss, a broken call or a torn block never does.
THEOREM OnlyDamageCanFail == RecordingSpec => []OnlyDamageFails
<1>1. RecordingInv => OnlyDamageFails
  <2> SUFFICES ASSUME RecordingInv, Ended, outcome # "loaded"
               PROVE  DamageFailed
    BY DEF OnlyDamageFails, DamageFailed, BeginningIsLost
  <2>1. opened
    BY DEF RecordingInv, Ended, Untouched, L!A!Init
  <2> QED
    BY <2>1 DEF RecordingInv, Ended
<1> QED
  BY <1>1, RecordingInvariant, PTL

---------------------------------------------------------------------------
(* What a channel presents. *)

\* The last element of each piece of a sequence has this number.
Ending(e, p) ==
    /\ e \in [0..Len(p) -> Nat] /\ e[0] = 0
    /\ \A k \in 1..Len(p) : e[k] = e[k - 1] + Len(p[k])

\* Of the elements of the pieces, each is in P with its number in the whole.
Numbered(P, e, p) ==
    \A k \in 1..Len(p) : \A i \in 1..Len(p[k]) : <<e[k - 1] + i, p[k][i]>> \in P

LEMMA PiecesNumber ==
    ASSUME NEW X, NEW p \in Seq(Seq(X)), p # <<>>, NEW e, Ending(e, p), NEW P, Numbered(P, e, p)
    PROVE  /\ FlattenSeq(p) \in Seq(X) /\ Len(FlattenSeq(p)) = e[Len(p)]
           /\ \A j \in 1..e[Len(p)] : <<j, FlattenSeq(p)[j]>> \in P
<1> DEFINE n == Len(p)
<1>1. n \in Nat /\ n > 0 /\ \A k \in 1..n : p[k] \in Seq(X)
  OBVIOUS
<1>2. PICK g \in [1..n -> Seq(X)] : Flattens(g, p) /\ FlattenSeq(p) = g[n]
  BY FlattenUnfolds
<1>3. \A k \in 1..n : g[k] = IF k = 1 THEN p[k] ELSE g[k - 1] \o p[k]
  BY <1>2 DEF Flattens
<1>4. /\ e \in [0..n -> Nat] /\ e[0] = 0
      /\ \A k \in 1..n : e[k] = e[k - 1] + Len(p[k])
  BY DEF Ending
<1>5. \A k \in 1..n : \A i \in 1..Len(p[k]) : <<e[k - 1] + i, p[k][i]>> \in P
  BY DEF Numbered
<1> HIDE DEF n
<1> DEFINE Goes(k) == /\ Len(g[k]) = e[k]
                      /\ \A j \in 1..e[k] : <<j, g[k][j]>> \in P
           S == {k \in Nat : k + 1 <= n => Goes(k + 1)}
<1>6. 0 \in S
  <2>0. 1 \in 1..n /\ 1 - 1 = 0
    BY <1>1
  <2>1. 1 \in 1..n /\ g[1] = p[1] /\ p[1] \in Seq(X) /\ e[1] = e[0] + Len(p[1])
    <3>1. g[1] = p[1] /\ p[1] \in Seq(X)
      BY <1>1, <1>3, <2>0
    <3>2. e[1] = e[1 - 1] + Len(p[1])
      BY <1>4, <2>0
    <3> QED
      BY <2>0, <3>1, <3>2
  <2>2. Len(p[1]) \in Nat
    BY <2>1
  <2>3. Len(g[1]) = e[1] /\ e[1] = Len(p[1])
    BY <1>4, <2>1, <2>2
  <2>4. \A j \in 1..Len(p[1]) : <<j, p[1][j]>> \in P
    <3>1. \A i \in 1..Len(p[1]) : <<e[0] + i, p[1][i]>> \in P
      BY <1>5, <2>1
    <3>2. \A i \in 1..Len(p[1]) : e[0] + i = i
      BY <1>4, <2>2
    <3> QED
      BY <3>1, <3>2
  <2>5. Goes(1)
    BY <2>1, <2>3, <2>4
  <2> HIDE DEF Goes
  <2> QED
    BY <2>5
<1>7. ASSUME NEW k \in Nat, k \in S
      PROVE  k + 1 \in S
  <2> SUFFICES ASSUME (k + 1) + 1 <= n
               PROVE  Goes((k + 1) + 1)
    OBVIOUS
  <2> DEFINE x == (k + 1) + 1
             y == k + 1
             s == g[y]
             r == p[x]
             t == g[x]
  <2>1. x \in 1..n /\ y \in 1..n /\ x # 1 /\ x - 1 = y
    BY <1>1
  <2>2. s \in Seq(X) /\ r \in Seq(X) /\ t = s \o r
    BY <1>1, <1>2, <1>3, <2>1
  <2>3. Len(s) = e[y] /\ \A j \in 1..e[y] : <<j, s[j]>> \in P
    BY <1>1, <1>7, <2>1
  <2>4. e[x] = e[y] + Len(r) /\ e[y] \in Nat
    <3> HIDE DEF x, y
    <3>1. e[x] = e[x - 1] + Len(p[x])
      BY <1>4, <2>1
    <3>2. y \in 0..n
      BY <2>1
    <3>3. e[y] \in Nat
      BY <1>4, <3>2
    <3> QED
      BY <2>1, <3>1, <3>3
  <2>5. \A i \in 1..Len(r) : <<e[y] + i, r[i]>> \in P
    BY <1>5, <2>1
  <2> HIDE DEF s, r, t, x, y, Goes
  <2>6. IsJoin(t, s, r)
    BY <2>2 DEF IsJoin
  <2>7. /\ Len(r) \in Nat /\ Len(t) = e[x]
        /\ \A j \in 1..e[y] : t[j] = s[j]
        /\ \A i \in 1..Len(r) : t[e[y] + i] = r[i]
    <3>1. Parts(X, t, s, r)
      BY <2>2, <2>6, PartsAre
    <3> QED
      BY <2>3, <2>4, <3>1 DEF Parts
  <2>8. ASSUME NEW j \in 1..e[x]
        PROVE  <<j, t[j]>> \in P
    <3>1. CASE j \in 1..e[y]
      BY <2>3, <2>7, <3>1
    <3>2. CASE j \notin 1..e[y]
      <4>1. j - e[y] \in 1..Len(r) /\ e[y] + (j - e[y]) = j
        BY <2>4, <2>7, <2>8, <3>2
      <4>2. t[e[y] + (j - e[y])] = r[j - e[y]]
        BY <2>7, <4>1
      <4>3. <<e[y] + (j - e[y]), r[j - e[y]]>> \in P
        BY <2>5, <4>1
      <4> QED
        BY <4>1, <4>2, <4>3
    <3> QED
      BY <3>1, <3>2
  <2> QED
    BY <2>7, <2>8 DEF Goes, t, x
<1> HIDE DEF S
<1>8. n - 1 \in S /\ n - 1 \in Nat /\ (n - 1) + 1 = n
  <2>1. n - 1 \in Nat /\ (n - 1) + 1 = n
    BY <1>1
  <2>2. \A k \in Nat : k \in S => k + 1 \in S
    BY <1>7
  <2>3. \A k \in Nat : k \in S
    BY <1>6, <2>2, Induction
  <2> QED
    BY <2>1, <2>3
<1>9. Goes(n)
  BY <1>1, <1>8 DEF S
<1>10. g[n] \in Seq(X)
  BY <1>1, <1>2
<1> QED
  BY <1>2, <1>9, <1>10 DEF n

\* These samples, at the times the application meant unless they are off.
Presents(s, ss, off) ==
    /\ s \in Seq(Int \X Nat) /\ Len(s) = Len(ss)
    /\ \A k \in 1..Len(ss) : /\ s[k][2] = ss[k]
                             /\ ss[k] \notin off => s[k] = <<Time(ss[k]), ss[k]>>

\* The time of a stamp, or the place on a grid, at its limit.
LEMMA TimeIs ==
    ASSUME NEW v, NEW time \in Int, told[v].time = time
    PROVE  Time(v) = IF time > MaxTime THEN MaxTime ELSE time
<1>1. MaxTime \in Int /\ time + 0 = time
  BY RecordingAssumption
<1> QED
  BY <1>1 DEF Time, L!A!saturating_add

LEMMA SegmentPresents ==
    ASSUME NEW seg \in L!A!Segment, NEW ss, NEW off, OnGrid(ss, seg, off),
           NEW i \in 1..seg.sample_count
    PROVE  /\ L!A!segment_timestamp(seg, i - 1) \in Int
           /\ ss[seg.start_index + i] \notin off =>
                 L!A!segment_timestamp(seg, i - 1) = Time(ss[seg.start_index + i])
<1> DEFINE start == seg.start
           p == seg.period
           c == seg.sample_count
           z == seg.start_index
           d == (i - 1) * p
           v == ss[z + i]
<1>1. start \in Int /\ p \in Nat /\ c \in Nat /\ MaxTime \in Nat
  BY RecordingAssumption DEF L!A!Segment
<1>2. i - 1 \in Nat
  BY <1>1
<1>3. d \in Nat /\ (i - 1 = 0 \/ p = 0 => d = 0)
  BY <1>1, <1>2
<1>4. start <= MaxTime
  BY DEF OnGrid
<1>5. L!A!segment_timestamp(seg, i - 1) =
        IF p > 0 /\ i - 1 > 0 THEN (IF start + d > MaxTime THEN MaxTime ELSE start + d) ELSE start
  BY DEF L!A!segment_timestamp, L!A!saturating_add
<1>6. v \notin off => told[v].time = start + d
  BY DEF OnGrid, Meets
<1> HIDE DEF start, p, c, z, d, v
<1>7. L!A!segment_timestamp(seg, i - 1) = IF start + d > MaxTime THEN MaxTime ELSE start + d
  BY <1>1, <1>2, <1>3, <1>4, <1>5
<1>8. start + d \in Int
  BY <1>1, <1>3
<1>9. v \notin off => Time(v) = IF start + d > MaxTime THEN MaxTime ELSE start + d
  BY <1>6, <1>8, TimeIs
<1> QED
  BY <1>1, <1>7, <1>8, <1>9 DEF v, z

\* What an equidistant channel presents, segment by segment.
Pieces(ss, sg) ==
    [k \in DOMAIN sg |-> [i \in 1..sg[k].sample_count |->
        <<L!A!segment_timestamp(sg[k], i - 1), ss[sg[k].start_index + i]>>]]

LEMMA GridPresents ==
    ASSUME NEW ss \in Seq(Nat), NEW sg, NEW off, Gridded(ss, sg, off)
    PROVE  Presents(FlattenSeq(Pieces(ss, sg)), ss, off)
<1> DEFINE n == Len(sg)
           a == Len(ss)
           X == Int \X Nat
           p == Pieces(ss, sg)
           e == [k \in 0..n |-> IF k = 0 THEN 0 ELSE End(sg[k])]
           P == {q \in (1..a) \X X :
                    /\ q[2][2] = ss[q[1]]
                    /\ ss[q[1]] \notin off => q[2] = <<Time(ss[q[1]]), ss[q[1]]>>}
<1>1. sg \in Seq(L!A!Segment) /\ sg # <<>> /\ End(sg[n]) = a
  BY DEF Gridded, Covers
<1>2. n \in Nat /\ n > 0 /\ DOMAIN sg = 1..n /\ \A k \in 1..n : sg[k] \in L!A!Segment
  BY <1>1
<1>3. a \in Nat /\ \A k \in 1..a : ss[k] \in Nat
  OBVIOUS
<1>4. \A k \in 1..n : /\ sg[k].start_index = e[k - 1]
                      /\ End(sg[k]) <= a /\ OnGrid(ss, sg[k], off)
  <2> SUFFICES ASSUME NEW k \in 1..n
               PROVE  /\ sg[k].start_index = e[k - 1]
                      /\ End(sg[k]) <= a /\ OnGrid(ss, sg[k], off)
    OBVIOUS
  <2>1. /\ sg[k].start_index = IF k = 1 THEN 0 ELSE End(sg[k - 1])
        /\ End(sg[k]) <= a /\ OnGrid(ss, sg[k], off)
    BY DEF Gridded, Covers
  <2>2. k - 1 \in 0..n /\ (k - 1 = 0 <=> k = 1)
    BY <1>2
  <2> QED
    BY <2>1, <2>2
<1>5. ASSUME NEW k \in 1..n
      PROVE  /\ sg[k].start_index \in Nat /\ sg[k].sample_count \in Nat
             /\ End(sg[k]) = sg[k].start_index + sg[k].sample_count
  BY <1>2 DEF L!A!Segment, End
<1>6. ASSUME NEW k \in 1..n, NEW i \in 1..sg[k].sample_count
      PROVE  LET q == <<sg[k].start_index + i,
                        <<L!A!segment_timestamp(sg[k], i - 1), ss[sg[k].start_index + i]>> >>
             IN  q \in P /\ q[2] \in X
  <2> DEFINE seg == sg[k]
             j == seg.start_index + i
             time == L!A!segment_timestamp(seg, i - 1)
  <2>1. /\ seg \in L!A!Segment /\ OnGrid(ss, seg, off) /\ End(seg) <= a
        /\ i \in 1..seg.sample_count
    BY <1>2, <1>4
  <2>2. seg.start_index \in Nat /\ seg.sample_count \in Nat
        /\ End(seg) = seg.start_index + seg.sample_count
    BY <1>5
  <2> HIDE DEF seg, n, e
  <2>3. j \in 1..a
    <3> DEFINE z == seg.start_index
               c == seg.sample_count
    <3>1. z \in Nat /\ c \in Nat /\ z + c <= a /\ i \in 1..c
      BY <2>1, <2>2
    <3> HIDE DEF z, c, a
    <3>2. z + i \in 1..a
      BY <1>3, <3>1
    <3> QED
      BY <3>2 DEF z
  <2>4. time \in Int /\ (ss[j] \notin off => time = Time(ss[j]))
    BY <2>1, SegmentPresents
  <2> HIDE DEF j, time
  <2>5. <<j, <<time, ss[j]>> >> \in P /\ <<time, ss[j]>> \in X
    BY <1>3, <2>3, <2>4
  <2> QED
    BY <2>5 DEF j, time, seg
<1>7. /\ DOMAIN p = 1..n
      /\ \A k \in 1..n : p[k] = [i \in 1..sg[k].sample_count |->
             <<L!A!segment_timestamp(sg[k], i - 1), ss[sg[k].start_index + i]>>]
  BY <1>2 DEF Pieces
<1> HIDE DEF p, P, X
<1>8. \A k \in 1..n : p[k] \in Seq(X) /\ Len(p[k]) = sg[k].sample_count
  <2> SUFFICES ASSUME NEW k \in 1..n
               PROVE  p[k] \in Seq(X) /\ Len(p[k]) = sg[k].sample_count
    OBVIOUS
  <2> DEFINE c == sg[k].sample_count
             F(i) == <<L!A!segment_timestamp(sg[k], i - 1), ss[sg[k].start_index + i]>>
  <2>1. c \in Nat
    BY <1>5
  <2>2. \A i \in 1..c : F(i) \in X
    BY <1>6
  <2>3. p[k] = [i \in 1..c |-> F(i)]
    BY <1>7
  <2> HIDE DEF c, F
  <2>4. p[k] \in Seq(X) /\ Len(p[k]) = c
    BY <2>1, <2>2, <2>3
  <2> QED
    BY <2>4 DEF c
<1>9. p \in Seq(Seq(X)) /\ Len(p) = n /\ p # <<>>
  <2>1. p = [k \in 1..n |-> p[k]]
    BY <1>2 DEF p, Pieces
  <2>2. p \in Seq(Seq(X)) /\ Len(p) = n
    BY <1>2, <1>8, <2>1
  <2> QED
    BY <1>2, <2>2
<1>10. Ending(e, p)
  <2>1. e \in [0..n -> Nat]
    <3>1. \A k \in 0..n : k # 0 => End(sg[k]) \in Nat
      <4> SUFFICES ASSUME NEW k \in 0..n, k # 0 PROVE End(sg[k]) \in Nat
        OBVIOUS
      <4>1. k \in 1..n
        BY <1>2
      <4> QED
        BY <1>5, <4>1
    <3> QED
      BY <3>1
  <2>2. e[0] = 0
    BY <1>2
  <2>3. \A k \in 1..n : e[k] = e[k - 1] + Len(p[k])
    <3> SUFFICES ASSUME NEW k \in 1..n PROVE e[k] = e[k - 1] + Len(p[k])
      OBVIOUS
    <3>1. e[k] = End(sg[k])
      BY <1>2
    <3>2. e[k - 1] = sg[k].start_index
      BY <1>4
    <3> HIDE DEF e
    <3> QED
      BY <1>5, <1>8, <3>1, <3>2
  <2> HIDE DEF e
  <2> QED
    BY <1>9, <2>1, <2>2, <2>3 DEF Ending
<1>11. e[n] = a
  BY <1>1, <1>2
<1> HIDE DEF e
<1>12. Numbered(P, e, p)
  <2> SUFFICES ASSUME NEW k \in 1..n, NEW i \in 1..sg[k].sample_count
               PROVE  <<e[k - 1] + i, p[k][i]>> \in P
    BY <1>8, <1>9 DEF Numbered
  <2>1. e[k - 1] = sg[k].start_index
    BY <1>4
  <2>2. p[k][i] = <<L!A!segment_timestamp(sg[k], i - 1), ss[sg[k].start_index + i]>>
    BY <1>7
  <2> QED
    BY <1>6, <2>1, <2>2
<1>13. /\ FlattenSeq(p) \in Seq(X) /\ Len(FlattenSeq(p)) = a
       /\ \A j \in 1..a : <<j, FlattenSeq(p)[j]>> \in P
  <2>1. /\ FlattenSeq(p) \in Seq(X) /\ Len(FlattenSeq(p)) = e[Len(p)]
        /\ \A j \in 1..e[Len(p)] : <<j, FlattenSeq(p)[j]>> \in P
    BY <1>9, <1>10, <1>12, PiecesNumber
  <2> QED
    BY <1>9, <1>11, <2>1
<1> DEFINE s == FlattenSeq(p)
<1>14. s \in Seq(X) /\ Len(s) = a /\ \A j \in 1..a : <<j, s[j]>> \in P
  BY <1>13
<1> HIDE DEF s
<1>15. \A j \in 1..a : s[j][2] = ss[j] /\ (ss[j] \notin off => s[j] = <<Time(ss[j]), ss[j]>>)
  BY <1>14 DEF P
<1>16. Presents(s, ss, off)
  BY <1>14, <1>15 DEF Presents, X
<1> QED
  BY <1>16 DEF s, p

LEMMA BuilderPresents ==
    ASSUME NEW ch, NEW m, BuilderIs(builders[ch], ch, m)
    PROVE  Presents(Loaded(ch), builders[ch].samples, Off)
<1> DEFINE c == builders[ch]
           ss == c.samples
           sg == c.segments
           ts == c.timestamps_ns
           off == Off
<1>1. ss \in Seq(Nat) /\ Timed(c.state, ss, sg, ts, off)
  BY DEF BuilderIs, Kept, Holds
<1>2. CASE c.state = "Equidistant"
  <2>1. Loaded(ch) = L!A!FlattenSeq(Pieces(ss, sg))
    BY <1>2, Zenon DEF Loaded, L!A!samples_with_time, Pieces
  <2>2. L!A!FlattenSeq(Pieces(ss, sg)) = FlattenSeq(Pieces(ss, sg))
    BY Zenon DEF L!A!FlattenSeq, FlattenSeq
  <2>3. Gridded(ss, sg, off)
    BY <1>1, <1>2 DEF Timed
  <2>4. Presents(FlattenSeq(Pieces(ss, sg)), ss, off)
    <3> HIDE DEF ss, sg, off
    <3> QED
      BY <1>1, <2>3, GridPresents
  <2> QED
    BY <2>1, <2>2, <2>4
<1>3. CASE c.state # "Equidistant"
  <2>1. Stamped(ss, ts)
    BY <1>1, <1>3 DEF Timed
  <2>2. Loaded(ch) = [i \in DOMAIN ss |-> <<ts[i], ss[i]>>]
    BY <1>3, Zenon DEF Loaded, L!A!samples_with_time
  <2> HIDE DEF ss, ts, c
  <2> DEFINE a == Len(ss)
             s == Loaded(ch)
  <2>3. a \in Nat /\ DOMAIN ss = 1..a /\ \A k \in 1..a : ss[k] \in Nat
    BY <1>1
  <2>4. \A k \in 1..a : ts[k] \in Int /\ ts[k] <= MaxTime /\ told[ss[k]].time = ts[k]
    BY <2>1 DEF Stamped
  <2>5. \A k \in 1..a : Time(ss[k]) = ts[k]
    <3> SUFFICES ASSUME NEW k \in 1..a PROVE Time(ss[k]) = ts[k]
      OBVIOUS
    <3>1. Time(ss[k]) = IF ts[k] > MaxTime THEN MaxTime ELSE ts[k]
      BY <2>4, TimeIs
    <3> QED
      BY <2>4, <3>1, RecordingAssumption
  <2>6. \A k \in 1..a : <<ts[k], ss[k]>> \in Int \X Nat
    BY <2>3, <2>4
  <2>7. s = [k \in 1..a |-> <<ts[k], ss[k]>>]
    BY <2>2, <2>3
  <2> HIDE DEF s
  <2>8. s \in Seq(Int \X Nat) /\ Len(s) = a
    BY <2>3, <2>6, <2>7
  <2>9. \A k \in 1..a : s[k][2] = ss[k] /\ s[k] = <<Time(ss[k]), ss[k]>>
    BY <2>5, <2>7
  <2>10. Presents(s, ss, off)
    BY <2>8, <2>9 DEF Presents
  <2> QED
    BY <2>10 DEF s, ss, c
<1> QED
  BY <1>2, <1>3

---------------------------------------------------------------------------
(* What the two programs promise together. *)

\* What the channels hold once the file has been loaded.
LEMMA LoadedIs ==
    ASSUME RecordingInv, outcome = "loaded"
    PROVE  /\ Laid /\ Left /\ Len(file) \in Nat /\ DOMAIN file = 1..Len(file)
           /\ L!A!Indices = 0..(N - 1)
           /\ \A ch \in 0..(N - 1) :
                 /\ Holds(builders[ch].samples, ch, Len(file))
                 /\ Presents(Loaded(ch), builders[ch].samples, Off)
<1>1. Laid /\ Assembled(Len(file))
  BY DEF RecordingInv, Untouched, L!A!Init, DamageFailed
<1>2. Left /\ Len(file) \in Nat /\ DOMAIN file = 1..Len(file)
  BY <1>1, Lengths DEF Left, Written, IInv, Laid
<1>3. ASSUME NEW ch \in 0..(N - 1)
      PROVE  /\ Holds(builders[ch].samples, ch, Len(file))
             /\ Presents(Loaded(ch), builders[ch].samples, Off)
  <2>1. BuilderIs(builders[ch], ch, Len(file))
    BY <1>1 DEF Assembled, AssembledIn
  <2> QED
    BY <2>1, BuilderPresents DEF BuilderIs, Kept
<1> QED
  BY <1>1, <1>2, <1>3, DeclaredIndices

LEMMA PresentsAre ==
    ASSUME NEW s, NEW ss, NEW off, Presents(s, ss, off), NEW m, NEW ch, Holds(ss, ch, m)
    PROVE  /\ Len(ss) \in Nat /\ DOMAIN s = 1..Len(ss)
           /\ \A k \in 1..Len(ss) : /\ s[k][2] = ss[k]
                                    /\ ss[k] \notin off => s[k] = <<Time(ss[k]), ss[k]>>
<1>1. ss \in Seq(Nat) /\ s \in Seq(Int \X Nat) /\ Len(s) = Len(ss)
  BY DEF Presents, Holds
<1>2. DOMAIN s = 1..Len(ss) /\ Len(ss) \in Nat
  BY <1>1
<1> QED
  BY <1>2 DEF Presents

\* Where nothing is lost, no sample is off.
LEMMA NothingLost ==
    ASSUME Lost = {}
    PROVE  Off = {} /\ \A i, ch : BlockOf(i, ch) <=> file[i].index = ch
  BY DEF Off, Displaced, BlockOf

\* AckedIsLoaded: wherever the power failed or a call broke, the load of what is left
\* succeeds, and every acknowledged sample is in its channel, at the time it was given.
THEOREM AcknowledgedIsLoaded == RecordingSpec => []AckedIsLoaded
<1>1. RecordingInv => AckedIsLoaded
  <2> SUFFICES ASSUME RecordingInv, Ended, Lost = {}
               PROVE  /\ outcome = "loaded"
                      /\ \A v \in acked :
                            \E k \in DOMAIN Loaded(told[v].index) :
                               Loaded(told[v].index)[k] = <<Time(v), v>>
    BY DEF AckedIsLoaded
  <2>1. outcome = "loaded"
    <3>1. ~DamageFailed
      BY DEF DamageFailed, BeginningIsLost
    <3> QED
      BY <3>1 DEF RecordingInv, Ended, Untouched, L!A!Init
  <2>2. ASSUME NEW v \in acked
        PROVE  \E k \in DOMAIN Loaded(told[v].index) :
                  Loaded(told[v].index)[k] = <<Time(v), v>>
    <3>1. /\ Laid /\ Left /\ Len(file) \in Nat
          /\ \A ch \in 0..(N - 1) :
                /\ Holds(builders[ch].samples, ch, Len(file))
                /\ Presents(Loaded(ch), builders[ch].samples, Off)
      BY <2>1, LoadedIs
    <3>2. PICK i, h : At(i, h, v)
      <4>1. AckedIsDurable /\ TypeOK
        BY <3>1 DEF Left, Written, IInv
      <4>2. PICK i \in 1..synced : \E h \in DOMAIN file[i].values : file[i].values[h] = v
        BY <4>1 DEF AckedIsDurable, InFile
      <4>3. i \in 1..Len(file)
        BY <3>1, <4>1 DEF TypeOK
      <4>4. PICK h \in DOMAIN file[i].values : file[i].values[h] = v
        BY <4>2
      <4> QED
        BY <4>3, <4>4 DEF At
    <3> DEFINE ch == file[i].index
               ss == builders[ch].samples
    <3>3. i \in 1..Len(file) /\ told[v].index = ch
      BY <3>1, <3>2, ValueIsTold DEF At
    <3>4. ch \in 0..(N - 1)
      BY <3>1, <3>3, BlockIs
    <3>5. BlockOf(i, ch) /\ Off = {}
      BY NothingLost
    <3>6. Holds(ss, ch, Len(file)) /\ Presents(Loaded(ch), ss, Off)
      BY <3>1, <3>4
    <3> HIDE DEF ss
    <3>7. PICK k \in 1..Len(ss) : ss[k] = v
      BY <3>2, <3>3, <3>5, <3>6 DEF Holds
    <3>8. k \in DOMAIN Loaded(ch) /\ Loaded(ch)[k] = <<Time(v), v>>
      BY <3>5, <3>6, <3>7, PresentsAre
    <3> QED
      BY <3>3, <3>8
  <2> QED
    BY <2>1, <2>2
<1> QED
  BY <1>1, RecordingInvariant, PTL

\* LoadedIsTold: every channel presents what was handed over for it, at the times it was
\* given, in order, once each, and without a gap before the last.
THEOREM LoadedWasTold == RecordingSpec => []LoadedIsTold
<1>1. RecordingInv => LoadedIsTold
  <2> SUFFICES ASSUME RecordingInv, outcome = "loaded", Lost = {}, NEW ch \in L!A!Indices
               PROVE  LET s == Loaded(ch)
                          Value(k) == s[k][2]
                      IN  /\ \A k \in DOMAIN s :
                                /\ Value(k) \in DOMAIN told /\ told[Value(k)].index = ch
                                /\ s[k] = <<Time(Value(k)), Value(k)>>
                                /\ \A j \in DOMAIN s : j < k => Value(j) < Value(k)
                                /\ \A v \in DOMAIN told :
                                      told[v].index = ch /\ v < Value(k) =>
                                         \E j \in DOMAIN s : Value(j) = v
    BY Zenon DEF LoadedIsTold
  <2> DEFINE s == Loaded(ch)
             ss == builders[ch].samples
             n == Len(file)
  <2>1. /\ Laid /\ Left /\ n \in Nat /\ Holds(ss, ch, n) /\ Presents(s, ss, Off)
    BY LoadedIs
  <2>2. Off = {}
    BY NothingLost
  <2>3. n \in 0..n
    BY <2>1
  <2> HIDE DEF s, ss
  <2>4. /\ Len(ss) \in Nat /\ DOMAIN s = 1..Len(ss)
        /\ \A k \in 1..Len(ss) : s[k][2] = ss[k] /\ s[k] = <<Time(ss[k]), ss[k]>>
    BY <2>1, <2>2, PresentsAre
  <2>5. \A j, k \in 1..Len(ss) : j < k => ss[j] < ss[k]
    BY <2>1 DEF Holds
  <2>6. ASSUME NEW k \in 1..Len(ss)
        PROVE  /\ ss[k] \in DOMAIN told /\ told[ss[k]].index = ch
               /\ ss[k] \in Nat /\ ss[k] <= ValueAt(file, n)
    BY <2>1, <2>3, HeldIs
  <2>7. ASSUME NEW k \in 1..Len(ss), NEW v \in DOMAIN told, told[v].index = ch, v < ss[k]
        PROVE  \E j \in 1..Len(ss) : ss[j] = v
    <3>1. ss[k] \in Nat /\ ss[k] <= ValueAt(file, n) /\ ValueAt(file, n) \in Nat
      BY <2>1, <2>3, <2>6 DEF Left, Written, Ordered
    <3>2. v \in Nat
      <4>1. told \in Seq(Sample)
        BY <2>1 DEF Left, Written, Meaning
      <4> QED
        BY <4>1
    <3>3. v <= ValueAt(file, n)
      BY <2>7, <3>1, <3>2
    <3> QED
      BY <2>1, <2>2, <2>3, <2>7, <3>3, ToldIsHeld
  <2>8. ASSUME NEW k \in DOMAIN s
        PROVE  /\ s[k][2] \in DOMAIN told /\ told[s[k][2]].index = ch
               /\ s[k] = <<Time(s[k][2]), s[k][2]>>
               /\ \A j \in DOMAIN s : j < k => s[j][2] < s[k][2]
               /\ \A v \in DOMAIN told : told[v].index = ch /\ v < s[k][2] =>
                     \E j \in DOMAIN s : s[j][2] = v
    BY <2>4, <2>5, <2>6, <2>7
  <2> QED
    BY <2>8 DEF s
<1> QED
  BY <1>1, RecordingInvariant, PTL

\* OnlyHiddenIsLost: a file that loads has lost the blocks that the damage hides, and no
\* others; the times of the rest are right, but behind a lost block of the same segment.
THEOREM OnlyHiddenBlocksAreLost == RecordingSpec => []OnlyHiddenIsLost
<1>1. RecordingInv => OnlyHiddenIsLost
  <2> SUFFICES ASSUME RecordingInv, outcome = "loaded", NEW ch \in L!A!Indices
               PROVE  LET s    == Loaded(ch)
                          kept == {i \in DOMAIN file : i \notin Lost /\ file[i].index = ch}
                      IN  /\ {s[k][2] : k \in DOMAIN s} = UNION {ValuesOf(i) : i \in kept}
                          /\ \A j, k \in DOMAIN s : j < k => s[j][2] < s[k][2]
                          /\ \A i \in kept, k \in DOMAIN s :
                                ~Displaced(i) /\ s[k][2] \in ValuesOf(i) =>
                                   s[k][1] = Time(s[k][2])
    BY Zenon DEF OnlyHiddenIsLost
  <2> DEFINE s == Loaded(ch)
             ss == builders[ch].samples
             n == Len(file)
             kept == {i \in DOMAIN file : i \notin Lost /\ file[i].index = ch}
  <2>1. /\ Laid /\ Left /\ n \in Nat /\ DOMAIN file = 1..n
        /\ Holds(ss, ch, n) /\ Presents(s, ss, Off)
    BY LoadedIs
  <2> HIDE DEF s, ss
  <2>2. /\ Len(ss) \in Nat /\ DOMAIN s = 1..Len(ss)
        /\ \A k \in 1..Len(ss) : /\ s[k][2] = ss[k]
                                 /\ ss[k] \notin Off => s[k] = <<Time(ss[k]), ss[k]>>
    BY <2>1, PresentsAre
  <2>3. ASSUME NEW k \in 1..Len(ss)
        PROVE  \E i \in kept : ss[k] \in ValuesOf(i)
    <3>1. PICK i \in 1..n : BlockOf(i, ch) /\ \E h : At(i, h, ss[k])
      BY <2>1 DEF Holds
    <3>2. ss[k] \in ValuesOf(i)
      BY <3>1 DEF At, ValuesOf
    <3>3. i \in kept
      BY <2>1, <3>1 DEF BlockOf
    <3> QED
      BY <3>2, <3>3
  <2>4. ASSUME NEW i \in kept, NEW v \in ValuesOf(i)
        PROVE  \E k \in 1..Len(ss) : ss[k] = v
    <3>1. PICK h \in DOMAIN file[i].values : file[i].values[h] = v
      BY DEF ValuesOf
    <3>2. At(i, h, v) /\ BlockOf(i, ch) /\ i \in 1..n
      BY <2>1, <2>4, <3>1 DEF At, BlockOf
    <3> QED
      BY <2>1, <3>2 DEF Holds
  <2> HIDE DEF kept
  <2>5. {s[k][2] : k \in DOMAIN s} = UNION {ValuesOf(i) : i \in kept}
    <3>1. ASSUME NEW v, v \in {s[k][2] : k \in DOMAIN s}
          PROVE  \E i \in kept : v \in ValuesOf(i)
      BY <2>2, <2>3, <3>1
    <3>2. ASSUME NEW i \in kept, NEW v \in ValuesOf(i)
          PROVE  v \in {s[k][2] : k \in DOMAIN s}
      <4>1. PICK k \in 1..Len(ss) : ss[k] = v
        BY <2>4
      <4> QED
        BY <2>2, <4>1
    <3> QED
      BY <3>1, <3>2
  <2>6. ASSUME NEW j \in DOMAIN s, NEW k \in DOMAIN s, j < k
        PROVE  s[j][2] < s[k][2]
    <3>1. ss[j] < ss[k]
      BY <2>1, <2>2, <2>6 DEF Holds
    <3> QED
      BY <2>2, <3>1
  <2>7. ASSUME NEW i \in kept, NEW k \in DOMAIN s, ~Displaced(i), s[k][2] \in ValuesOf(i)
        PROVE  s[k][1] = Time(s[k][2])
    <3> DEFINE v == ss[k]
    <3>1. s[k][2] = v /\ (v \notin Off => s[k] = <<Time(v), v>>)
      BY <2>2
    <3>2. i \in 1..n /\ v \in ValuesOf(i)
      BY <2>1, <2>7, <3>1 DEF kept
    <3>3. PICK h : At(i, h, v)
      BY <3>2 DEF ValuesOf, At
    <3> HIDE DEF v
    <3>4. v \notin Off
      <4> SUFFICES ASSUME v \in Off PROVE FALSE
        OBVIOUS
      <4>1. PICK j \in DOMAIN file : Displaced(j) /\ \E g : At(j, g, v)
        BY OffAre
      <4>2. i = j
        BY <2>1, <3>3, <4>1, InOneBlock
      <4> QED
        BY <2>7, <4>1, <4>2
    <3> QED
      BY <3>1, <3>4
  <2> QED
    BY <2>5, <2>6, <2>7 DEF s, kept
<1> QED
  BY <1>1, RecordingInvariant, PTL
=============================================================================
