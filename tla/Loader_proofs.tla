----------------------------- MODULE Loader_proofs -----------------------------
(***************************************************************************)
(* A load gives every channel the samples of all its usable frames, for    *)
(* every metablock and every data section, wherever the stream ends and    *)
(* whichever reads fail: what the reader and the builders do turn by turn. *)
(***************************************************************************)
EXTENDS Loader, FoldLemmas, TLAPS

FrameType == [index : Nat, length : Nat, control : R!ControlKinds,
              multi : BOOLEAN, crc : BOOLEAN, sound : BOOLEAN]

Item == [frame : Nat, result : R!Results]

\* Where the reader is in the data section.
InFile ==
    /\ data \in Seq(FrameType) /\ blocks \in Seq(A!BlockType)
    /\ Len(blocks) = Len(data)
    /\ \A k \in 1..Len(data) : R!Usable(data[k]) => blocks[k].kind # "Skipped"
    /\ present \in Int
    /\ frame \in 0..Len(data)
    /\ yielded \in Seq(Item)

---------------------------------------------------------------------------
(* The reader: where a frame begins. *)

\* A frame takes at least its index and the shorter length field, and that of a
\* declared channel is as wide as the metablock says.
LEMMA FrameSizes ==
    ASSUME NEW g \in FrameType
    PROVE  /\ R!FrameSize(g) \in Nat /\ R!FrameSize(g) >= 4
           /\ R!Width(g) \in {2, 4}
           /\ g.index # TrailerIndex => R!FrameSize(g) = 2 + R!Width(g) + g.length
           /\ R!FrameSize(g) >= 2 + R!Width(g)
  <1>1. g.length \in Nat /\ g.index \in Nat
    BY DEF FrameType
  <1>2. R!Width(g) \in {2, 4}
    <2>1. CASE g.index \in DOMAIN ChannelInfo
      <3>1. PICK i \in DOMAIN Metablock : Metablock[i].index = g.index
        BY <2>1 DEF ChannelInfo
      <3>. DEFINE D == [index : Nat, name : STRING, data_type : A!DataTypes,
                        size_of_length_value : {2, 4}]
                  Same == {k \in DOMAIN Metablock : Metablock[k].index = g.index}
                  IsLast(k) == /\ Metablock[k].index = g.index
                               /\ \A j \in DOMAIN Metablock : Metablock[j].index = g.index => j <= k
                  last == CHOOSE k \in DOMAIN Metablock : IsLast(k)
      <3>2. Metablock \in Seq(D)
        BY MetablockAssumption
      <3>3. \E k \in DOMAIN Metablock : IsLast(k)
        <4>1. DOMAIN Metablock = 1..Len(Metablock) /\ Len(Metablock) \in Nat
          <5>. HIDE DEF D
          <5>. QED  BY <3>2
        <4>2. Same \in SUBSET (1..Len(Metablock)) /\ Same # {}
          BY <3>1, <4>1
        <4>3. \E k \in Same : \A j \in Same : k >= j
          BY <4>1, <4>2, LargestOfRange
        <4>. QED  BY <4>1, <4>3
      <3>4. last \in DOMAIN Metablock
        BY <3>3
      <3>5. ChannelInfo[g.index].size_of_length_value = Metablock[last].size_of_length_value
        BY <2>1 DEF ChannelInfo
      <3>. HIDE DEF last, D
      <3>6. Metablock[last] \in D
        BY <3>2, <3>4
      <3>7. Metablock[last].size_of_length_value \in {2, 4}
        BY <3>6 DEF D
      <3>. QED  BY <2>1, <3>5, <3>7 DEF R!Width
    <2>2. CASE g.index \notin DOMAIN ChannelInfo
      BY <2>2 DEF R!Width
    <2>. QED  BY <2>1, <2>2
  <1>. QED  BY <1>1, <1>2, MetablockAssumption DEF R!FrameSize

\* The size of a data section is the sum of the sizes of its frames.
LEMMA SizeIsSum ==
    ASSUME NEW s \in Seq(FrameType)
    PROVE  IsSum(R!SizeOf(s), 1..Len(s), [i \in 1..Len(s) |-> R!FrameSize(s[i])])
  <1>. DEFINE D == 1..Len(s)
              n == [i \in D |-> R!FrameSize(s[i])]
              pick == [u \in SUBSET D |-> R!Max(u)]
              t == CHOOSE it : it = [u \in SUBSET DOMAIN s |->
                      IF u = {} THEN 0 ELSE it[u \ {R!Max(u)}] + R!FrameSize(s[R!Max(u)])]
  <1>1. R!SizeOf(s) = t[DOMAIN s]
    BY Zenon DEF R!SizeOf, R!FoldLeft, R!MapThenFoldSet
  <1>2. DOMAIN s = D /\ Len(s) \in Nat
    OBVIOUS
  <1>3. ASSUME NEW u \in SUBSET D, u # {}
        PROVE  R!Max(u) \in u
    <2>1. \E x \in u : \A y \in u : x >= y
      BY <1>2, <1>3, LargestOfRange
    <2>. QED  BY <2>1, Zenon DEF R!Max
  <1>4. Picks(pick, D)
    BY <1>3 DEF Picks
  <1>5. n \in [D -> Int] /\ IsFiniteSet(D)
    <2>1. \A i \in D : s[i] \in FrameType
      OBVIOUS
    <2>2. \A i \in D : R!FrameSize(s[i]) \in Int
      BY <2>1, FrameSizes
    <2>. QED  BY <2>2, <1>2, FS_Interval
  <1>. HIDE DEF pick, n
  <1>6. PICK w : Summing(w, D, n, pick)
    BY <1>4, <1>5, SumExists
  <1>7. \A u \in SUBSET D : u # {} => pick[u] = R!Max(u) /\ n[pick[u]] = R!FrameSize(s[R!Max(u)])
    BY <1>3 DEF pick, n
  <1>8. w = [u \in SUBSET DOMAIN s |->
                IF u = {} THEN 0 ELSE w[u \ {R!Max(u)}] + R!FrameSize(s[R!Max(u)])]
    <2>. HIDE DEF D
    <2>. QED  BY <1>2, <1>6, <1>7 DEF Summing
  <1>9. t = [u \in SUBSET DOMAIN s |->
                IF u = {} THEN 0 ELSE t[u \ {R!Max(u)}] + R!FrameSize(s[R!Max(u)])]
    BY <1>8, Zenon
  <1>. HIDE DEF t
  <1>10. Adds(t, D, n, pick)
    <2>. HIDE DEF D
    <2>. QED  BY <1>2, <1>7, <1>9 DEF Adds
  <1>11. IsSum(R!SizeOf(s), D, n)
    BY <1>1, <1>2, <1>4, <1>10 DEF IsSum
  <1>. QED  BY <1>11 DEF n

\* A frame begins where the one before it ends.
LEMMA Offsets ==
    ASSUME data \in Seq(FrameType), NEW i \in 1..Len(data)
    PROVE  R!Offset(i) \in Int /\ R!Offset(i + 1) = R!Offset(i) + R!FrameSize(data[i])
  <1>. DEFINE s == SubSeq(data, 1, i - 1)
              r == SubSeq(data, 1, i)
              n == [k \in 1..Len(s) |-> R!FrameSize(s[k])]
              m == [k \in 1..Len(r) |-> R!FrameSize(r[k])]
  <1>1. /\ s \in Seq(FrameType) /\ Len(s) = i - 1
        /\ r \in Seq(FrameType) /\ Len(r) = i
        /\ \A k \in 1..(i - 1) : s[k] = data[k]
        /\ \A k \in 1..i : r[k] = data[k]
        /\ i \in Nat /\ i - 1 \in Nat
    OBVIOUS
  <1>2. IsSum(R!SizeOf(s), 1..(i - 1), n) /\ IsSum(R!SizeOf(r), 1..i, m)
    BY <1>1, SizeIsSum
  <1>3. \A k \in 1..i : data[k] \in FrameType
    OBVIOUS
  <1>4. /\ \A k \in 1..(i - 1) : n[k] \in Int /\ m[k] = n[k]
        /\ m[i] = R!FrameSize(data[i]) /\ m[i] \in Int
    BY <1>1, <1>3, FrameSizes
  <1>. DEFINE D == 1..(i - 1)
  <1>5. IsFiniteSet(D) /\ D \cup {i} = 1..i /\ i \notin D
    <2>1. IsFiniteSet(D)
      BY <1>1, FS_Interval
    <2>2. D \cup {i} = 1..i /\ i \notin D
      BY <1>1
    <2>. QED  BY <2>1, <2>2
  <1>6. R!Offset(i) = R!SizeOf(s) /\ R!Offset(i + 1) = R!SizeOf(r)
    BY <1>1 DEF R!Offset
  <1>. HIDE DEF s, r, n, m, D
  <1>7. /\ IsSum(R!SizeOf(s), D, n) /\ IsSum(R!SizeOf(r), D \cup {i}, m)
        /\ \A k \in D : n[k] \in Int
        /\ \A k \in D : m[k] = n[k]
    BY <1>2, <1>4, <1>5 DEF D
  <1>8. R!SizeOf(s) \in Int
    BY <1>5, <1>7, SumIsInteger
  <1>9. R!SizeOf(r) = R!SizeOf(s) + m[i]
    BY <1>4, <1>5, <1>7, SumOfOneMore
  <1>. QED  BY <1>4, <1>6, <1>8, <1>9

LEMMA FirstOffset ==
    ASSUME data \in Seq(FrameType)
    PROVE  R!Offset(1) = 0
  <1>1. R!Offset(1) = R!SizeOf(<<>>)
    <2>1. SubSeq(data, 1, 1 - 1) = <<>>
      OBVIOUS
    <2>. QED  BY <2>1 DEF R!Offset
  <1>2. <<>> \in Seq(FrameType) /\ 1..Len(<<>>) = {}
    OBVIOUS
  <1>3. IsSum(R!SizeOf(<<>>), {}, [k \in {} |-> R!FrameSize(<<>>[k])])
    BY <1>2, SizeIsSum
  <1>. QED  BY <1>1, <1>3, SumOfNothing

\* Frames begin in their order.
LEMMA OffsetsGrow ==
    ASSUME data \in Seq(FrameType), NEW i \in 1..(Len(data) + 1), NEW j \in i..(Len(data) + 1)
    PROVE  R!Offset(i) \in Int /\ R!Offset(j) \in Int /\ R!Offset(i) <= R!Offset(j)
  <1>. DEFINE n == Len(data)
              S == {d \in Nat : i + d \in 1..(n + 1) =>
                       R!Offset(i + d) \in Int /\ R!Offset(i) <= R!Offset(i + d)}
  <1>1. n \in Nat
    OBVIOUS
  <1>2. R!Offset(i) \in Int
    <2>1. CASE i = 1
      BY <2>1, FirstOffset
    <2>2. CASE i # 1
      <3>1. i - 1 \in 1..Len(data) /\ (i - 1) + 1 = i
        BY <1>1, <2>2
      <3>2. data[i - 1] \in FrameType
        BY <3>1
      <3>3. /\ R!Offset(i - 1) \in Int /\ R!FrameSize(data[i - 1]) \in Nat
            /\ R!Offset((i - 1) + 1) = R!Offset(i - 1) + R!FrameSize(data[i - 1])
        BY <3>1, <3>2, Offsets, FrameSizes
      <3>4. R!Offset((i - 1) + 1) \in Int
        BY <3>3
      <3>. QED  BY <3>1, <3>4
    <2>. QED  BY <2>1, <2>2
  <1>3. 0 \in S
    <2>1. i + 0 = i
      BY <1>1
    <2>. QED  BY <1>2, <2>1
  <1>4. ASSUME NEW d \in Nat, d \in S
        PROVE  d + 1 \in S
    <2>. SUFFICES ASSUME i + (d + 1) \in 1..(n + 1)
                  PROVE  /\ R!Offset(i + (d + 1)) \in Int
                         /\ R!Offset(i) <= R!Offset(i + (d + 1))
      OBVIOUS
    <2>1. i + d \in 1..Len(data) /\ i + d \in 1..(n + 1) /\ (i + d) + 1 = i + (d + 1)
      BY <1>1
    <2>2. data[i + d] \in FrameType
      BY <2>1
    <2>3. R!Offset(i + d) \in Int /\ R!Offset(i) <= R!Offset(i + d)
      BY <1>4, <2>1
    <2>4. R!Offset((i + d) + 1) = R!Offset(i + d) + R!FrameSize(data[i + d])
      BY <2>1, Offsets
    <2>. QED  BY <1>2, <2>1, <2>2, <2>3, <2>4, FrameSizes
  <1>. HIDE DEF S
  <1>5. j - i \in Nat /\ i + (j - i) = j
    BY <1>1
  <1>6. j - i \in S
    BY <1>3, <1>4, <1>5, Induction
  <1>. QED  BY <1>1, <1>2, <1>5, <1>6 DEF S

---------------------------------------------------------------------------
(* The reader: what a call of next() comes to. *)

\* The whole frame is taken, and answered for.
Passes(result) ==
    /\ R!Calls /\ frame < Len(data) /\ R!f.index # TrailerIndex
    /\ pos + R!FrameSize(R!f) <= present
    /\ pos' = pos + R!FrameSize(R!f) /\ frame' = frame + 1
    /\ UNCHANGED <<data, present, integrity, finished, adrift>>
    /\ yielded' = Append(yielded, [frame |-> frame + 1, result |-> result])
    /\ result \in R!SkipReasons \cup {"data", "InvalidBlock"}
    /\ result = "data" <=> R!Usable(R!f)

\* An error.
Errs(result) ==
    /\ R!Calls
    /\ UNCHANGED <<data, present, integrity>>
    /\ frame' \in 0..Len(data)
    /\ yielded' = Append(yielded, [frame |-> frame + 1, result |-> result])
    /\ result \in R!Errors

\* The end: what is left is no whole frame.
Stops ==
    /\ R!Calls /\ finished' = TRUE
    /\ UNCHANGED <<data, present, integrity, frame, yielded>>
    /\ frame < Len(data) => pos + R!FrameSize(R!f) > present

\* The end: the trailer.
Trails ==
    /\ R!Calls /\ frame < Len(data) /\ R!f.index = TrailerIndex
    /\ finished' = TRUE
    /\ UNCHANGED <<data, present, integrity, yielded>>
    /\ frame' \in {frame, frame + 1}

Outcome == \/ Stops \/ Trails
           \/ \E result \in R!Results : Passes(result) \/ Errs(result)

LEMMA FrameIs ==
    ASSUME InFile, frame < Len(data)
    PROVE  /\ R!f \in FrameType
           /\ R!f.index \in Nat /\ R!f.length \in Nat /\ R!f.control \in R!ControlKinds
           /\ R!f.multi \in BOOLEAN /\ R!f.crc \in BOOLEAN /\ R!f.sound \in BOOLEAN
           /\ frame + 1 \in 1..Len(data) /\ frame + 1 \in Nat
  <1>1. frame + 1 \in 1..Len(data) /\ frame + 1 \in Nat
    BY DEF InFile
  <1>2. R!f \in FrameType
    BY <1>1 DEF InFile, R!f
  <1>. QED  BY <1>1, <1>2 DEF FrameType

LEMMA SkipIs ==
    ASSUME InFile, pos \in Int, R!Calls, frame < Len(data), R!f.index # TrailerIndex,
           R!Has(R!FrameSize(R!f)), ~R!Usable(R!f), NEW reason \in R!SkipReasons,
           R!Skip(reason, R!FrameSize(R!f))
    PROVE  Outcome
  <1>1. reason # "data" /\ reason \in R!Results
    BY DEF R!SkipReasons, R!Results
  <1>2. Passes(reason)
    BY <1>1 DEF Passes, R!Skip, R!Pass, R!Yield, R!Item, R!Has, R!file
  <1>. QED  BY <1>1, <1>2 DEF Outcome

LEMMA FailedIs ==
    ASSUME InFile, R!Calls, NEW counted, R!Failed(counted)
    PROVE  Outcome
  <1>1. Errs("Io")
    BY DEF Errs, InFile, R!Failed, R!Yield, R!Item, R!file, R!cursor, R!Errors
  <1>. QED  BY <1>1 DEF Outcome, R!Results

LEMMA TruncatedIs ==
    ASSUME InFile, pos \in Int, R!Calls, frame < Len(data), ~R!Has(R!FrameSize(R!f)),
           NEW counted, R!Truncated(counted)
    PROVE  Outcome
  <1>1. R!FrameSize(R!f) \in Nat /\ present \in Int
    BY FrameIs, FrameSizes DEF InFile
  <1>2. Stops
    BY <1>1 DEF Stops, R!Truncated, R!Has, R!file
  <1>. QED  BY <1>2 DEF Outcome

\* The steps in front of the length field.
LEMMA IndexIs ==
    ASSUME InFile, pos \in Int,
           R!EndOfStream \/ R!IndexFails \/ R!Trailer \/ R!SignatureBlock \/ R!UnknownChannel
    PROVE  Outcome
  <1>1. CASE R!EndOfStream
    <2>1. R!Calls /\ finished' = TRUE /\ pos + 2 > present
          /\ UNCHANGED <<data, present, integrity, frame, yielded>>
      BY <1>1 DEF R!EndOfStream, R!Has, R!file, InFile
    <2>2. frame < Len(data) => pos + R!FrameSize(R!f) > present
      <3>1. frame < Len(data) => R!FrameSize(R!f) \in Nat /\ R!FrameSize(R!f) >= 4
        BY FrameIs, FrameSizes
      <3>. QED  BY <2>1, <3>1 DEF InFile
    <2>. QED  BY <2>1, <2>2 DEF Stops, Outcome
  <1>2. CASE R!IndexFails
    BY <1>2, FailedIs DEF R!IndexFails
  <1>3. CASE R!Trailer
    <2>1. R!Calls /\ frame < Len(data) /\ R!f.index = TrailerIndex
      BY <1>3 DEF R!Trailer, R!At
    <2>2. CASE R!Failed(6)
      BY <2>1, <2>2, FailedIs
    <2>3. CASE ~R!Failed(6)
      <3>1. Trails
        BY <1>3, <2>1, <2>3 DEF R!Trailer, Trails, R!file
      <3>. QED  BY <3>1 DEF Outcome
    <2>. QED  BY <2>2, <2>3
  <1>4. CASE R!SignatureBlock
    <2>1. R!Calls /\ frame < Len(data) /\ R!IsSignature
      BY <1>4 DEF R!SignatureBlock, R!At
    <2>2. ~R!Usable(R!f) /\ R!f.index # TrailerIndex
      BY <2>1, MetablockAssumption DEF R!IsSignature, R!Usable
    <2>3. "SignatureBlock" \in R!SkipReasons
      BY DEF R!SkipReasons
    <2>. QED  BY <1>4, <2>1, <2>2, <2>3, SkipIs, TruncatedIs, FailedIs DEF R!SignatureBlock
  <1>5. CASE R!UnknownChannel
    <2>1. Errs("UnknownChannelIndex")
      BY <1>5 DEF R!UnknownChannel, R!At, R!Yield, R!Item, R!file, Errs, InFile, R!Errors
    <2>. QED  BY <2>1 DEF Outcome, R!Results
  <1>. QED  BY <1>1, <1>2, <1>3, <1>4, <1>5

LEMMA DeclaredIs ==
    ASSUME InFile, R!Declared
    PROVE  /\ R!Calls /\ frame < Len(data) /\ R!f.index # TrailerIndex
           /\ R!f.index \in DOMAIN ChannelInfo /\ ~R!IsSignature
           /\ R!FrameSize(R!f) = R!Fields + R!f.length
           /\ R!Fields \in Nat /\ R!f.length \in Nat
  <1>1. /\ R!Calls /\ frame < Len(data) /\ R!f.index \in DOMAIN ChannelInfo /\ ~R!IsSignature
    BY DEF R!Declared, R!At
  <1>2. R!f.index # TrailerIndex
    BY <1>1, MetablockAssumption
  <1>3. /\ R!FrameSize(R!f) = 2 + R!Width(R!f) + R!f.length /\ R!Width(R!f) \in {2, 4}
        /\ R!f.length \in Nat
    BY <1>1, <1>2, FrameIs, FrameSizes
  <1>. QED  BY <1>1, <1>2, <1>3 DEF R!Fields

\* The length field, and the data areas that are not read.
LEMMA SizedIs ==
    ASSUME InFile, pos \in Int,
           R!LengthField \/ R!ZeroLengthBlock \/ R!UnsupportedBlock \/ R!Payload
    PROVE  Outcome
  <1>1. R!Declared
    BY DEF R!LengthField, R!ZeroLengthBlock, R!UnsupportedBlock, R!Payload
  <1>2. CASE R!LengthField
    <2>1. ~R!Has(R!Fields) => ~R!Has(R!FrameSize(R!f))
      BY <1>1, DeclaredIs DEF R!Has, InFile
    <2>. QED  BY <1>1, <1>2, <2>1, DeclaredIs, TruncatedIs, FailedIs DEF R!LengthField
  <1>3. CASE R!ZeroLengthBlock
    <2>1. R!FrameSize(R!f) = R!Fields
      BY <1>1, <1>3, DeclaredIs DEF R!ZeroLengthBlock
    <2>2. ~R!Usable(R!f)
      BY <1>3 DEF R!ZeroLengthBlock, R!Usable
    <2>3. "ZeroLengthBlock" \in R!SkipReasons
      BY DEF R!SkipReasons
    <2>. QED  BY <1>1, <1>3, <2>1, <2>2, <2>3, DeclaredIs, SkipIs DEF R!ZeroLengthBlock
  <1>4. CASE R!UnsupportedBlock
    <2>1. ~R!Usable(R!f)
      BY <1>4 DEF R!UnsupportedBlock, R!Unsupported, R!Usable
    <2>2. "UnsupportedDataType" \in R!SkipReasons
      BY DEF R!SkipReasons
    <2>3. CASE R!Has(R!FrameSize(R!f)) /\ R!Skip("UnsupportedDataType", R!FrameSize(R!f))
      BY <1>1, <2>1, <2>2, <2>3, DeclaredIs, SkipIs
    <2>4. CASE /\ finished' = TRUE /\ R!Yield("UnexpectedEof")
               /\ UNCHANGED <<R!file, frame, adrift>>
      <3>1. Errs("UnexpectedEof")
        BY <1>1, <2>4, DeclaredIs DEF Errs, InFile, R!Yield, R!Item, R!file, R!Errors
      <3>. QED  BY <3>1 DEF Outcome, R!Results
    <2>5. CASE /\ adrift' = TRUE /\ R!Yield("Io")
               /\ UNCHANGED <<R!file, R!cursor, finished>>
      <3>1. Errs("Io")
        BY <1>1, <2>5, DeclaredIs DEF Errs, InFile, R!Yield, R!Item, R!file, R!cursor, R!Errors
      <3>. QED  BY <3>1 DEF Outcome, R!Results
    <2>. QED  BY <1>4, <2>3, <2>4, <2>5 DEF R!UnsupportedBlock
  <1>5. CASE R!Payload
    BY <1>1, <1>5, DeclaredIs, TruncatedIs, FailedIs DEF R!Payload
  <1>. QED  BY <1>2, <1>3, <1>4, <1>5

\* The CRC, the control byte and the parsers decide as Usable does.
LEMMA ReadIs ==
    ASSUME InFile, pos \in Int,
           R!CrcFailed \/ R!SkippedByControl \/ R!DecodedBlock \/ R!ParseError
    PROVE  Outcome
  <1>1. R!Read /\ R!Declared /\ R!Has(R!FrameSize(R!f)) /\ R!f.length > 0 /\ ~R!Unsupported
    BY DEF R!CrcFailed, R!SkippedByControl, R!DecodedBlock, R!ParseError, R!Read
  <1>2. /\ R!Calls /\ frame < Len(data) /\ R!f.index # TrailerIndex
        /\ ~R!IsSignature /\ R!f.index \in DOMAIN ChannelInfo
    BY <1>1, DeclaredIs
  <1>3. /\ R!f.length \in Nat /\ R!f.control \in R!ControlKinds
        /\ R!f.multi \in BOOLEAN /\ R!f.crc \in BOOLEAN /\ R!f.sound \in BOOLEAN
    BY <1>2, FrameIs
  <1>4. CASE R!CrcFailed
    <2>1. ~R!Usable(R!f)
      BY <1>4, <1>3 DEF R!CrcFailed, R!CrcWrong, R!Usable
    <2>2. "CrcFailed" \in R!SkipReasons
      BY DEF R!SkipReasons
    <2>. QED  BY <1>1, <1>2, <1>4, <2>1, <2>2, SkipIs DEF R!CrcFailed
  <1>5. CASE R!SkippedByControl
    <2>1. R!Decision # "Decode" /\ R!Skip(R!Decision, R!FrameSize(R!f))
      BY <1>5 DEF R!SkippedByControl
    <2>2. R!Decision \in R!SkipReasons
      BY <2>1 DEF R!Decision, R!SkipReasons
    <2>3. ~R!Usable(R!f)
      BY <2>1 DEF R!Decision, R!Usable, R!ReservedKinds, R!DataKinds
    <2>. QED  BY <1>1, <1>2, <2>1, <2>2, <2>3, SkipIs
  <1>6. CASE R!DecodedBlock
    <2>1. R!Decision = "Decode" /\ R!Parses /\ ~R!CrcWrong
      BY <1>6 DEF R!DecodedBlock
    <2>2. R!f.control \in R!DataKinds \cup {"MessageEvent"}
      BY <2>1, <1>3 DEF R!Decision, R!ControlKinds
    <2>3. R!f.control = "MessageEvent" =>
             ~R!f.multi /\ ChannelInfo[R!f.index].data_type \in {"string", "binary"}
      BY <2>1 DEF R!Decision, R!ReservedKinds
    <2>4. R!Usable(R!f)
      BY <1>1, <1>2, <1>3, <2>1, <2>2, <2>3
         DEF R!Usable, R!Parses, R!CrcWrong, R!IsSignature, R!Unsupported, R!DataKinds
    <2>5. Passes("data")
      BY <1>1, <1>2, <1>6, <2>4
         DEF R!DecodedBlock, Passes, R!Pass, R!Yield, R!Item, R!Has, R!file
    <2>. QED  BY <2>5 DEF Outcome, R!Results
  <1>7. CASE R!ParseError
    <2>1. ~R!Usable(R!f)
      BY <1>7 DEF R!ParseError, R!Parses, R!Usable, R!DataKinds
    <2>2. Passes("InvalidBlock")
      BY <1>1, <1>2, <1>7, <2>1
         DEF R!ParseError, Passes, R!Pass, R!Yield, R!Item, R!Has, R!file
    <2>. QED  BY <2>2 DEF Outcome, R!Results
  <1>. QED  BY <1>4, <1>5, <1>6, <1>7

LEMMA NextIs ==
    ASSUME InFile, pos \in Int, R!next
    PROVE  Outcome
  BY IndexIs, SizedIs, ReadIs DEF R!next

---------------------------------------------------------------------------
(* The load. *)

\* What the frames that were passed give a channel.
Given(ch) == [k \in 1..frame |->
                IF data[k].index = ch /\ R!Usable(data[k]) THEN blocks[k].values ELSE <<>>]

\* Each builder has been given the usable frames passed, the frames passed are those
\* that are whole, and where the reader has ended there is no whole frame behind it.
Loads ==
    /\ InFile
    /\ DOMAIN builders = A!Indices
    /\ outcome \in {"loading", "loaded"} =>
          /\ \A k \in 1..frame : R!Usable(data[k]) => k \in Whole
          /\ R!Calls => /\ pos = R!Offset(frame + 1)
                        /\ \A k \in 1..frame : data[k].index # TrailerIndex
          /\ ~R!Calls => \A k \in (frame + 1)..Len(data) : k \notin Whole
          /\ \A ch \in A!Indices : /\ "samples" \in DOMAIN builders[ch]
                                   /\ builders[ch].samples = FlattenSeq(Given(ch))
    /\ outcome = "loaded" => finished

LEMMA DeclaredIndices == A!Indices = DOMAIN ChannelInfo
  BY DEF A!Indices, Channels, ChannelInfo

\* The file does not change.
LEMMA SameFile ==
    ASSUME UNCHANGED <<data, present, integrity>>
    PROVE  /\ Whole' = Whole
           /\ \A i : R!Offset(i)' = R!Offset(i)
           /\ \A g : R!Usable(g)' = R!Usable(g)
  BY DEF Whole, R!Offset, R!Usable

\* A file that is no longer loading owes nothing.
LEMMA FailedLoads ==
    ASSUME Loads, InFile', UNCHANGED builders, outcome' \notin {"loading", "loaded"}
    PROVE  Loads'
  BY DEF Loads, A!Indices, Channels

\* A step that leaves the reader and the builders as they are.
LEMMA Standing ==
    ASSUME Loads, UNCHANGED <<data, present, integrity, pos, frame, finished, adrift, yielded,
                              builders, blocks>>,
           outcome' = outcome \/ (outcome = "loading" /\ outcome' = "loaded" /\ finished)
    PROVE  Loads'
  <1>1. /\ Whole' = Whole /\ A!Indices' = A!Indices /\ R!Calls' = R!Calls
        /\ \A g : R!Usable(g)' = R!Usable(g)
    BY SameFile DEF A!Indices, Channels, R!Calls
  <1>2. R!Offset(frame + 1)' = R!Offset(frame + 1)
    BY DEF R!Offset
  <1>3. InFile'
    BY <1>1 DEF Loads, InFile
  <1>4. ASSUME NEW ch
        PROVE  FlattenSeq(Given(ch))' = FlattenSeq(Given(ch))
    <2>1. Given(ch)' = Given(ch)
      BY <1>1 DEF Given
    <2>. QED  BY <2>1 DEF FlattenSeq
  <1>. QED  BY <1>1, <1>2, <1>3, <1>4 DEF Loads

LEMMA GivenType ==
    ASSUME InFile, NEW ch
    PROVE  Given(ch) \in Seq(Seq(Nat)) /\ Len(Given(ch)) = frame
  <1>1. frame \in Nat /\ \A k \in 1..frame : k \in 1..Len(blocks)
    BY DEF InFile
  <1>2. \A k \in 1..frame : blocks[k].values \in Seq(Nat)
    <2>. SUFFICES ASSUME NEW k \in 1..frame
                  PROVE  blocks[k].values \in Seq(Nat)
      OBVIOUS
    <2>1. blocks[k] \in A!BlockType
      BY <1>1 DEF InFile
    <2>. QED  BY <2>1 DEF A!BlockType
  <1>3. <<>> \in Seq(Nat)
    OBVIOUS
  <1>4. \A k \in 1..frame : Given(ch)[k] \in Seq(Nat)
    BY <1>2, <1>3 DEF Given
  <1>5. DOMAIN Given(ch) = 1..frame /\ Given(ch) = [k \in 1..frame |-> Given(ch)[k]]
    BY DEF Given
  <1>. QED  BY <1>1, <1>4, <1>5

\* Behind a frame that is cut off no frame is whole.
LEMMA NothingBehind ==
    ASSUME InFile, pos = R!Offset(frame + 1),
           frame < Len(data) => pos + R!FrameSize(R!f) > present
    PROVE  \A k \in (frame + 1)..Len(data) : k \notin Whole
  <1>. SUFFICES ASSUME NEW k \in (frame + 1)..Len(data)
                PROVE  ~(R!Offset(k + 1) <= present)
    BY DEF Whole
  <1>1. /\ data \in Seq(FrameType) /\ frame \in Nat /\ Len(data) \in Nat /\ frame < Len(data)
        /\ frame + 1 \in 1..Len(data) /\ frame + 2 \in 1..(Len(data) + 1)
        /\ k + 1 \in (frame + 2)..(Len(data) + 1) /\ (frame + 1) + 1 = frame + 2
        /\ present \in Int
    BY DEF InFile
  <1>2. R!Offset(frame + 1) \in Int /\ R!Offset(frame + 2) = R!Offset(frame + 1) + R!FrameSize(R!f)
    <2>. DEFINE i == frame + 1
    <2>1. R!Offset(i) \in Int /\ R!Offset(i + 1) = R!Offset(i) + R!FrameSize(data[i])
      <3>1. i \in 1..Len(data)
        BY <1>1
      <3>. HIDE DEF i
      <3>. QED  BY <1>1, <3>1, Offsets
    <2>. QED  BY <1>1, <2>1 DEF R!f
  <1>3. R!FrameSize(R!f) \in Nat
    BY <1>1, FrameIs, FrameSizes
  <1>4. R!Offset(frame + 2) <= R!Offset(k + 1) /\ R!Offset(k + 1) \in Int
    <2>. DEFINE i == frame + 2
                j == k + 1
    <2>1. i \in 1..(Len(data) + 1) /\ j \in i..(Len(data) + 1)
      BY <1>1
    <2>. HIDE DEF i, j
    <2>2. R!Offset(i) <= R!Offset(j) /\ R!Offset(j) \in Int
      BY <1>1, <2>1, OffsetsGrow
    <2>. QED  BY <2>2 DEF i, j
  <1>. QED  BY <1>1, <1>2, <1>3, <1>4

\* Behind a trailer no frame counts.
LEMMA NothingBehindTrailer ==
    ASSUME InFile, frame < Len(data), R!f.index = TrailerIndex
    PROVE  \A k \in (frame + 1)..Len(data) : k \notin Whole
  BY DEF Whole, R!f, InFile

\* What one more frame gives a channel.
Gives(ch) == IF R!f.index = ch /\ R!Usable(R!f) THEN blocks[frame + 1].values ELSE <<>>

LEMMA OneMoreGiven ==
    ASSUME InFile, frame < Len(data), frame' = frame + 1,
           UNCHANGED <<data, integrity, blocks>>, NEW ch
    PROVE  /\ FlattenSeq(Given(ch))' = FlattenSeq(Given(ch)) \o Gives(ch)
           /\ FlattenSeq(Given(ch)) \in Seq(Nat) /\ Gives(ch) \in Seq(Nat)
  <1>. DEFINE e(k) == IF data[k].index = ch /\ R!Usable(data[k]) THEN blocks[k].values ELSE <<>>
              m == frame + 1
              g == Given(ch)
              h == Given(ch)'
              a == Append(g, e(m))
  <1>1. g \in Seq(Seq(Nat)) /\ Len(g) = frame /\ frame \in Nat /\ m \in Nat /\ m \in 1..Len(data)
        /\ m = frame + 1
    BY GivenType DEF InFile
  <1>2. \A k : R!Usable(data[k])' = R!Usable(data[k])
    BY DEF R!Usable
  <1>3. h = [k \in 1..m |-> e(k)]
    BY <1>2 DEF Given
  <1>4. g = [k \in 1..frame |-> e(k)]
    BY DEF Given
  <1>5. e(m) \in Seq(Nat)
    <2>1. blocks[m] \in A!BlockType
      BY <1>1 DEF InFile
    <2>2. blocks[m].values \in Seq(Nat) /\ <<>> \in Seq(Nat)
      BY <2>1 DEF A!BlockType
    <2>. QED  BY <2>2
  <1>6. Gives(ch) = e(m)
    BY DEF Gives, R!f
  <1>7. h = a
    <2>. HIDE DEF e, g, h, m
    <2>1. a \in Seq(Seq(Nat)) /\ Len(a) = m /\ a[m] = e(m) /\ \A k \in 1..frame : a[k] = g[k]
      BY <1>1, <1>5
    <2>2. \A k \in 1..m : k \in 1..frame \/ k = m
      BY <1>1
    <2>3. \A k \in 1..m : a[k] = h[k]
      BY <1>3, <1>4, <2>1, <2>2
    <2>. HIDE DEF a
    <2>4. a = [k \in 1..m |-> a[k]] /\ h = [k \in 1..m |-> h[k]]
      BY <1>1, <1>3, <2>1
    <2>. QED  BY <2>3, <2>4
  <1>. HIDE DEF g, e
  <1>8. FlattenSeq(a) = FlattenSeq(g) \o e(m) /\ FlattenSeq(g) \in Seq(Nat)
    BY <1>1, <1>5, FlattenAppend, FlattenType
  <1>. HIDE DEF a
  <1>9. FlattenSeq(h) = FlattenSeq(g) \o e(m)
    BY <1>7, <1>8
  <1>10. FlattenSeq(Given(ch))' = FlattenSeq(h)
    BY DEF FlattenSeq, h
  <1>. QED  BY <1>5, <1>6, <1>8, <1>9, <1>10 DEF g

\* The turn in which the reader ends: the loop goes on to its end.
LEMMA TurnEnds ==
    ASSUME Loads, outcome = "loading", Stops \/ Trails, UNCHANGED assembly, UNCHANGED blocks
    PROVE  Loads'
  <1>1. /\ UNCHANGED <<data, present, integrity, yielded, blocks, builders, outcome>>
        /\ R!Calls /\ ~R!Calls' /\ finished' = TRUE
        /\ frame \in Nat /\ Len(data) \in Nat /\ frame \in 0..Len(data)
    BY DEF Stops, Trails, assembly, R!Calls, Loads, InFile
  <1>2. /\ \A k \in 1..frame : R!Usable(data[k]) => k \in Whole
        /\ pos = R!Offset(frame + 1)
        /\ \A ch \in A!Indices : /\ "samples" \in DOMAIN builders[ch]
                                 /\ builders[ch].samples = FlattenSeq(Given(ch))
    BY <1>1 DEF Loads
  <1>3. /\ Whole' = Whole /\ \A g : R!Usable(g)' = R!Usable(g)
        /\ A!Indices' = A!Indices
    BY <1>1, SameFile DEF A!Indices, Channels
  <1>4. frame' \in 0..Len(data) /\ (frame' = frame \/ (Trails /\ frame' = frame + 1))
    BY <1>1 DEF Stops, Trails
  <1>5. InFile'
    BY <1>1, <1>3, <1>4 DEF Loads, InFile
  <1>6. \A k \in (frame + 1)..Len(data) : k \notin Whole
    BY <1>1, <1>2, NothingBehind, NothingBehindTrailer DEF Stops, Trails, Loads
  <1>7. \A k \in (frame' + 1)..Len(data') : k \notin Whole'
    <2>. SUFFICES ASSUME NEW k \in (frame' + 1)..Len(data)
                  PROVE  k \notin Whole
      BY <1>1, <1>3
    <2>1. frame \in Nat /\ frame' \in Nat /\ frame <= frame' /\ Len(data) \in Nat
      BY <1>1, <1>4
    <2>2. \A a, b, c \in Nat : a <= b /\ k \in (b + 1)..c => k \in (a + 1)..c
      OBVIOUS
    <2>3. k \in (frame + 1)..Len(data)
      BY <2>1, <2>2
    <2>. QED  BY <1>6, <2>3
  <1>8. CASE frame' = frame
    <2>1. \A ch : FlattenSeq(Given(ch))' = FlattenSeq(Given(ch))
      <3>. SUFFICES ASSUME NEW ch
                    PROVE  FlattenSeq(Given(ch))' = FlattenSeq(Given(ch))
        OBVIOUS
      <3>1. Given(ch)' = Given(ch)
        BY <1>1, <1>3, <1>8 DEF Given
      <3>. QED  BY <3>1 DEF FlattenSeq
    <2>. QED  BY <1>1, <1>2, <1>3, <1>5, <1>7, <1>8, <2>1 DEF Loads
  <1>9. CASE Trails /\ frame' = frame + 1
    <2>1. data[frame + 1].index = TrailerIndex /\ ~R!Usable(data[frame + 1])
      BY <1>9, MetablockAssumption DEF Trails, R!f, R!Usable
    <2>2. \A k \in 1..(frame + 1) : k \in 1..frame \/ k = frame + 1
      BY <1>1
    <2>3. ASSUME NEW ch
          PROVE  FlattenSeq(Given(ch))' = FlattenSeq(Given(ch))
      <3>1. Gives(ch) = <<>> /\ InFile
        BY <2>1 DEF Gives, R!f, Loads
      <3>2. frame < Len(data) /\ frame' = frame + 1
        BY <1>9 DEF Trails
      <3>3. /\ FlattenSeq(Given(ch))' = FlattenSeq(Given(ch)) \o Gives(ch)
            /\ FlattenSeq(Given(ch)) \in Seq(Nat)
        BY <1>1, <3>1, <3>2, OneMoreGiven
      <3>4. FlattenSeq(Given(ch)) \o <<>> = FlattenSeq(Given(ch))
        BY <3>3
      <3>. QED  BY <3>1, <3>3, <3>4
    <2>4. \A k \in 1..frame' : R!Usable(data[k]) => k \in Whole
      BY <1>2, <1>9, <2>1, <2>2
    <2>. QED  BY <1>1, <1>2, <1>3, <1>5, <1>7, <2>3, <2>4 DEF Loads
  <1>. QED  BY <1>4, <1>8, <1>9


---------------------------------------------------------------------------
(* What a builder makes of a block. *)

\* The block that comes of the frame the reader stands at.
Taken(result) == Returned([frame |-> frame + 1, result |-> result])

LEMMA TakenIs ==
    ASSUME InFile, frame < Len(data), NEW result, result = "data" <=> R!Usable(R!f)
    PROVE  /\ Taken(result).channel_index = R!f.index
           /\ Taken(result).values = blocks[frame + 1].values
           /\ Taken(result).kind \in A!Kinds
           /\ Taken(result).kind = "Skipped" <=> ~R!Usable(R!f)
  <1>. DEFINE b == blocks[frame + 1]
              item == [frame |-> frame + 1, result |-> result]
  <1>1. frame + 1 \in 1..Len(data) /\ frame + 1 \in 1..Len(blocks)
    BY DEF InFile
  <1>2. b \in A!BlockType /\ (R!Usable(R!f) => b.kind # "Skipped")
    BY <1>1 DEF InFile, R!f
  <1>3. Taken(result) = [b EXCEPT !.channel_index = R!f.index,
                                  !.kind = IF result = "data" THEN @ ELSE "Skipped"]
    BY DEF Taken, Returned, R!f
  <1>. HIDE DEF b
  <1>4. b.kind \in A!Kinds
    BY <1>2 DEF A!BlockType
  <1>. QED  BY <1>2, <1>3, <1>4 DEF A!BlockType, A!Kinds, b

\* A decoded block adds its values to the samples, a skipped one nothing.
LEMMA AppliedIs ==
    ASSUME NEW c, "samples" \in DOMAIN c, NEW b, b.kind \in A!Kinds
    PROVE  /\ "samples" \in DOMAIN A!Applied(c, b)
           /\ A!Applied(c, b).samples
                 = IF b.kind = "Skipped" THEN c.samples ELSE c.samples \o b.values
  <1>1. CASE b.kind = "StartData"
    BY <1>1 DEF A!Applied, A!apply_start
  <1>2. CASE b.kind = "ContinuedData"
    BY <1>2 DEF A!Applied, A!apply_continued
  <1>3. CASE b.kind = "AbsTimestampData"
    BY <1>3 DEF A!Applied, A!apply_abs_timestamped
  <1>4. CASE b.kind = "ContinuedRelStampData"
    BY <1>4 DEF A!Applied, A!apply_rel_timestamped
  <1>5. CASE b.kind = "Skipped"
    BY <1>5 DEF A!Applied
  <1>. QED  BY <1>1, <1>2, <1>3, <1>4, <1>5 DEF A!Kinds

\* One turn: the end of the reader, or an answer and what is made of it.
LEMMA TurnIs ==
    ASSUME Loads, pos \in Int, Turn
    PROVE  /\ outcome = "loading" /\ UNCHANGED blocks
           /\ \/ (Stops \/ Trails) /\ UNCHANGED assembly
              \/ \E result \in R!SkipReasons \cup {"data"} :
                    Passes(result) /\ A!apply_block(Taken(result))
              \/ /\ InFile' /\ UNCHANGED builders
                 /\ outcome' \notin {"loading", "loaded"}
  <1>1. outcome = "loading" /\ UNCHANGED blocks /\ R!next /\ InFile
    BY DEF Turn, Loads
  <1>2. Outcome
    BY <1>1, NextIs
  <1>3. CASE Stops \/ Trails
    <2>1. yielded' = yielded
      BY <1>3 DEF Stops, Trails
    <2>. QED  BY <1>1, <1>3, <2>1 DEF Turn
  <1>4. ASSUME NEW result \in R!Results, Passes(result) \/ Errs(result)
        PROVE  \/ \E r \in R!SkipReasons \cup {"data"} : Passes(r) /\ A!apply_block(Taken(r))
               \/ /\ InFile' /\ UNCHANGED builders
                  /\ outcome' \notin {"loading", "loaded"}
    <2>. DEFINE item == [frame |-> frame + 1, result |-> result]
    <2>1. /\ yielded' = Append(yielded, item)
          /\ UNCHANGED <<data, present, integrity>>
          /\ frame' \in 0..Len(data)
      BY <1>1, <1>4 DEF Passes, Errs, InFile
    <2>2. item \in Item /\ yielded \in Seq(Item)
      BY <1>1, <1>4 DEF Item, InFile
    <2>3. /\ yielded' \in Seq(Item) /\ yielded' # yielded /\ Last(yielded') = item
      <3>. HIDE DEF item
      <3>1. Append(yielded, item) \in Seq(Item)
        BY <2>2
      <3>2. Len(Append(yielded, item)) = Len(yielded) + 1 /\ Len(yielded) \in Nat
        BY <2>2
      <3>3. Append(yielded, item)[Len(yielded) + 1] = item
        BY <2>2
      <3>. QED  BY <2>1, <3>1, <3>2, <3>3 DEF Last
    <2>4. InFile'
      <3>1. \A g : R!Usable(g)' = R!Usable(g)
        BY <2>1, SameFile
      <3>. QED  BY <1>1, <2>1, <2>3, <3>1 DEF InFile
    <2>5. \/ result \in R!SkipReasons \cup {"data"} /\ A!apply_block(Taken(result))
          \/ result \in R!SkipReasons \cup {"data"} /\ A!RejectBlock(Taken(result))
          \/ result \in A!IteratorErrors /\ A!Fail(result)
      <3>1. \/ /\ Last(yielded').result \in R!SkipReasons \cup {"data"}
               /\ A!apply_block(Returned(Last(yielded')))
            \/ /\ Last(yielded').result \in R!SkipReasons \cup {"data"}
               /\ A!RejectBlock(Returned(Last(yielded')))
            \/ /\ Last(yielded').result \in A!IteratorErrors
               /\ A!Fail(Last(yielded').result)
        BY <2>3 DEF Turn
      <3>2. Last(yielded').result = result /\ Returned(Last(yielded')) = Taken(result)
        BY <2>3 DEF Taken
      <3>. QED  BY <3>1, <3>2
    <2>6. CASE result \in R!SkipReasons \cup {"data"} /\ A!apply_block(Taken(result))
      <3>1. result \notin R!Errors
        BY <2>6 DEF R!SkipReasons, R!Errors
      <3>. QED  BY <1>4, <2>6, <3>1 DEF Errs
    <2>7. CASE A!RejectBlock(Taken(result))
      <3>1. UNCHANGED builders /\ outcome' \notin {"loading", "loaded"}
        BY <2>7 DEF A!RejectBlock, A!Fail, A!Error
      <3>. QED  BY <2>4, <3>1
    <2>8. CASE result \in A!IteratorErrors /\ A!Fail(result)
      <3>1. UNCHANGED builders /\ outcome' \notin {"loading", "loaded"}
        BY <2>8 DEF A!Fail, A!IteratorErrors
      <3>. QED  BY <2>4, <3>1
    <2>. QED  BY <2>5, <2>6, <2>7, <2>8
  <1>. QED  BY <1>1, <1>2, <1>3, <1>4 DEF Outcome

\* The turn in which a frame is passed and its block is applied.
LEMMA TurnPasses ==
    ASSUME Loads, outcome = "loading", UNCHANGED blocks,
           NEW result \in R!SkipReasons \cup {"data"},
           Passes(result), A!apply_block(Taken(result))
    PROVE  Loads'
  <1>. DEFINE b == Taken(result)
              ch == R!f.index
              m == frame + 1
  <1>1. /\ UNCHANGED <<data, present, integrity, finished, adrift, blocks, outcome>>
        /\ frame' = m /\ frame < Len(data) /\ ch # TrailerIndex
        /\ pos + R!FrameSize(R!f) <= present /\ pos' = pos + R!FrameSize(R!f)
        /\ R!Calls /\ R!Calls' /\ InFile
        /\ (result = "data" <=> R!Usable(R!f))
        /\ yielded' = Append(yielded, [frame |-> m, result |-> result])
    BY DEF Passes, A!apply_block, R!Calls, Loads
  <1>2. /\ frame \in Nat /\ m \in Nat /\ m \in 1..Len(data) /\ Len(data) \in Nat
        /\ data \in Seq(FrameType) /\ present \in Int /\ m + 1 = frame + 2
    BY <1>1 DEF InFile
  <1>3. /\ pos = R!Offset(m)
        /\ \A k \in 1..frame : R!Usable(data[k]) => k \in Whole
        /\ \A k \in 1..frame : data[k].index # TrailerIndex
        /\ DOMAIN builders = A!Indices
        /\ \A c \in A!Indices : /\ "samples" \in DOMAIN builders[c]
                                /\ builders[c].samples = FlattenSeq(Given(c))
    BY <1>1 DEF Loads
  <1>4. b.channel_index = ch /\ b.values = blocks[m].values /\ b.kind \in A!Kinds
        /\ (b.kind = "Skipped" <=> ~R!Usable(R!f))
    BY <1>1, TakenIs
  <1>5. /\ ch \in A!Indices
        /\ builders' = [builders EXCEPT ![ch] = A!Applied(builders[ch], b)]
    BY <1>4 DEF A!apply_block, A!Error
  <1>6. /\ Whole' = Whole /\ A!Indices' = A!Indices
        /\ \A i : R!Offset(i)' = R!Offset(i)
        /\ \A g : R!Usable(g)' = R!Usable(g)
    BY <1>1, SameFile DEF A!Indices, Channels
  <1>7. InFile'
    <2>1. [frame |-> m, result |-> result] \in Item
      BY <1>2 DEF Item, R!Results
    <2>2. yielded' \in Seq(Item)
      BY <1>1, <2>1 DEF InFile
    <2>. QED  BY <1>1, <1>2, <1>6, <2>2 DEF InFile
  <1>8. /\ R!Offset(m + 1) = pos + R!FrameSize(R!f)
        /\ R!Offset(m + 1) <= present
    <2>1. R!Offset(m + 1) = R!Offset(m) + R!FrameSize(data[m])
      <3>. HIDE DEF m
      <3>. QED  BY <1>2, Offsets
    <2>. QED  BY <1>1, <1>3, <2>1 DEF R!f
  <1>9. pos' = R!Offset(frame + 1)'
    <2>1. R!Offset(m + 1) = R!SizeOf(SubSeq(data, 1, (m + 1) - 1))
      BY DEF R!Offset
    <2>2. R!Offset(frame + 1)' = R!SizeOf(SubSeq(data, 1, (m + 1) - 1))
      BY <1>1 DEF R!Offset
    <2>. QED  BY <1>1, <1>8, <2>1, <2>2
  <1>10. \A k \in 1..m : k \in 1..frame \/ k = m
    BY <1>2
  <1>11. \A k \in 1..m : data[k].index # TrailerIndex
    BY <1>1, <1>3, <1>10 DEF R!f
  <1>12. m \in Whole
    BY <1>2, <1>8, <1>11 DEF Whole
  <1>13. ASSUME NEW c \in A!Indices
         PROVE  /\ "samples" \in DOMAIN (builders'[c])
                /\ builders'[c].samples = FlattenSeq(Given(c))'
    <2>1. /\ FlattenSeq(Given(c))' = FlattenSeq(Given(c)) \o Gives(c)
          /\ FlattenSeq(Given(c)) \in Seq(Nat) /\ Gives(c) \in Seq(Nat)
      BY <1>1, OneMoreGiven
    <2>2. FlattenSeq(Given(c)) \o <<>> = FlattenSeq(Given(c))
      BY <2>1
    <2>3. "samples" \in DOMAIN builders[c] /\ builders[c].samples = FlattenSeq(Given(c))
      BY <1>3
    <2>4. CASE c = ch
      <3>1. builders'[c] = A!Applied(builders[ch], b)
        BY <1>3, <1>5, <2>4
      <3>2. /\ "samples" \in DOMAIN A!Applied(builders[ch], b)
            /\ A!Applied(builders[ch], b).samples
                  = IF b.kind = "Skipped" THEN builders[ch].samples
                    ELSE builders[ch].samples \o b.values
        BY <1>4, <2>3, <2>4, AppliedIs
      <3>3. Gives(c) = IF R!Usable(R!f) THEN b.values ELSE <<>>
        BY <1>4, <2>4 DEF Gives
      <3>. HIDE DEF b, ch
      <3>. QED  BY <1>4, <2>1, <2>2, <2>3, <2>4, <3>1, <3>2, <3>3
    <2>5. CASE c # ch
      <3>1. builders'[c] = builders[c]
        BY <1>3, <1>5, <2>5
      <3>2. Gives(c) = <<>>
        BY <2>5 DEF Gives
      <3>. QED  BY <2>1, <2>2, <2>3, <3>1, <3>2
    <2>. QED  BY <2>4, <2>5
  <1>14. DOMAIN builders' = A!Indices'
    BY <1>3, <1>5, <1>6
  <1>15. \A k \in 1..frame' : R!Usable(data[k])' => k \in Whole'
    BY <1>1, <1>3, <1>6, <1>10, <1>12
  <1>16. \A k \in 1..frame' : data'[k].index # TrailerIndex
    BY <1>1, <1>11
  <1>. QED  BY <1>1, <1>6, <1>7, <1>9, <1>13, <1>14, <1>15, <1>16 DEF Loads

---------------------------------------------------------------------------
LEMMA LoadsInit ==
    ASSUME Init
    PROVE  Loads
  <1>1. PICK contents \in UNION {[1..n -> Contents] : n \in 0..MaxFrames} :
           /\ data = [k \in DOMAIN contents |-> contents[k].frame]
           /\ blocks = [k \in DOMAIN contents |-> contents[k].block]
           /\ present \in 0..R!SizeOf(data)
           /\ R!Started /\ A!Init
    BY DEF Init
  <1>2. PICK n \in 0..MaxFrames : contents \in [1..n -> Contents]
    OBVIOUS
  <1>3. n \in Nat /\ DOMAIN contents = 1..n
    BY <1>2
  <1>4. \A k \in 1..n : /\ data[k] = contents[k].frame /\ blocks[k] = contents[k].block
                        /\ contents[k] \in Contents
    BY <1>1, <1>2, <1>3
  <1>5. \A k \in 1..n : data[k] \in FrameType /\ blocks[k] \in A!BlockType
    BY <1>4, ContentAssumption DEF FrameType
  <1>6. data = [k \in 1..n |-> data[k]] /\ blocks = [k \in 1..n |-> blocks[k]]
    BY <1>1, <1>3
  <1>7. data \in Seq(FrameType) /\ blocks \in Seq(A!BlockType) /\ Len(data) = n /\ Len(blocks) = n
    <2>1. data \in [1..n -> FrameType] /\ blocks \in [1..n -> A!BlockType]
      BY <1>5, <1>6, Zenon
    <2>. QED  BY <1>3, <2>1
  <1>8. \A k \in 1..Len(data) : R!Usable(data[k]) => blocks[k].kind # "Skipped"
    <2>. SUFFICES ASSUME NEW k \in 1..n, R!Usable(data[k])
                  PROVE  blocks[k].kind # "Skipped"
      BY <1>7
    <2>1. data[k].control \in R!DataKinds \cup {"MessageEvent"}
      BY DEF R!Usable, R!DataKinds
    <2>. QED  BY <1>4, <2>1, ContentAssumption
  <1>9. pos = 0 /\ frame = 0 /\ finished = FALSE /\ adrift = FALSE /\ yielded = <<>>
    BY <1>1 DEF R!Started
  <1>10. present \in Int
    BY <1>1
  <1>11. InFile
    BY <1>3, <1>7, <1>8, <1>9, <1>10 DEF InFile
  <1>12. R!Calls /\ pos = R!Offset(frame + 1)
    BY <1>7, <1>9, FirstOffset DEF R!Calls
  <1>13. ASSUME NEW ch \in A!Indices
         PROVE  /\ "samples" \in DOMAIN builders[ch]
                /\ builders[ch].samples = FlattenSeq(Given(ch))
    <2>1. builders[ch] = A!NewBuilder(ch)
      BY <1>1 DEF A!Init
    <2>2. "samples" \in DOMAIN builders[ch] /\ builders[ch].samples = <<>>
      BY <2>1 DEF A!NewBuilder
    <2>3. Given(ch) = <<>>
      <3>1. Given(ch) \in Seq(Seq(Nat)) /\ Len(Given(ch)) = 0
        BY <1>9, <1>11, GivenType
      <3>. QED  BY <3>1
    <2>. QED  BY <2>2, <2>3, FlattenNothing
  <1>14. outcome = "loading" /\ DOMAIN builders = A!Indices
    BY <1>1 DEF A!Init
  <1>. QED  BY <1>9, <1>11, <1>12, <1>13, <1>14 DEF Loads

LEMMA LoadsNext ==
    ASSUME Loads, [Next]_vars
    PROVE  Loads'
  <1>1. CASE Turn
    <2>1. R!Calls /\ outcome = "loading"
      BY <1>1 DEF Turn, R!next, R!EndOfStream, R!IndexFails, R!Trailer, R!SignatureBlock,
           R!UnknownChannel, R!LengthField, R!ZeroLengthBlock, R!UnsupportedBlock, R!Payload,
           R!CrcFailed, R!SkippedByControl, R!DecodedBlock, R!ParseError, R!Read, R!Declared, R!At
    <2>2. pos \in Int
      <3>. DEFINE i == frame + 1
      <3>1. pos = R!Offset(i) /\ data \in Seq(FrameType) /\ i \in 1..(Len(data) + 1)
        BY <2>1 DEF Loads, InFile
      <3>2. i \in i..(Len(data) + 1)
        BY <3>1
      <3>. HIDE DEF i
      <3>. QED  BY <3>1, <3>2, OffsetsGrow
    <2>3. /\ UNCHANGED blocks
          /\ \/ (Stops \/ Trails) /\ UNCHANGED assembly
             \/ \E result \in R!SkipReasons \cup {"data"} :
                   Passes(result) /\ A!apply_block(Taken(result))
             \/ /\ InFile' /\ UNCHANGED builders
                /\ outcome' \notin {"loading", "loaded"}
      BY <1>1, <2>2, TurnIs
    <2>. QED  BY <2>1, <2>3, TurnEnds, TurnPasses, FailedLoads
  <1>2. CASE Finish
    <2>1. /\ outcome = "loading" /\ outcome' = "loaded" /\ finished
          /\ UNCHANGED <<data, present, integrity, pos, frame, finished, adrift, yielded,
                         builders, blocks>>
      BY <1>2 DEF Finish, A!Finish, reader
    <2>. QED  BY <2>1, Standing
  <1>3. CASE UNCHANGED vars
    <2>1. UNCHANGED <<data, present, integrity, pos, frame, finished, adrift, yielded,
                      builders, blocks, outcome>>
      BY <1>3 DEF vars, reader, assembly
    <2>. QED  BY <2>1, Standing
  <1>. QED  BY <1>1, <1>2, <1>3 DEF Next

LEMMA LoadedOfLoads ==
    ASSUME Loads
    PROVE  LoadedIsUsable
  <1>. SUFFICES ASSUME outcome = "loaded", NEW ch \in DOMAIN ChannelInfo
                PROVE  builders[ch].samples
                         = FlattenSeq([k \in DOMAIN data |->
                               IF k \in Whole /\ data[k].index = ch /\ R!Usable(data[k])
                               THEN blocks[k].values ELSE <<>>])
    BY DEF LoadedIsUsable
  <1>. DEFINE n == Len(data)
              a == [k \in 1..n |-> IF k \in Whole /\ data[k].index = ch /\ R!Usable(data[k])
                                   THEN blocks[k].values ELSE <<>>]
  <1>1. /\ InFile /\ ~R!Calls
        /\ \A k \in 1..frame : R!Usable(data[k]) => k \in Whole
        /\ \A k \in (frame + 1)..n : k \notin Whole
    BY DEF Loads, R!Calls
  <1>2. builders[ch].samples = FlattenSeq(Given(ch))
    BY DeclaredIndices DEF Loads
  <1>3. n \in Nat /\ frame \in Nat /\ frame \in 0..n /\ DOMAIN data = 1..n
    BY <1>1 DEF InFile
  <1>4. \A k \in 1..n : blocks[k].values \in Seq(Nat)
    <2>. SUFFICES ASSUME NEW k \in 1..n
                  PROVE  blocks[k].values \in Seq(Nat)
      OBVIOUS
    <2>1. blocks[k] \in A!BlockType
      BY <1>1, <1>3 DEF InFile
    <2>. QED  BY <2>1 DEF A!BlockType
  <1>5. a \in Seq(Seq(Nat)) /\ Len(a) = n
    <2>1. <<>> \in Seq(Nat)
      OBVIOUS
    <2>2. a \in [1..n -> Seq(Nat)]
      BY <1>4, <2>1
    <2>. HIDE DEF a
    <2>. QED  BY <1>3, <2>2
  <1>6. \A k \in (frame + 1)..n : a[k] = <<>>
    <2>. SUFFICES ASSUME NEW k \in (frame + 1)..n
                  PROVE  a[k] = <<>>
      OBVIOUS
    <2>1. k \in 1..n /\ k \notin Whole
      BY <1>1, <1>3
    <2>. QED  BY <2>1
  <1>7. FlattenSeq(a) = FlattenSeq(SubSeq(a, 1, frame))
    <2>. HIDE DEF a
    <2>. QED  BY <1>3, <1>5, <1>6, FlattenFront
  <1>8. SubSeq(a, 1, frame) = Given(ch)
    <2>1. \A k \in 1..frame : k \in 1..n
      BY <1>3
    <2>2. \A k \in 1..frame : a[k] = Given(ch)[k]
      BY <1>1, <2>1 DEF Given
    <2>3. Given(ch) = [k \in 1..frame |-> Given(ch)[k]]
      BY DEF Given
    <2>. HIDE DEF a
    <2>. DEFINE r == SubSeq(a, 1, frame)
    <2>4. r \in Seq(Seq(Nat)) /\ Len(r) = frame /\ \A k \in 1..frame : r[k] = a[k]
      BY <1>3, <1>5
    <2>. HIDE DEF r
    <2>5. r = [k \in 1..frame |-> r[k]]
      BY <2>4
    <2>6. r = Given(ch)
      BY <2>2, <2>3, <2>4, <2>5
    <2>. QED  BY <2>6 DEF r
  <1>. QED  BY <1>2, <1>3, <1>7, <1>8

\* Whatever the metablock, the frames and the place where the stream ends: a file
\* that loads gives every channel the samples of its usable frames in front of the
\* trailer and of the end, in order, and no others (build_channels over next()).
THEOREM UsableAreLoaded == Spec => []LoadedIsUsable
  <1>1. Init => Loads
    BY LoadsInit
  <1>2. Loads /\ [Next]_vars => Loads'
    BY LoadsNext
  <1>3. Loads => LoadedIsUsable
    BY LoadedOfLoads
  <1>. QED  BY <1>1, <1>2, <1>3, PTL DEF Spec
=============================================================================
