-------------------------- MODULE BlockReader_proofs --------------------------
(***************************************************************************)
(* The block reader answers for every frame, for all frames, channels and  *)
(* integrity levels, wherever the stream ends and whichever reads fail.    *)
(***************************************************************************)
EXTENDS BlockReader, FoldLemmas, TLAPS

\* What next() has answered so far.
Answers ==
    /\ data \in Seq(Frames)
    /\ frame \in 0..Len(data)
    /\ yielded \in Seq([frame : Nat, result : Results])
    /\ Calls => Len(yielded) = frame
    /\ ExactlyUsable

---------------------------------------------------------------------------
\* An iteration that ends without an answer.
Stops ==
    /\ UNCHANGED <<data, integrity, frame, yielded>>
    /\ ~Calls'

\* An error, with the cursor where it was.
Errs(result) ==
    /\ UNCHANGED <<data, integrity, frame>>
    /\ Yield(result)
    /\ ~Calls'

\* The answer for a frame.
Passes(result) ==
    /\ UNCHANGED <<data, integrity, finished, adrift>>
    /\ frame' = frame + 1
    /\ Yield(result)

LEMMA FrameType ==
    ASSUME Answers, frame < Len(data)
    PROVE  /\ f \in Frames
           /\ f.index \in Nat /\ f.length \in Nat /\ f.control \in ControlKinds
           /\ f.multi \in BOOLEAN /\ f.crc \in BOOLEAN /\ f.sound \in BOOLEAN
           /\ frame + 1 \in 1..Len(data)
  <1>1. frame + 1 \in 1..Len(data)
    BY DEF Answers
  <1>2. f \in Frames
    BY <1>1 DEF Answers, f
  <1>3. f \in [index : Nat, length : Nat, control : ControlKinds,
               multi : BOOLEAN, crc : BOOLEAN, sound : BOOLEAN]
    BY <1>2, FrameAssumption
  <1>. QED  BY <1>1, <1>2, <1>3

LEMMA StopKeeps ==
    ASSUME Answers, Stops
    PROVE  Answers'
  BY DEF Answers, Stops, ExactlyUsable, Usable

\* What Append does to the answers.
LEMMA Answered ==
    ASSUME Answers, Calls, NEW result \in Results, Yield(result)
    PROVE  /\ yielded' \in Seq([frame : Nat, result : Results])
           /\ Len(yielded') = frame + 1
           /\ DOMAIN yielded' = 1..(frame + 1)
           /\ \A k \in 1..frame : yielded'[k] = yielded[k]
           /\ yielded'[frame + 1].frame = frame + 1
           /\ yielded'[frame + 1].result = result
           /\ DOMAIN yielded = 1..frame
  <1>1. frame \in Nat /\ Len(yielded) = frame
    BY DEF Answers
  <1>2. Item(result) \in [frame : Nat, result : Results]
    BY <1>1 DEF Item
  <1>. QED  BY <1>1, <1>2 DEF Answers, Yield, Item

LEMMA ErrorKeeps ==
    ASSUME Answers, Calls, NEW result \in Results, Errs(result)
    PROVE  Answers'
  <1>1. Yield(result)
    BY DEF Errs
  <1>2. \A k : k \in 1..frame => k \in 1..(frame + 1) /\ k # frame + 1
    BY DEF Answers
  <1>3. ExactlyUsable'
    <2>1. \A k \in DOMAIN yielded' : yielded'[k].frame = k
      <3>. SUFFICES ASSUME NEW k \in 1..(frame + 1)
                    PROVE  yielded'[k].frame = k
        BY <1>1, Answered
      <3>1. CASE k = frame + 1
        BY <3>1, <1>1, Answered
      <3>2. CASE k # frame + 1
        <4>1. k \in 1..frame
          BY <3>2 DEF Answers
        <4>. QED  BY <4>1, <1>1, Answered DEF Answers, ExactlyUsable
      <3>. QED  BY <3>1, <3>2
    <2>2. \A k \in 1..frame : data[k].index # TrailerIndex =>
             /\ k \in DOMAIN yielded'
             /\ yielded'[k].result = "data" <=> Usable(data[k])
      BY <1>1, <1>2, Answered DEF Answers, ExactlyUsable
    <2>. QED  BY <2>1, <2>2 DEF ExactlyUsable, Errs, Usable
  <1>. QED  BY <1>1, <1>3, Answered DEF Answers, Errs

LEMMA PassKeeps ==
    ASSUME Answers, Calls, frame < Len(data), NEW result \in Results, Passes(result),
           result = "data" <=> Usable(f)
    PROVE  Answers'
  <1>1. Yield(result) /\ frame \in Nat
    BY DEF Passes, Answers
  <1>2. ASSUME NEW k \in 1..(frame + 1)
        PROVE  /\ yielded'[k].frame = k
               /\ data[k].index # TrailerIndex =>
                     (yielded'[k].result = "data" <=> Usable(data[k]))
    <2>1. CASE k = frame + 1
      BY <2>1, <1>1, Answered DEF f
    <2>2. CASE k # frame + 1
      <3>1. k \in 1..frame
        BY <2>2, <1>1
      <3>. QED  BY <3>1, <1>1, Answered DEF Answers, ExactlyUsable
    <2>. QED  BY <2>1, <2>2
  <1>3. ExactlyUsable'
    BY <1>1, <1>2, Answered DEF ExactlyUsable, Passes, Usable
  <1>4. frame' \in 0..Len(data') /\ data' \in Seq(Frames)
    BY FrameType DEF Passes, Answers
  <1>. QED  BY <1>1, <1>3, <1>4, Answered DEF Answers, Passes

---------------------------------------------------------------------------
LEMMA SkipPasses ==
    ASSUME Answers, Calls, frame < Len(data), NEW reason \in SkipReasons, NEW size,
           Skip(reason, size), ~Usable(f)
    PROVE  Answers'
  <1>1. Passes(reason)
    BY DEF Skip, Pass, Passes, file
  <1>2. reason \in Results /\ reason # "data"
    BY DEF SkipReasons, Results
  <1>. QED  BY <1>1, <1>2, PassKeeps

LEMMA FailedKeeps ==
    ASSUME Answers, Calls, NEW counted, Failed(counted)
    PROVE  Answers'
  <1>1. Errs("Io")
    BY DEF Failed, Errs, file, cursor, Calls
  <1>. QED  BY <1>1, ErrorKeeps DEF Results

LEMMA TruncatedKeeps ==
    ASSUME Answers, Calls, NEW counted, Truncated(counted)
    PROVE  Answers'
  <1>1. Stops
    BY DEF Truncated, Stops, file, Calls
  <1>. QED  BY <1>1, StopKeeps

LEMMA TrailerKeeps ==
    ASSUME Answers, Trailer
    PROVE  Answers'
  <1>1. Calls /\ frame < Len(data) /\ f.index = TrailerIndex
    BY DEF Trailer, At
  <1>2. CASE Failed(6)
    BY <1>1, <1>2, FailedKeeps
  <1>3. CASE UNCHANGED <<file, adrift, yielded>> /\ finished' = TRUE
             /\ frame' = IF Has(6 + f.length) THEN frame + 1 ELSE frame
    <2>1. CASE frame' = frame
      BY <2>1, <1>3, StopKeeps DEF Stops, file, Calls
    <2>2. CASE frame' = frame + 1
      <3>1. \A k \in 1..(frame + 1) : k \in 1..frame \/ k = frame + 1
        BY DEF Answers
      <3>2. ExactlyUsable'
        BY <3>1, <2>2, <1>1, <1>3 DEF Answers, ExactlyUsable, Usable, f, file
      <3>. QED  BY <3>2, <2>2, <1>1, <1>3, FrameType DEF Answers, file, Calls
    <2>. QED  BY <1>3, <2>1, <2>2
  <1>. QED  BY <1>2, <1>3 DEF Trailer

LEMMA SignatureKeeps ==
    ASSUME Answers, SignatureBlock
    PROVE  Answers'
  <1>1. Calls /\ frame < Len(data) /\ IsSignature
    BY DEF SignatureBlock, At
  <1>2. ~Usable(f)
    BY <1>1 DEF IsSignature, Usable
  <1>3. CASE Skip("SignatureBlock", FrameSize(f))
    BY <1>1, <1>2, <1>3, SkipPasses DEF SkipReasons
  <1>4. CASE Truncated(IF Has(6) THEN 6 ELSE 2)
    BY <1>1, <1>4, TruncatedKeeps
  <1>5. CASE \E counted \in {2, 6} : Failed(counted)
    BY <1>1, <1>5, FailedKeeps
  <1>. QED  BY <1>3, <1>4, <1>5 DEF SignatureBlock

LEMMA UnsupportedKeeps ==
    ASSUME Answers, UnsupportedBlock
    PROVE  Answers'
  <1>1. Calls /\ frame < Len(data) /\ Unsupported
    BY DEF UnsupportedBlock, Declared, At
  <1>2. ~Usable(f)
    BY <1>1 DEF Unsupported, Usable
  <1>3. CASE Skip("UnsupportedDataType", FrameSize(f))
    BY <1>1, <1>2, <1>3, SkipPasses DEF SkipReasons
  <1>4. CASE /\ finished' = TRUE /\ Yield("UnexpectedEof")
             /\ UNCHANGED <<file, frame, adrift>>
    BY <1>1, <1>4, ErrorKeeps DEF Errs, file, Calls, Results
  <1>5. CASE /\ adrift' = TRUE /\ Yield("Io")
             /\ UNCHANGED <<file, cursor, finished>>
    BY <1>1, <1>5, ErrorKeeps DEF Errs, file, cursor, Calls, Results
  <1>. QED  BY <1>3, <1>4, <1>5 DEF UnsupportedBlock

\* The control byte and the parsers decide as Usable does.
LEMMA ReadKeeps ==
    ASSUME Answers, CrcFailed \/ SkippedByControl \/ DecodedBlock \/ ParseError
    PROVE  Answers'
  <1>1. /\ Calls /\ frame < Len(data)
        /\ ~IsSignature /\ f.index \in DOMAIN ChannelInfo
        /\ f.length > 0 /\ ~Unsupported
    BY DEF CrcFailed, SkippedByControl, DecodedBlock, ParseError, Read, Declared, At
  <1>2. /\ f.length \in Nat /\ f.control \in ControlKinds
        /\ f.multi \in BOOLEAN /\ f.crc \in BOOLEAN /\ f.sound \in BOOLEAN
    BY <1>1, FrameType
  <1>3. CASE CrcFailed
    <2>1. ~Usable(f)
      BY <1>3, <1>2 DEF CrcFailed, CrcWrong, Usable
    <2>. QED  BY <1>1, <1>3, <2>1, SkipPasses DEF CrcFailed, SkipReasons
  <1>4. CASE SkippedByControl
    <2>1. Decision # "Decode" /\ Skip(Decision, FrameSize(f))
      BY <1>4 DEF SkippedByControl
    <2>2. Decision \in SkipReasons
      BY <2>1 DEF Decision, SkipReasons
    <2>3. ~Usable(f)
      BY <2>1 DEF Decision, Usable, ReservedKinds, DataKinds
    <2>. QED  BY <1>1, <2>1, <2>2, <2>3, SkipPasses
  <1>5. CASE DecodedBlock
    <2>1. Decision = "Decode" /\ Parses /\ ~CrcWrong /\ Passes("data")
      BY <1>5 DEF DecodedBlock, Pass, Passes, file
    <2>2. f.control \in DataKinds \cup {"MessageEvent"}
      BY <2>1, <1>2 DEF Decision, ControlKinds
    <2>3. f.control = "MessageEvent" =>
             ~f.multi /\ ChannelInfo[f.index].data_type \in {"string", "binary"}
      BY <2>1 DEF Decision, ReservedKinds
    <2>4. Usable(f)
      BY <1>1, <1>2, <2>1, <2>2, <2>3
         DEF Usable, Parses, CrcWrong, IsSignature, Unsupported, DataKinds
    <2>. QED  BY <1>1, <2>1, <2>4, PassKeeps DEF Results
  <1>6. CASE ParseError
    <2>1. ~Parses /\ Passes("InvalidBlock")
      BY <1>6 DEF ParseError, Pass, Passes, file
    <2>2. ~Usable(f)
      BY <2>1 DEF Parses, Usable, DataKinds
    <2>. QED  BY <1>1, <2>1, <2>2, PassKeeps DEF Results
  <1>. QED  BY <1>3, <1>4, <1>5, <1>6

LEMMA NextKeeps ==
    ASSUME Answers, [next]_vars
    PROVE  Answers'
  <1>1. CASE EndOfStream
    BY <1>1, StopKeeps DEF EndOfStream, Stops, file, Calls
  <1>2. CASE IndexFails
    BY <1>2, FailedKeeps DEF IndexFails
  <1>3. CASE Trailer
    BY <1>3, TrailerKeeps
  <1>4. CASE SignatureBlock
    BY <1>4, SignatureKeeps
  <1>5. CASE UnknownChannel
    <2>1. Calls /\ Errs("UnknownChannelIndex")
      BY <1>5 DEF UnknownChannel, At, Errs, file, Calls
    <2>. QED  BY <2>1, ErrorKeeps DEF Results
  <1>6. CASE LengthField
    BY <1>6, TruncatedKeeps, FailedKeeps DEF LengthField, Declared, At
  <1>7. CASE ZeroLengthBlock
    <2>1. Calls /\ frame < Len(data) /\ ~Usable(f) /\ Skip("ZeroLengthBlock", Fields)
      BY <1>7 DEF ZeroLengthBlock, Declared, At, Usable
    <2>. QED  BY <2>1, SkipPasses DEF SkipReasons
  <1>8. CASE UnsupportedBlock
    BY <1>8, UnsupportedKeeps
  <1>9. CASE Payload
    BY <1>9, TruncatedKeeps, FailedKeeps DEF Payload, Declared, At
  <1>10. CASE CrcFailed \/ SkippedByControl \/ DecodedBlock \/ ParseError
    BY <1>10, ReadKeeps
  <1>11. CASE UNCHANGED vars
    BY <1>11 DEF vars, file, cursor, Answers, Calls, ExactlyUsable, Usable
  <1>. QED  BY <1>1, <1>2, <1>3, <1>4, <1>5, <1>6, <1>7, <1>8, <1>9, <1>10, <1>11 DEF next

LEMMA StartAnswers == Init => Answers
  <1>. SUFFICES ASSUME Init
                PROVE  Answers
    OBVIOUS
  <1>1. data \in Seq(Frames)
    BY FrameAssumption DEF Init
  <1>2. frame = 0 /\ yielded = <<>> /\ Len(data) \in Nat
    BY <1>1 DEF Init, Started
  <1>3. ExactlyUsable
    BY <1>2 DEF ExactlyUsable
  <1>. QED  BY <1>1, <1>2, <1>3 DEF Answers

\* Fail-closed, for every data section, cut off anywhere: next() answers for every frame
\* it passes, once and in order, with samples exactly if the frame is usable.
THEOREM EveryFrameAnswered == Spec => []ExactlyUsable
  <1>1. Init => Answers
    BY StartAnswers
  <1>2. Answers /\ [next]_vars => Answers'
    BY NextKeeps
  <1>3. Answers => ExactlyUsable
    BY DEF Answers
  <1>. QED  BY <1>1, <1>2, <1>3, PTL DEF Spec

---------------------------------------------------------------------------
(* The cursor and the statistics. *)

StatFields == {"data_section_size", "blocks_truncated", "trailer_seen", "blocks_read",
               "skipped", "per_channel"}

IsStats(s) == s = [x \in StatFields |-> s[x]]

\* What next() has taken from the stream has been counted, while it goes on.
AllCounted == Calls => stats.data_section_size = pos

Cursor ==
    /\ Answers
    /\ IsStats(stats)
    /\ TypeOK
    /\ AllCounted

\* Statistics that differ in their counters only.
Counts(n) ==
    /\ IsStats(stats')
    /\ stats'.data_section_size = stats.data_section_size + n
    /\ stats'.blocks_truncated = stats.blocks_truncated
    /\ stats'.trailer_seen = stats.trailer_seen

LEMMA SkipCounts ==
    ASSUME NEW reason, NEW size, IsStats(stats), Skip(reason, size)
    PROVE  Counts(size)
  <1>. DEFINE s == [stats EXCEPT !.data_section_size = @ + size]
  <1>1. /\ IsStats(s) /\ s.data_section_size = stats.data_section_size + size
        /\ s.blocks_truncated = stats.blocks_truncated /\ s.trailer_seen = stats.trailer_seen
    BY DEF IsStats, StatFields
  <1>. HIDE DEF s
  <1>. DEFINE i == f.index
              v == [s EXCEPT !.skipped = [s.skipped EXCEPT ![reason] = s.skipped[reason] + 1]]
              x == [v.per_channel EXCEPT ![i] =
                      [v.per_channel[i] EXCEPT
                         !.blocks_skipped = s.per_channel[i].blocks_skipped + 1]]
              t == [v EXCEPT !.per_channel = x]
              y == [t.per_channel EXCEPT ![i] =
                      [t.per_channel[i] EXCEPT
                         !.bytes_payload = s.per_channel[i].bytes_payload + f.length]]
  <1>2. stats' = record_skip(s, i, f.length, reason)
    BY DEF Skip, s
  <1>3. record_skip(s, i, f.length, reason) = [t EXCEPT !.per_channel = y]
    BY DEF record_skip
  <1>. HIDE DEF y, x, i
  <1>4. Counts(size)
    <2>1. /\ IsStats(v) /\ v.data_section_size = s.data_section_size
          /\ v.blocks_truncated = s.blocks_truncated /\ v.trailer_seen = s.trailer_seen
      BY <1>1 DEF IsStats, StatFields
    <2>. HIDE DEF v
    <2>. QED  BY <1>1, <1>2, <1>3, <2>1 DEF Counts, IsStats, StatFields
  <1>. QED  BY <1>4

LEMMA DecodedCounts ==
    ASSUME IsStats(stats), DecodedBlock
    PROVE  Counts(FrameSize(f))
  <1>. DEFINE size == FrameSize(f)
              i == f.index
              s == [stats EXCEPT !.data_section_size = @ + size, !.blocks_read = @ + 1]
              x == [s.per_channel EXCEPT ![i] =
                      [s.per_channel[i] EXCEPT
                         !.blocks_read = stats.per_channel[i].blocks_read + 1]]
              t == [s EXCEPT !.per_channel = x]
              y == [t.per_channel EXCEPT ![i] =
                      [t.per_channel[i] EXCEPT
                         !.bytes_payload = stats.per_channel[i].bytes_payload + f.length]]
  <1>1. stats' = [t EXCEPT !.per_channel = y]
    BY DEF DecodedBlock
  <1>. HIDE DEF y, x, size
  <1>2. Counts(size)
    BY <1>1 DEF Counts, IsStats, StatFields
  <1>. QED  BY <1>2 DEF size

\* A frame that is there is taken whole.
LEMMA Sizes ==
    ASSUME Cursor, frame < Len(data)
    PROVE  /\ FrameSize(f) \in Nat /\ Fields \in Nat /\ Fields >= 4
           /\ f.index # TrailerIndex => FrameSize(f) = Fields + f.length
           /\ f.index = TrailerIndex => FrameSize(f) = 6 + f.length + MagicTrailerLen
           /\ f.length \in Nat
           /\ pos \in Int /\ present \in Int /\ 0 <= pos /\ pos <= present
  <1>1. f.length \in Nat /\ f.index \in Nat
    BY FrameType DEF Cursor
  <1>2. Width(f) \in {2, 4} /\ (f.index = TrailerIndex => Width(f) = 4)
    BY ChannelAssumption DEF Width
  <1>3. MagicTrailerLen \in Nat
    BY ChannelAssumption
  <1>4. pos \in Int /\ present \in Int /\ 0 <= pos /\ pos <= present
    BY DEF Cursor, TypeOK
  <1>. QED  BY <1>1, <1>2, <1>3, <1>4 DEF FrameSize, Fields

\* Behind a frame, or at the end.
LEMMA PassedOn ==
    ASSUME Cursor, Answers', Calls, NEW n \in Nat, Counts(n), pos' = pos + n, Has(n),
           UNCHANGED <<file, finished, adrift>>
    PROVE  Cursor'
  <1>1. /\ pos \in 0..present /\ present \in 0..SizeOf(data)
        /\ stats.data_section_size = pos
        /\ stats.blocks_truncated \in {0, 1} /\ stats.trailer_seen \in BOOLEAN
        /\ finished \in BOOLEAN /\ adrift \in BOOLEAN
    BY DEF Cursor, TypeOK, AllCounted
  <1>2. UNCHANGED <<data, present>>
    BY DEF file
  <1>3. pos' \in 0..present /\ stats'.data_section_size = pos'
    BY <1>1 DEF Has, Counts
  <1>4. present' \in 0..SizeOf(data)'
    BY <1>1, <1>2
  <1>5. TypeOK'
    BY <1>1, <1>2, <1>3, <1>4 DEF TypeOK, Answers, Counts
  <1>. QED  BY <1>3, <1>5 DEF Cursor, AllCounted, Counts

LEMMA Over ==
    ASSUME Cursor, Answers', ~Calls', UNCHANGED file, pos' \in 0..present,
           finished' \in BOOLEAN, adrift' \in BOOLEAN, IsStats(stats'),
           stats'.blocks_truncated \in {0, 1}, stats'.trailer_seen \in BOOLEAN
    PROVE  Cursor'
  <1>1. UNCHANGED <<data, present>> /\ present \in 0..SizeOf(data)
    BY DEF file, Cursor, TypeOK
  <1>2. present' \in 0..SizeOf(data)'
    BY <1>1
  <1>3. TypeOK'
    BY <1>1, <1>2 DEF TypeOK, Answers
  <1>. QED  BY <1>3 DEF Cursor, AllCounted

LEMMA InFile ==
    ASSUME Cursor
    PROVE  /\ pos \in 0..present /\ present \in 0..present
           /\ finished \in BOOLEAN /\ adrift \in BOOLEAN /\ IsStats(stats)
           /\ stats.blocks_truncated \in {0, 1} /\ stats.trailer_seen \in BOOLEAN
  BY DEF Cursor, TypeOK

LEMMA SkipMoves ==
    ASSUME Cursor, Answers', Calls, NEW reason, NEW size \in Nat, Has(size),
           Skip(reason, size)
    PROVE  Cursor'
  <1>1. Counts(size)
    BY SkipCounts DEF Cursor
  <1>. QED  BY <1>1, PassedOn DEF Skip, Pass

LEMMA TruncatedMoves ==
    ASSUME Cursor, Answers', NEW counted, Truncated(counted)
    PROVE  Cursor'
  <1>1. /\ IsStats(stats') /\ stats'.blocks_truncated = 1
        /\ stats'.trailer_seen = stats.trailer_seen
    BY InFile DEF Truncated, IsStats, StatFields
  <1>2. /\ pos' = present /\ finished' = TRUE /\ adrift' = adrift /\ UNCHANGED file /\ ~Calls'
    BY DEF Truncated, Calls
  <1>. QED  BY <1>1, <1>2, InFile, Over

LEMMA FailedMoves ==
    ASSUME Cursor, Answers', NEW counted, Failed(counted)
    PROVE  Cursor'
  <1>1. /\ IsStats(stats') /\ stats'.blocks_truncated = stats.blocks_truncated
        /\ stats'.trailer_seen = stats.trailer_seen
    BY InFile DEF Failed, IsStats, StatFields
  <1>2. /\ pos' = pos /\ finished' = TRUE /\ adrift' = adrift /\ UNCHANGED file /\ ~Calls'
    BY DEF Failed, Calls, cursor
  <1>. QED  BY <1>1, <1>2, InFile, Over

LEMMA TrailerMoves ==
    ASSUME Cursor, Answers', Trailer
    PROVE  Cursor'
  <1>1. CASE Failed(6)
    BY <1>1, FailedMoves
  <1>2. CASE ~Failed(6)
    <2>1. PICK tail \in {Has(FrameSize(f))} \cup (IF IoErrors THEN {FALSE} ELSE {}) :
             /\ finished' = TRUE
             /\ stats' = [stats EXCEPT
                   !.trailer_seen = TRUE,
                   !.blocks_truncated = IF Has(6 + f.length) THEN @ ELSE 1,
                   !.data_section_size = @ + 6
                       + (IF Has(6 + f.length) THEN f.length ELSE 0)
                       + (IF tail THEN MagicTrailerLen ELSE 0)]
             /\ pos' = IF tail THEN pos + FrameSize(f) ELSE present
             /\ UNCHANGED <<file, adrift>>
      BY <1>2 DEF Trailer
    <2>2. tail => Has(FrameSize(f))
      OBVIOUS
    <2>3. pos' \in 0..present
      <3>1. FrameSize(f) \in Nat /\ pos \in Int /\ present \in Int /\ 0 <= pos /\ pos <= present
        BY Sizes DEF Trailer, At
      <3>. QED  BY <2>1, <2>2, <3>1 DEF Has
    <2>4. /\ IsStats(stats') /\ stats'.blocks_truncated \in {0, 1}
          /\ stats'.trailer_seen = TRUE
      BY <2>1, InFile DEF IsStats, StatFields
    <2>. QED  BY <2>1, <2>3, <2>4, InFile, Over DEF Calls
  <1>. QED  BY <1>1, <1>2

LEMMA UnsupportedMoves ==
    ASSUME Cursor, Answers', UnsupportedBlock
    PROVE  Cursor'
  <1>1. Calls /\ frame < Len(data)
    BY DEF UnsupportedBlock, Declared, At
  <1>2. CASE Has(FrameSize(f)) /\ Skip("UnsupportedDataType", FrameSize(f))
    BY <1>1, <1>2, Sizes, SkipMoves
  <1>3. CASE /\ stats' = [stats EXCEPT !.data_section_size = @ + Fields, !.blocks_truncated = 1]
             /\ pos' = present /\ finished' = TRUE /\ UNCHANGED <<file, adrift>>
    <2>1. /\ IsStats(stats') /\ stats'.blocks_truncated = 1
          /\ stats'.trailer_seen = stats.trailer_seen
      BY <1>3, InFile DEF IsStats, StatFields
    <2>. QED  BY <1>3, <2>1, InFile, Over DEF Calls
  <1>4. CASE /\ stats' = [stats EXCEPT !.data_section_size = @ + Fields]
             /\ adrift' = TRUE /\ UNCHANGED <<file, cursor, finished>>
    <2>1. /\ IsStats(stats') /\ stats'.blocks_truncated = stats.blocks_truncated
          /\ stats'.trailer_seen = stats.trailer_seen
      BY <1>4, InFile DEF IsStats, StatFields
    <2>. QED  BY <1>4, <2>1, InFile, Over DEF Calls, cursor
  <1>. QED  BY <1>2, <1>3, <1>4 DEF UnsupportedBlock

LEMMA ReadMoves ==
    ASSUME Cursor, Answers', CrcFailed \/ SkippedByControl \/ DecodedBlock \/ ParseError
    PROVE  Cursor'
  <1>1. Calls /\ frame < Len(data) /\ Has(FrameSize(f))
    BY DEF CrcFailed, SkippedByControl, DecodedBlock, ParseError, Read, Declared, At
  <1>2. FrameSize(f) \in Nat
    BY <1>1, Sizes
  <1>3. CASE CrcFailed
    BY <1>1, <1>2, <1>3, SkipMoves DEF CrcFailed
  <1>4. CASE SkippedByControl
    BY <1>1, <1>2, <1>4, SkipMoves DEF SkippedByControl
  <1>5. CASE DecodedBlock
    <2>1. Counts(FrameSize(f))
      BY <1>5, DecodedCounts DEF Cursor
    <2>. QED  BY <1>1, <1>2, <1>5, <2>1, PassedOn DEF DecodedBlock, Pass
  <1>6. CASE ParseError
    <2>1. stats' = [stats EXCEPT !.data_section_size = @ + FrameSize(f)]
      BY <1>6 DEF ParseError
    <2>2. Counts(FrameSize(f))
      BY <2>1, InFile DEF Counts, IsStats, StatFields
    <2>. QED  BY <1>1, <1>2, <1>6, <2>2, PassedOn DEF ParseError, Pass
  <1>. QED  BY <1>3, <1>4, <1>5, <1>6

LEMMA NextMoves ==
    ASSUME Cursor, [next]_vars
    PROVE  Cursor'
  <1>. Answers'
    BY NextKeeps DEF Cursor
  <1>1. CASE EndOfStream
    <2>1. /\ pos' = present /\ finished' = TRUE /\ UNCHANGED <<file, adrift, stats>> /\ ~Calls'
      BY <1>1 DEF EndOfStream, Calls
    <2>. QED  BY <2>1, InFile, Over
  <1>2. CASE IndexFails
    BY <1>2, FailedMoves DEF IndexFails
  <1>3. CASE Trailer
    BY <1>3, TrailerMoves
  <1>4. CASE SignatureBlock
    <2>1. Calls /\ frame < Len(data)
      BY <1>4 DEF SignatureBlock, At
    <2>. QED  BY <1>4, <2>1, Sizes, SkipMoves, TruncatedMoves, FailedMoves DEF SignatureBlock
  <1>5. CASE UnknownChannel
    <2>1. /\ Has(2) /\ frame < Len(data) /\ pos' = pos + 2
          /\ finished' = TRUE /\ UNCHANGED <<file, adrift>> /\ ~Calls'
          /\ stats' = [stats EXCEPT !.data_section_size = @ + 2]
      BY <1>5 DEF UnknownChannel, At, Calls
    <2>2. /\ IsStats(stats') /\ stats'.blocks_truncated = stats.blocks_truncated
          /\ stats'.trailer_seen = stats.trailer_seen
      BY <2>1, InFile DEF IsStats, StatFields
    <2>3. pos' \in 0..present
      BY <2>1, InFile DEF Has
    <2>. QED  BY <2>1, <2>2, <2>3, InFile, Over
  <1>6. CASE LengthField
    BY <1>6, TruncatedMoves, FailedMoves DEF LengthField
  <1>7. CASE ZeroLengthBlock
    <2>1. Calls /\ frame < Len(data) /\ Has(Fields) /\ Skip("ZeroLengthBlock", Fields)
      BY <1>7 DEF ZeroLengthBlock, Declared, At
    <2>. QED  BY <2>1, Sizes, SkipMoves
  <1>8. CASE UnsupportedBlock
    BY <1>8, UnsupportedMoves
  <1>9. CASE Payload
    BY <1>9, TruncatedMoves, FailedMoves DEF Payload
  <1>10. CASE CrcFailed \/ SkippedByControl \/ DecodedBlock \/ ParseError
    BY <1>10, ReadMoves
  <1>11. CASE UNCHANGED vars
    BY <1>11 DEF vars, file, cursor, Cursor, TypeOK, AllCounted, Calls
  <1>. QED  BY <1>1, <1>2, <1>3, <1>4, <1>5, <1>6, <1>7, <1>8, <1>9, <1>10, <1>11 DEF next

LEMMA CursorAlways == Spec => []Cursor
  <1>1. Init => Cursor
    <2>. SUFFICES ASSUME Init
                  PROVE  Cursor
      OBVIOUS
    <2>1. Answers
      BY StartAnswers
    <2>2. present \in 0..SizeOf(data)
      BY DEF Init
    <2>3. /\ IsStats(stats) /\ stats.data_section_size = 0
          /\ stats.blocks_truncated = 0 /\ stats.trailer_seen = FALSE
      BY DEF Init, Started, NoStats, IsStats, StatFields
    <2>4. pos = 0 /\ 0 \in 0..present /\ finished = FALSE /\ adrift = FALSE
      BY <2>2 DEF Init, Started
    <2>. QED  BY <2>1, <2>2, <2>3, <2>4 DEF Cursor, TypeOK, AllCounted, Answers
  <1>2. Cursor /\ [next]_vars => Cursor'
    BY NextMoves
  <1>. QED  BY <1>1, <1>2, PTL DEF Spec

\* The types hold for every data section: the cursor never leaves the bytes that the
\* stream delivers, and no more frames are passed than there are.
THEOREM TypeCorrect == Spec => []TypeOK
  <1>1. Cursor => TypeOK
    BY DEF Cursor
  <1>. QED  BY <1>1, CursorAlways, PTL

\* For every data section: as long as next() goes on, the bytes that it has counted are
\* the bytes that it has taken, on each path through it.
THEOREM EveryByteCounted == Spec => []AllCounted
  <1>1. Cursor => AllCounted
    BY DEF Cursor
  <1>. QED  BY <1>1, CursorAlways, PTL

---------------------------------------------------------------------------
(* Where a frame begins. *)

\* A frame takes at least its index and the shorter length field.
LEMMA FrameSizes ==
    ASSUME NEW g \in Frames
    PROVE  FrameSize(g) \in Nat /\ FrameSize(g) >= 4
  <1>1. g.length \in Nat /\ g.index \in Nat
    BY FrameAssumption
  <1>2. Width(g) \in {2, 4} /\ MagicTrailerLen \in Nat
    BY ChannelAssumption DEF Width
  <1>. QED  BY <1>1, <1>2 DEF FrameSize

\* The size of a data section is the sum of the sizes of its frames.
LEMMA SizeIsSum ==
    ASSUME NEW s \in Seq(Frames)
    PROVE  IsSum(SizeOf(s), 1..Len(s), [i \in 1..Len(s) |-> FrameSize(s[i])])
  <1>. DEFINE D == 1..Len(s)
              n == [i \in D |-> FrameSize(s[i])]
              pick == [u \in SUBSET D |-> Max(u)]
              t == CHOOSE it : it = [u \in SUBSET DOMAIN s |->
                      IF u = {} THEN 0 ELSE it[u \ {Max(u)}] + FrameSize(s[Max(u)])]
  <1>1. SizeOf(s) = t[DOMAIN s]
    BY Zenon DEF SizeOf, FoldLeft, MapThenFoldSet
  <1>2. DOMAIN s = D /\ Len(s) \in Nat
    OBVIOUS
  <1>3. ASSUME NEW u \in SUBSET D, u # {}
        PROVE  Max(u) \in u
    <2>1. \E x \in u : \A y \in u : x >= y
      BY <1>2, <1>3, LargestOfRange
    <2>. QED  BY <2>1, Zenon DEF Max
  <1>4. Picks(pick, D)
    BY <1>3 DEF Picks
  <1>5. n \in [D -> Int] /\ IsFiniteSet(D)
    <2>1. \A i \in D : s[i] \in Frames
      OBVIOUS
    <2>2. \A i \in D : FrameSize(s[i]) \in Int
      BY <2>1, FrameSizes
    <2>. QED  BY <2>2, <1>2, FS_Interval
  <1>. HIDE DEF pick, n
  <1>6. PICK w : Summing(w, D, n, pick)
    BY <1>4, <1>5, SumExists
  <1>7. \A u \in SUBSET D : u # {} => pick[u] = Max(u) /\ n[pick[u]] = FrameSize(s[Max(u)])
    BY <1>3 DEF pick, n
  <1>8. w = [u \in SUBSET DOMAIN s |->
                IF u = {} THEN 0 ELSE w[u \ {Max(u)}] + FrameSize(s[Max(u)])]
    <2>. HIDE DEF D
    <2>. QED  BY <1>2, <1>6, <1>7 DEF Summing
  <1>9. t = [u \in SUBSET DOMAIN s |->
                IF u = {} THEN 0 ELSE t[u \ {Max(u)}] + FrameSize(s[Max(u)])]
    BY <1>8, Zenon
  <1>. HIDE DEF t
  <1>10. Adds(t, D, n, pick)
    <2>. HIDE DEF D
    <2>. QED  BY <1>2, <1>7, <1>9 DEF Adds
  <1>11. IsSum(SizeOf(s), D, n)
    BY <1>1, <1>2, <1>4, <1>10 DEF IsSum
  <1>. QED  BY <1>11 DEF n

\* A frame begins where the one before it ends.
LEMMA Offsets ==
    ASSUME data \in Seq(Frames), NEW i \in 1..Len(data)
    PROVE  Offset(i) \in Int /\ Offset(i + 1) = Offset(i) + FrameSize(data[i])
  <1>. DEFINE s == SubSeq(data, 1, i - 1)
              r == SubSeq(data, 1, i)
              n == [k \in 1..Len(s) |-> FrameSize(s[k])]
              m == [k \in 1..Len(r) |-> FrameSize(r[k])]
  <1>1. /\ s \in Seq(Frames) /\ Len(s) = i - 1
        /\ r \in Seq(Frames) /\ Len(r) = i
        /\ \A k \in 1..(i - 1) : s[k] = data[k]
        /\ \A k \in 1..i : r[k] = data[k]
        /\ i \in Nat /\ i - 1 \in Nat
    OBVIOUS
  <1>2. IsSum(SizeOf(s), 1..(i - 1), n) /\ IsSum(SizeOf(r), 1..i, m)
    BY <1>1, SizeIsSum
  <1>3. \A k \in 1..i : data[k] \in Frames
    OBVIOUS
  <1>4. /\ \A k \in 1..(i - 1) : n[k] \in Int /\ m[k] = n[k]
        /\ m[i] = FrameSize(data[i]) /\ m[i] \in Int
    BY <1>1, <1>3, FrameSizes
  <1>. DEFINE D == 1..(i - 1)
  <1>5. IsFiniteSet(D) /\ D \cup {i} = 1..i /\ i \notin D
    <2>1. IsFiniteSet(D)
      BY <1>1, FS_Interval
    <2>2. D \cup {i} = 1..i /\ i \notin D
      BY <1>1
    <2>. QED  BY <2>1, <2>2
  <1>6. Offset(i) = SizeOf(s) /\ Offset(i + 1) = SizeOf(r)
    BY <1>1 DEF Offset
  <1>. HIDE DEF s, r, n, m, D
  <1>7. /\ IsSum(SizeOf(s), D, n) /\ IsSum(SizeOf(r), D \cup {i}, m)
        /\ \A k \in D : n[k] \in Int
        /\ \A k \in D : m[k] = n[k]
    BY <1>2, <1>4, <1>5 DEF D
  <1>8. SizeOf(s) \in Int
    BY <1>5, <1>7, SumIsInteger
  <1>9. SizeOf(r) = SizeOf(s) + m[i]
    BY <1>4, <1>5, <1>7, SumOfOneMore
  <1>. QED  BY <1>4, <1>6, <1>8, <1>9

LEMMA FirstOffset ==
    ASSUME data \in Seq(Frames)
    PROVE  Offset(1) = 0
  <1>1. Offset(1) = SizeOf(<<>>)
    <2>1. SubSeq(data, 1, 1 - 1) = <<>>
      OBVIOUS
    <2>. QED  BY <2>1 DEF Offset
  <1>2. <<>> \in Seq(Frames) /\ 1..Len(<<>>) = {}
    OBVIOUS
  <1>3. IsSum(SizeOf(<<>>), {}, [k \in {} |-> FrameSize(<<>>[k])])
    BY <1>2, SizeIsSum
  <1>. QED  BY <1>1, <1>3, SumOfNothing

---------------------------------------------------------------------------
\* The cursor stands between two frames while next() goes on, and where the
\* iteration ends is what BestEffort says.
Place ==
    /\ Cursor
    /\ Calls => /\ pos = Offset(frame + 1)
                /\ stats.blocks_truncated = 0 /\ stats.trailer_seen = FALSE
    /\ BestEffort

LEMMA PlacePassed ==
    ASSUME Place, Cursor', Calls, frame < Len(data), Counts(FrameSize(f)),
           pos' = pos + FrameSize(f), frame' = frame + 1,
           UNCHANGED <<file, finished, adrift>>
    PROVE  Place'
  <1>1. data \in Seq(Frames) /\ frame \in Nat /\ frame + 1 \in 1..Len(data)
    BY FrameType DEF Place, Cursor, Answers
  <1>2. pos = Offset(frame + 1) /\ Offset(frame + 2) = Offset(frame + 1) + FrameSize(f)
    <2>1. Offset((frame + 1) + 1) = Offset(frame + 1) + FrameSize(data[frame + 1])
      BY <1>1, Offsets
    <2>2. (frame + 1) + 1 = frame + 2
      BY <1>1
    <2>. QED  BY <2>1, <2>2 DEF Place, f
  <1>3. pos' = Offset(frame + 1)'
    <2>1. data' = data /\ frame' + 1 = frame + 2
      BY <1>1 DEF file
    <2>. QED  BY <1>2, <2>1 DEF Offset
  <1>4. stats'.blocks_truncated = 0 /\ stats'.trailer_seen = FALSE
    BY DEF Place, Counts
  <1>5. finished' = FALSE
    BY DEF Calls, Place, Cursor, TypeOK
  <1>. QED  BY <1>3, <1>4, <1>5 DEF Place, BestEffort

LEMMA PlaceEnded ==
    ASSUME Place, Cursor', Calls, finished' = TRUE, UNCHANGED <<file, frame>>,
           stats'.blocks_truncated = IF present - pos > 1 THEN 1 ELSE 0,
           frame < Len(data) => present - pos < FrameSize(f)
    PROVE  Place'
  <1>1. UNCHANGED <<data, present>>
    BY DEF file
  <1>2. Offset(frame + 1)' = pos
    BY <1>1 DEF Offset, Place
  <1>3. ~Calls'
    BY DEF Calls
  <1>4. BestEffort'
    BY <1>1, <1>2 DEF BestEffort, f
  <1>. QED  BY <1>3, <1>4 DEF Place

LEMMA PlaceErrs ==
    ASSUME Place, Cursor', Calls, ~Calls', NEW result \in Errors, Yield(result)
    PROVE  Place'
  <1>1. result \in Results /\ Answers
    BY DEF Errors, Results, Place, Cursor
  <1>2. /\ frame + 1 \in DOMAIN yielded' /\ yielded'[frame + 1].result = result
    <2>1. DOMAIN yielded' = 1..(frame + 1) /\ yielded'[frame + 1].result = result
      BY <1>1, Answered
    <2>2. frame \in Nat
      BY <1>1 DEF Answers
    <2>. QED  BY <2>1, <2>2
  <1>3. Ended(Errors)'
    BY <1>2 DEF Ended
  <1>. QED  BY <1>3 DEF Place, BestEffort

LEMMA PlaceSkip ==
    ASSUME Place, Cursor', Calls, frame < Len(data), NEW reason, Skip(reason, FrameSize(f))
    PROVE  Place'
  <1>1. Counts(FrameSize(f))
    BY SkipCounts DEF Place, Cursor
  <1>. QED  BY <1>1, PlacePassed DEF Skip, Pass

LEMMA PlaceFailed ==
    ASSUME Place, Cursor', Calls, NEW counted, Failed(counted)
    PROVE  Place'
  <1>1. Yield("Io") /\ ~Calls'
    BY DEF Failed, Calls
  <1>. QED  BY <1>1, PlaceErrs DEF Errors

\* A stream that ends inside a frame of which at least the index is there.
LEMMA PlaceTruncated ==
    ASSUME Place, Cursor', Calls, frame < Len(data), Has(2), ~Has(FrameSize(f)),
           NEW counted, Truncated(counted)
    PROVE  Place'
  <1>1. /\ pos \in Int /\ present \in Int /\ FrameSize(f) \in Nat
    BY Sizes DEF Place
  <1>2. present - pos > 1 /\ present - pos < FrameSize(f)
    BY <1>1 DEF Has
  <1>3. stats'.blocks_truncated = 1
    BY InFile DEF Truncated, IsStats, StatFields, Place
  <1>. QED  BY <1>2, <1>3, PlaceEnded DEF Truncated

LEMMA NextPlaces ==
    ASSUME Place, [next]_vars
    PROVE  Place'
  <1>. Cursor /\ Cursor'
    BY NextMoves DEF Place
  <1>1. CASE EndOfStream
    <2>1. Calls /\ ~Has(2) /\ finished' = TRUE /\ UNCHANGED <<file, frame, stats>>
      BY <1>1 DEF EndOfStream
    <2>2. /\ pos \in Int /\ present \in Int /\ present - pos <= 1
      BY <2>1 DEF Has, Cursor, TypeOK
    <2>3. frame < Len(data) => present - pos < FrameSize(f)
      <3>1. frame < Len(data) => f \in Frames
        BY FrameType DEF Cursor
      <3>. QED  BY <2>2, <3>1, FrameSizes
    <2>4. stats'.blocks_truncated = IF present - pos > 1 THEN 1 ELSE 0
      BY <2>1, <2>2 DEF Place
    <2>. QED  BY <2>1, <2>3, <2>4, PlaceEnded
  <1>2. CASE IndexFails
    BY <1>2, PlaceFailed DEF IndexFails
  <1>3. CASE Trailer
    <2>1. CASE Failed(6)
      BY <1>3, <2>1, PlaceFailed DEF Trailer, At
    <2>2. CASE ~Failed(6)
      <3>1. /\ finished' = TRUE /\ stats'.trailer_seen = TRUE
        BY <1>3, <2>2, InFile DEF Trailer, IsStats, StatFields
      <3>. QED  BY <3>1 DEF Place, Calls, BestEffort
    <2>. QED  BY <2>1, <2>2
  <1>4. CASE SignatureBlock
    <2>1. Calls /\ frame < Len(data) /\ Has(2)
      BY <1>4 DEF SignatureBlock, At
    <2>. QED  BY <1>4, <2>1, PlaceSkip, PlaceTruncated, PlaceFailed DEF SignatureBlock
  <1>5. CASE UnknownChannel
    <2>1. Calls /\ Yield("UnknownChannelIndex") /\ ~Calls'
      BY <1>5 DEF UnknownChannel, At, Calls
    <2>. QED  BY <2>1, PlaceErrs DEF Errors
  <1>6. ASSUME Declared
        PROVE  /\ Calls /\ frame < Len(data) /\ Has(2) /\ f.length \in Nat
               /\ FrameSize(f) = Fields + f.length /\ Fields \in Nat
               /\ pos \in Int /\ present \in Int
    <2>1. Calls /\ frame < Len(data) /\ Has(2) /\ f.index \in DOMAIN ChannelInfo
      BY <1>6 DEF Declared, At
    <2>2. f.index # TrailerIndex
      BY <2>1, ChannelAssumption
    <2>. QED  BY <2>1, <2>2, Sizes
  <1>7. CASE LengthField
    <2>1. Declared
      BY <1>7 DEF LengthField
    <2>2. CASE ~Has(Fields) /\ Truncated(2)
      <3>1. ~Has(FrameSize(f))
        BY <2>1, <2>2, <1>6 DEF Has
      <3>. QED  BY <2>1, <2>2, <3>1, <1>6, PlaceTruncated
    <2>. QED  BY <1>7, <2>1, <2>2, <1>6, PlaceFailed DEF LengthField
  <1>8. CASE ZeroLengthBlock
    <2>1. Declared /\ Skip("ZeroLengthBlock", Fields) /\ f.length = 0
      BY <1>8 DEF ZeroLengthBlock
    <2>2. Fields = FrameSize(f)
      BY <2>1, <1>6
    <2>. QED  BY <2>1, <2>2, <1>6, PlaceSkip
  <1>9. CASE UnsupportedBlock
    <2>1. Declared
      BY <1>9 DEF UnsupportedBlock
    <2>2. CASE Skip("UnsupportedDataType", FrameSize(f))
      BY <2>1, <2>2, <1>6, PlaceSkip
    <2>3. CASE finished' = TRUE /\ Yield("UnexpectedEof")
      BY <2>1, <2>3, <1>6, PlaceErrs DEF Errors, Calls
    <2>4. CASE adrift' = TRUE /\ Yield("Io")
      BY <2>1, <2>4, <1>6, PlaceErrs DEF Errors, Calls
    <2>. QED  BY <1>9, <2>2, <2>3, <2>4 DEF UnsupportedBlock
  <1>10. CASE Payload
    <2>1. Declared
      BY <1>10 DEF Payload
    <2>. QED  BY <1>10, <2>1, <1>6, PlaceTruncated, PlaceFailed DEF Payload
  <1>11. CASE CrcFailed \/ SkippedByControl
    <2>1. Declared
      BY <1>11 DEF CrcFailed, SkippedByControl, Read
    <2>. QED  BY <1>11, <2>1, <1>6, PlaceSkip DEF CrcFailed, SkippedByControl
  <1>12. CASE DecodedBlock
    <2>1. Declared /\ Counts(FrameSize(f))
      BY <1>12, DecodedCounts DEF DecodedBlock, Read, Cursor
    <2>. QED  BY <1>12, <2>1, <1>6, PlacePassed DEF DecodedBlock, Pass
  <1>13. CASE ParseError
    <2>1. Declared /\ stats' = [stats EXCEPT !.data_section_size = @ + FrameSize(f)]
      BY <1>13 DEF ParseError, Read
    <2>2. Counts(FrameSize(f))
      BY <2>1, InFile DEF Counts, IsStats, StatFields
    <2>. QED  BY <1>13, <2>1, <2>2, <1>6, PlacePassed DEF ParseError, Pass
  <1>14. CASE UNCHANGED vars
    <2>1. UNCHANGED <<data, present, pos, frame, finished, adrift, stats, yielded>>
      BY <1>14 DEF vars, file, cursor
    <2>. QED  BY <2>1 DEF Place, Calls, Offset, BestEffort, Ended
  <1>. QED  BY <1>1, <1>2, <1>3, <1>4, <1>5, <1>7, <1>8, <1>9, <1>10, <1>11, <1>12, <1>13,
               <1>14 DEF next

LEMMA PlaceAlways == Spec => []Place
  <1>1. Init /\ Cursor => Place
    <2>. SUFFICES ASSUME Init, Cursor
                  PROVE  Place
      OBVIOUS
    <2>1. pos = 0 /\ frame = 0 /\ finished = FALSE
          /\ stats.blocks_truncated = 0 /\ stats.trailer_seen = FALSE
      BY DEF Init, Started, NoStats
    <2>2. Offset(1) = 0
      BY FirstOffset DEF Cursor, Answers
    <2>. QED  BY <2>1, <2>2 DEF Place, BestEffort
  <1>2. Place /\ [next]_vars => Place'
    BY NextPlaces
  <1>. QED  BY <1>1, <1>2, CursorAlways, PTL DEF Spec

\* For every data section: between two calls of next() the cursor stands at the
\* beginning of a frame, on whichever path the frames before it were passed, and
\* every byte behind it has been counted.
THEOREM CursorInStep == Spec => []InStep
  <1>1. Place => InStep
    BY DEF Place, Cursor, AllCounted, InStep, Calls
  <1>. QED  BY <1>1, PlaceAlways, PTL

\* Wherever the stream is cut off: an iteration that ends without an error has
\* passed every whole frame, or the trailer, and counts a truncated block exactly
\* if more than part of a channel index follows.
THEOREM TruncationIsBestEffort == Spec => []BestEffort
  <1>1. Place => BestEffort
    BY DEF Place
  <1>. QED  BY <1>1, PlaceAlways, PTL

---------------------------------------------------------------------------
(* The statistics of the blocks, by channel and by result. *)

Tallied == SkipReasons \cup {"data"}

ChannelStats == [blocks_read : Nat, blocks_skipped : Nat, bytes_payload : Nat]

StatChannels == DOMAIN ChannelInfo \cup {SignatureIndex}

Counters ==
    /\ stats.blocks_read \in Nat
    /\ stats.skipped \in [SkipReasons -> Nat]
    /\ stats.per_channel \in [StatChannels -> ChannelStats]

BlocksOf(d, y, ch) == {k \in DOMAIN y : y[k].result \in Tallied /\ d[y[k].frame].index = ch}

ResultsOf(y, r) == {k \in DOMAIN y : y[k].result = r}

BytesOf(d, y, S) == FoldSet(LAMBDA k, t : t + d[y[k].frame].length, 0, S)

BlocksTally(ch) ==
    LET c == stats.per_channel[ch]
    IN  /\ c.blocks_read + c.blocks_skipped = Cardinality(BlocksOf(data, yielded, ch))
        /\ c.bytes_payload = BytesOf(data, yielded, BlocksOf(data, yielded, ch))

Tallies ==
    /\ Cursor
    /\ Counters
    /\ \A ch \in StatChannels : BlocksTally(ch)
    /\ \A r \in SkipReasons : stats.skipped[r] = Cardinality(ResultsOf(yielded, r))
    /\ stats.blocks_read = Cardinality(ResultsOf(yielded, "data"))

\* One more block of f with this result is in the statistics.
Tally(result) ==
    /\ Counters'
    /\ stats'.blocks_read = stats.blocks_read + (IF result = "data" THEN 1 ELSE 0)
    /\ \A r \in SkipReasons :
          stats'.skipped[r] = stats.skipped[r] + (IF r = result THEN 1 ELSE 0)
    /\ \A ch \in StatChannels :
          LET c == stats.per_channel[ch]
              d == stats'.per_channel[ch]
          IN  IF ch = f.index
              THEN /\ d.blocks_read + d.blocks_skipped = c.blocks_read + c.blocks_skipped + 1
                   /\ d.bytes_payload = c.bytes_payload + f.length
              ELSE d = c

\* The total of the lengths is a sum.
LEMMA BytesAreSum ==
    ASSUME NEW d, NEW y, NEW S, IsFiniteSet(S), \A k \in S : d[y[k].frame].length \in Int
    PROVE  IsSum(BytesOf(d, y, S), S, [k \in S |-> d[y[k].frame].length])
  <1>. DEFINE n == [k \in S |-> d[y[k].frame].length]
              pick == [u \in SUBSET S |-> CHOOSE x \in u : TRUE]
              t == CHOOSE it : it = [u \in SUBSET S |->
                      IF u = {} THEN 0
                      ELSE it[u \ {CHOOSE x \in u : TRUE}]
                             + d[y[CHOOSE x \in u : TRUE].frame].length]
  <1>1. BytesOf(d, y, S) = t[S]
    BY Zenon DEF BytesOf, FoldSet, MapThenFoldSet
  <1>2. \A u \in SUBSET S : u # {} => (CHOOSE x \in u : TRUE) \in u
    OBVIOUS
  <1>3. Picks(pick, S)
    BY <1>2 DEF Picks
  <1>4. n \in [S -> Int]
    OBVIOUS
  <1>. HIDE DEF pick, n
  <1>5. PICK w : Summing(w, S, n, pick)
    BY <1>3, <1>4, SumExists
  <1>6. \A u \in SUBSET S : u # {} =>
           /\ pick[u] = CHOOSE x \in u : TRUE
           /\ n[pick[u]] = d[y[CHOOSE x \in u : TRUE].frame].length
    BY <1>2 DEF pick, n
  <1>7. w = [u \in SUBSET S |->
               IF u = {} THEN 0
               ELSE w[u \ {CHOOSE x \in u : TRUE}]
                      + d[y[CHOOSE x \in u : TRUE].frame].length]
    BY <1>5, <1>6 DEF Summing
  <1>8. t = [u \in SUBSET S |->
               IF u = {} THEN 0
               ELSE t[u \ {CHOOSE x \in u : TRUE}]
                      + d[y[CHOOSE x \in u : TRUE].frame].length]
    BY <1>7, Zenon
  <1>. HIDE DEF t
  <1>9. Adds(t, S, n, pick)
    <2>1. ASSUME NEW u \in SUBSET S
          PROVE  t[u] = IF u = {} THEN 0
                        ELSE t[u \ {CHOOSE x \in u : TRUE}]
                               + d[y[CHOOSE x \in u : TRUE].frame].length
      BY <1>8, Zenon
    <2>. QED  BY <1>6, <2>1 DEF Adds
  <1>10. IsSum(BytesOf(d, y, S), S, n)
    BY <1>1, <1>3, <1>9 DEF IsSum
  <1>. QED  BY <1>10 DEF n

\* The blocks of a channel are blocks of the file.
LEMMA BlocksInFile ==
    ASSUME Cursor, Calls, NEW ch
    PROVE  /\ IsFiniteSet(BlocksOf(data, yielded, ch))
           /\ \A k \in DOMAIN yielded :
                 k \in 1..frame /\ yielded[k].frame = k /\ data[k].length \in Int
  <1>1. /\ DOMAIN yielded = 1..frame /\ frame \in 0..Len(data) /\ data \in Seq(Frames)
        /\ \A k \in DOMAIN yielded : yielded[k].frame = k
    BY DEF Cursor, Answers, ExactlyUsable
  <1>2. IsFiniteSet(1..frame) /\ BlocksOf(data, yielded, ch) \in SUBSET (1..frame)
    BY <1>1, FS_Interval DEF BlocksOf
  <1>3. \A k \in 1..frame : data[k] \in Frames
    BY <1>1
  <1>4. \A k \in 1..frame : data[k].length \in Int
    BY <1>3, FrameAssumption
  <1>. QED  BY <1>1, <1>2, <1>4, FS_Subset

\* A call that answers without a block leaves the statistics of the blocks alone.
LEMMA NoTally ==
    ASSUME Tallies, Cursor', Calls, UNCHANGED data,
           stats'.blocks_read = stats.blocks_read, stats'.skipped = stats.skipped,
           stats'.per_channel = stats.per_channel,
           \/ UNCHANGED yielded
           \/ \E result \in Results \ Tallied : Yield(result)
    PROVE  Tallies'
  <1>1. Answers /\ frame \in Nat
    BY DEF Tallies, Cursor, Answers
  <1>2. /\ \A k \in DOMAIN yielded : k \in DOMAIN yielded' /\ yielded'[k] = yielded[k]
        /\ \A k \in DOMAIN yielded' : k \in DOMAIN yielded \/ yielded'[k].result \notin Tallied
    <2>1. CASE UNCHANGED yielded
      BY <2>1
    <2>2. CASE \E result \in Results \ Tallied : Yield(result)
      <3>1. PICK result \in Results \ Tallied : Yield(result)
        BY <2>2
      <3>2. /\ DOMAIN yielded' = 1..(frame + 1) /\ DOMAIN yielded = 1..frame
            /\ \A k \in 1..frame : yielded'[k] = yielded[k]
            /\ yielded'[frame + 1].result = result
        BY <1>1, <3>1, Answered
      <3>3. /\ \A k \in 1..(frame + 1) : k \in 1..frame \/ k = frame + 1
            /\ \A k \in 1..frame : k \in 1..(frame + 1)
        BY <1>1
      <3>. QED  BY <3>1, <3>2, <3>3
    <2>. QED  BY <2>1, <2>2
  <1>3. /\ \A r \in Tallied : ResultsOf(yielded, r)' = ResultsOf(yielded, r)
        /\ \A ch : BlocksOf(data, yielded, ch)' = BlocksOf(data, yielded, ch)
    BY <1>2 DEF ResultsOf, BlocksOf
  <1>4. ASSUME NEW ch \in StatChannels
        PROVE  BlocksTally(ch)'
    <2>. DEFINE S == BlocksOf(data, yielded, ch)
    <2>1. IsFiniteSet(S) /\ \A k \in S : data[yielded[k].frame].length \in Int
      <3>1. \A k \in S : k \in DOMAIN yielded
        BY DEF BlocksOf
      <3>. QED  BY <3>1, BlocksInFile DEF Tallies
    <2>2. \A k \in S : yielded'[k] = yielded[k]
      <3>1. S \in SUBSET (DOMAIN yielded)
        BY DEF BlocksOf
      <3>. QED  BY <1>2, <3>1
    <2>3. BytesOf(data, yielded', S) = BytesOf(data, yielded, S)
      <3>1. IsSum(BytesOf(data, yielded, S), S, [k \in S |-> data[yielded[k].frame].length])
        BY <2>1, BytesAreSum
      <3>2. \A k \in S : data[yielded'[k].frame].length \in Int
        BY <2>1, <2>2
      <3>3. IsSum(BytesOf(data, yielded', S), S, [k \in S |-> data[yielded'[k].frame].length])
        BY <2>1, <3>2, BytesAreSum
      <3>. HIDE DEF S
      <3>. DEFINE n == [k \in S |-> data[yielded[k].frame].length]
                  m == [k \in S |-> data[yielded'[k].frame].length]
      <3>4. \A k \in S : n[k] \in Int /\ m[k] = n[k]
        BY <2>1, <2>2
      <3>. HIDE DEF n, m
      <3>. QED  BY <2>1, <3>1, <3>3, <3>4, SumsAgree DEF n, m
    <2>4. BlocksTally(ch)
      BY DEF Tallies
    <2>. QED  BY <1>3, <2>3, <2>4 DEF BlocksTally
  <1>. QED  BY <1>3, <1>4 DEF Tallies, Counters, Tallied

\* A block that is answered for is one more in the statistics of its channel.
LEMMA OneMore ==
    ASSUME Tallies, Cursor', Calls, frame < Len(data), UNCHANGED data,
           NEW result \in Tallied, Yield(result), Tally(result)
    PROVE  Tallies'
  <1>. DEFINE k == frame + 1
  <1>1. Answers /\ frame \in Nat /\ result \in Results
    BY DEF Tallies, Cursor, Answers, Tallied, Results
  <1>2. /\ DOMAIN yielded' = 1..k /\ DOMAIN yielded = 1..frame
        /\ \A i \in 1..frame : yielded'[i] = yielded[i]
        /\ yielded'[k].result = result /\ yielded'[k].frame = k
    BY <1>1, Answered
  <1>3. /\ \A i \in 1..k : i \in 1..frame \/ i = k
        /\ \A i \in 1..frame : i \in 1..k /\ i # k
        /\ k \in 1..k
    BY <1>1
  <1>4. data' = data /\ data[k] = f
    BY DEF f
  <1>. HIDE DEF k
  <1>5. ASSUME NEW r
        PROVE  ResultsOf(yielded', r) = IF r = result THEN ResultsOf(yielded, r) \cup {k}
                                        ELSE ResultsOf(yielded, r)
    BY <1>2, <1>3 DEF ResultsOf
  <1>6. ASSUME NEW r
        PROVE  /\ Cardinality(ResultsOf(yielded', r))
                    = Cardinality(ResultsOf(yielded, r)) + (IF r = result THEN 1 ELSE 0)
    <2>1. IsFiniteSet(ResultsOf(yielded, r)) /\ k \notin ResultsOf(yielded, r)
      <3>1. ResultsOf(yielded, r) \in SUBSET (1..frame)
        BY <1>2 DEF ResultsOf
      <3>2. IsFiniteSet(1..frame)
        BY <1>1, FS_Interval
      <3>. QED  BY <1>3, <3>1, <3>2, FS_Subset
    <2>2. Cardinality(ResultsOf(yielded, r)) \in Nat
      BY <2>1, FS_CardinalityType
    <2>. QED  BY <1>5, <2>1, <2>2, FS_AddElement
  <1>7. ASSUME NEW ch
        PROVE  /\ ch = f.index => BlocksOf(data, yielded', ch) = BlocksOf(data, yielded, ch) \cup {k}
               /\ ch # f.index => BlocksOf(data, yielded', ch) = BlocksOf(data, yielded, ch)
    BY <1>2, <1>3, <1>4 DEF BlocksOf
  <1>8. ASSUME NEW ch \in StatChannels
        PROVE  BlocksTally(ch)'
    <2>. DEFINE S == BlocksOf(data, yielded, ch)
                T == BlocksOf(data, yielded', ch)
                n == [i \in S |-> data[yielded[i].frame].length]
                m == [i \in T |-> data[yielded'[i].frame].length]
    <2>1. /\ IsFiniteSet(S) /\ S \in SUBSET (1..frame)
          /\ \A i \in S : data[yielded[i].frame].length \in Int
      <3>1. S \in SUBSET (DOMAIN yielded)
        BY DEF BlocksOf
      <3>. QED  BY <1>2, <3>1, BlocksInFile DEF Tallies
    <2>2. /\ T = IF ch = f.index THEN S \cup {k} ELSE S
          /\ k \notin S
      BY <1>3, <1>7, <2>1
    <2>3. f.length \in Int
      BY <1>1, FrameType
    <2>4. /\ \A i \in S : n[i] \in Int /\ m[i] = n[i]
          /\ \A i \in T : data[yielded'[i].frame].length \in Int
          /\ k \in T => m[k] = f.length
      <3>1. \A i \in S : yielded'[i] = yielded[i] /\ i \in T
        BY <1>2, <2>1, <2>2
      <3>2. data[yielded'[k].frame].length = f.length
        BY <1>2, <1>4
      <3>. HIDE DEF S, T
      <3>3. \A i \in S : n[i] \in Int /\ m[i] = n[i]
        BY <2>1, <3>1
      <3>4. \A i \in T : i \in S \/ i = k
        BY <2>2
      <3>5. \A i \in T : data[yielded'[i].frame].length \in Int
        BY <2>1, <2>3, <3>1, <3>2, <3>4
      <3>. QED  BY <3>2, <3>3, <3>5
    <2>5. IsFiniteSet(T)
      BY <2>1, <2>2, FS_AddElement
    <2>6. IsSum(BytesOf(data, yielded, S), S, n) /\ IsSum(BytesOf(data, yielded', T), T, m)
      BY <2>1, <2>4, <2>5, BytesAreSum
    <2>7. BlocksTally(ch) /\ Counters
      BY DEF Tallies
    <2>. DEFINE c == stats.per_channel[ch]
                d == stats'.per_channel[ch]
    <2>8. /\ c.blocks_read + c.blocks_skipped = Cardinality(S)
          /\ c.bytes_payload = BytesOf(data, yielded, S)
          /\ Cardinality(S) \in Nat
      BY <2>1, <2>7, FS_CardinalityType DEF BlocksTally
    <2>9. /\ ch = f.index => /\ d.blocks_read + d.blocks_skipped = Cardinality(S) + 1
                             /\ d.bytes_payload = BytesOf(data, yielded, S) + f.length
          /\ ch # f.index => d = c
      BY <2>8 DEF Tally
    <2>. HIDE DEF S, T, n, m, c, d
    <2>10. CASE ch = f.index
      <3>1. Cardinality(T) = Cardinality(S) + 1
        BY <2>1, <2>2, <2>10, FS_AddElement
      <3>2. T = S \cup {k} /\ m[k] = f.length /\ m[k] \in Int
        BY <2>2, <2>3, <2>4, <2>10
      <3>3. IsSum(BytesOf(data, yielded', T), S \cup {k}, m)
        BY <2>6, <3>2
      <3>4. BytesOf(data, yielded', T) = BytesOf(data, yielded, S) + m[k]
        <4>1. IsFiniteSet(S) /\ (\A i \in S : n[i] \in Int) /\ (\A i \in S : m[i] = n[i])
          BY <2>1, <2>4
        <4>2. IsSum(BytesOf(data, yielded, S), S, n) /\ k \notin S /\ m[k] \in Int
          BY <2>2, <2>6, <3>2
        <4>. QED  BY <3>3, <4>1, <4>2, SumOfOneMore
      <3>5. /\ d.blocks_read + d.blocks_skipped = Cardinality(T)
            /\ d.bytes_payload = BytesOf(data, yielded', T)
        BY <2>9, <2>10, <3>1, <3>2, <3>4
      <3>. QED  BY <1>4, <3>5 DEF BlocksTally, T, d
    <2>11. CASE ch # f.index
      <3>1. T = S
        BY <2>2, <2>11
      <3>2. IsSum(BytesOf(data, yielded', T), S, m)
        BY <2>6, <3>1
      <3>3. BytesOf(data, yielded', T) = BytesOf(data, yielded, S)
        BY <2>1, <2>4, <2>6, <3>2, SumsAgree
      <3>4. /\ d.blocks_read + d.blocks_skipped = Cardinality(T)
            /\ d.bytes_payload = BytesOf(data, yielded', T)
        BY <2>8, <2>9, <2>11, <3>1, <3>3
      <3>. QED  BY <1>4, <3>4 DEF BlocksTally, T, d
    <2>. QED  BY <2>10, <2>11
  <1>9. /\ \A r \in SkipReasons : stats'.skipped[r] = Cardinality(ResultsOf(yielded', r))
        /\ stats'.blocks_read = Cardinality(ResultsOf(yielded', "data"))
    BY <1>6 DEF Tallies, Tally
  <1>. QED  BY <1>8, <1>9 DEF Tallies, Tally

\* record_skip() on statistics that hold together.
LEMMA SkipTallies ==
    ASSUME IsStats(stats), Counters, NEW reason \in SkipReasons, NEW size, Skip(reason, size),
           f.index \in StatChannels, f.length \in Nat
    PROVE  Tally(reason)
  <1>. DEFINE s == [stats EXCEPT !.data_section_size = @ + size]
  <1>1. /\ IsStats(s) /\ s.skipped = stats.skipped /\ s.per_channel = stats.per_channel
        /\ s.blocks_read = stats.blocks_read
    BY DEF IsStats, StatFields
  <1>2. stats' = record_skip(s, f.index, f.length, reason)
    BY DEF Skip
  <1>. HIDE DEF s
  <1>. DEFINE i == f.index
              k == [s.skipped EXCEPT ![reason] = s.skipped[reason] + 1]
              v == [s EXCEPT !.skipped = k]
              x == [v.per_channel EXCEPT ![i] =
                      [v.per_channel[i] EXCEPT
                         !.blocks_skipped = s.per_channel[i].blocks_skipped + 1]]
              t == [v EXCEPT !.per_channel = x]
              y == [t.per_channel EXCEPT ![i] =
                      [t.per_channel[i] EXCEPT
                         !.bytes_payload = s.per_channel[i].bytes_payload + f.length]]
  <1>3. record_skip(s, i, f.length, reason) = [t EXCEPT !.per_channel = y]
    BY DEF record_skip
  <1>4. v.per_channel = s.per_channel /\ IsStats(v) /\ v.skipped = k
        /\ v.blocks_read = s.blocks_read
    BY <1>1 DEF IsStats, StatFields
  <1>. DEFINE p == s.per_channel
  <1>5. p \in [StatChannels -> ChannelStats] /\ p[i] \in ChannelStats /\ i \in StatChannels
    BY <1>1 DEF Counters
  <1>6. x = [p EXCEPT ![i] = [p[i] EXCEPT !.blocks_skipped = p[i].blocks_skipped + 1]]
    BY <1>4
  <1>. HIDE DEF v, k, p, i
  <1>7. /\ x \in [StatChannels -> ChannelStats]
        /\ \A ch \in StatChannels : ch # i => x[ch] = p[ch]
        /\ x[i].blocks_skipped = p[i].blocks_skipped + 1
        /\ x[i].blocks_read = p[i].blocks_read
        /\ x[i].bytes_payload = p[i].bytes_payload
    <2>. HIDE DEF x
    <2>. QED  BY <1>5, <1>6 DEF ChannelStats
  <1>. HIDE DEF x
  <1>8. t.per_channel = x /\ t.skipped = k /\ t.blocks_read = s.blocks_read /\ IsStats(t)
    BY <1>4 DEF IsStats, StatFields
  <1>9. y = [x EXCEPT ![i] = [x[i] EXCEPT !.bytes_payload = p[i].bytes_payload + f.length]]
    BY <1>8 DEF p
  <1>10. /\ y \in [StatChannels -> ChannelStats]
         /\ \A ch \in StatChannels : ch # i => y[ch] = p[ch]
         /\ y[i].blocks_skipped = p[i].blocks_skipped + 1
         /\ y[i].blocks_read = p[i].blocks_read
         /\ y[i].bytes_payload = p[i].bytes_payload + f.length
    <2>. HIDE DEF y
    <2>. QED  BY <1>5, <1>7, <1>9 DEF ChannelStats
  <1>. HIDE DEF y, t
  <1>11. stats'.per_channel = y /\ stats'.skipped = k /\ stats'.blocks_read = stats.blocks_read
    BY <1>1, <1>2, <1>3, <1>8 DEF IsStats, StatFields, i
  <1>12. /\ k \in [SkipReasons -> Nat]
         /\ \A r \in SkipReasons : k[r] = stats.skipped[r] + (IF r = reason THEN 1 ELSE 0)
    BY <1>1 DEF Counters, k
  <1>13. Counters'
    BY <1>10, <1>11, <1>12 DEF Counters
  <1>14. ASSUME NEW ch \in StatChannels
         PROVE  LET c == stats.per_channel[ch]
                    d == stats'.per_channel[ch]
                IN  IF ch = i
                    THEN /\ d.blocks_read + d.blocks_skipped
                              = c.blocks_read + c.blocks_skipped + 1
                         /\ d.bytes_payload = c.bytes_payload + f.length
                    ELSE d = c
    <2>1. p = stats.per_channel /\ stats'.per_channel = y
      BY <1>1, <1>11 DEF p
    <2>2. p[i].blocks_read \in Nat /\ p[i].blocks_skipped \in Nat
      BY <1>5 DEF ChannelStats
    <2>. QED  BY <1>10, <2>1, <2>2
  <1>15. reason # "data"
    BY DEF SkipReasons
  <1>16. stats.blocks_read \in Nat
    BY DEF Counters
  <1>. QED  BY <1>11, <1>12, <1>13, <1>14, <1>15, <1>16 DEF Tally, i

\* A decoded block.
LEMMA DecodedTallies ==
    ASSUME IsStats(stats), Counters, DecodedBlock, f.index \in StatChannels, f.length \in Nat
    PROVE  Tally("data")
  <1>. DEFINE size == FrameSize(f)
              i == f.index
              p == stats.per_channel
              s == [stats EXCEPT !.data_section_size = @ + size, !.blocks_read = @ + 1]
              x == [s.per_channel EXCEPT ![i] =
                      [s.per_channel[i] EXCEPT
                         !.blocks_read = stats.per_channel[i].blocks_read + 1]]
              t == [s EXCEPT !.per_channel = x]
              y == [t.per_channel EXCEPT ![i] =
                      [t.per_channel[i] EXCEPT
                         !.bytes_payload = stats.per_channel[i].bytes_payload + f.length]]
  <1>1. stats' = [t EXCEPT !.per_channel = y]
    BY DEF DecodedBlock
  <1>2. /\ IsStats(s) /\ s.skipped = stats.skipped /\ s.per_channel = stats.per_channel
        /\ s.blocks_read = stats.blocks_read + 1
    BY DEF IsStats, StatFields
  <1>3. p \in [StatChannels -> ChannelStats] /\ p[i] \in ChannelStats /\ i \in StatChannels
    BY DEF Counters
  <1>4. x = [p EXCEPT ![i] = [p[i] EXCEPT !.blocks_read = p[i].blocks_read + 1]]
    BY <1>2
  <1>. HIDE DEF s, p, i, size
  <1>5. /\ x \in [StatChannels -> ChannelStats]
        /\ \A ch \in StatChannels : ch # i => x[ch] = p[ch]
        /\ x[i].blocks_skipped = p[i].blocks_skipped
        /\ x[i].blocks_read = p[i].blocks_read + 1
        /\ x[i].bytes_payload = p[i].bytes_payload
    <2>. HIDE DEF x
    <2>. QED  BY <1>3, <1>4 DEF ChannelStats
  <1>. HIDE DEF x
  <1>6. t.per_channel = x /\ t.skipped = s.skipped /\ t.blocks_read = s.blocks_read /\ IsStats(t)
    BY <1>2 DEF IsStats, StatFields
  <1>7. y = [x EXCEPT ![i] = [x[i] EXCEPT !.bytes_payload = p[i].bytes_payload + f.length]]
    BY <1>6 DEF p
  <1>8. /\ y \in [StatChannels -> ChannelStats]
        /\ \A ch \in StatChannels : ch # i => y[ch] = p[ch]
        /\ y[i].blocks_skipped = p[i].blocks_skipped
        /\ y[i].blocks_read = p[i].blocks_read + 1
        /\ y[i].bytes_payload = p[i].bytes_payload + f.length
    <2>. HIDE DEF y
    <2>. QED  BY <1>3, <1>5, <1>7 DEF ChannelStats
  <1>. HIDE DEF y, t
  <1>9. /\ stats'.per_channel = y /\ stats'.skipped = stats.skipped
        /\ stats'.blocks_read = stats.blocks_read + 1
    BY <1>1, <1>2, <1>6 DEF IsStats, StatFields
  <1>10. Counters'
    BY <1>8, <1>9 DEF Counters
  <1>11. ASSUME NEW ch \in StatChannels
         PROVE  LET c == stats.per_channel[ch]
                    d == stats'.per_channel[ch]
                IN  IF ch = i
                    THEN /\ d.blocks_read + d.blocks_skipped
                              = c.blocks_read + c.blocks_skipped + 1
                         /\ d.bytes_payload = c.bytes_payload + f.length
                    ELSE d = c
    <2>1. p = stats.per_channel /\ stats'.per_channel = y
      BY <1>9 DEF p
    <2>2. p[i].blocks_read \in Nat /\ p[i].blocks_skipped \in Nat
      BY <1>3 DEF ChannelStats
    <2>. QED  BY <1>8, <2>1, <2>2
  <1>12. \A r \in SkipReasons : r # "data" /\ stats.skipped[r] \in Nat
    BY DEF SkipReasons, Counters
  <1>. QED  BY <1>9, <1>10, <1>11, <1>12 DEF Tally, i

LEMMA TallySkip ==
    ASSUME Tallies, Cursor', Calls, frame < Len(data), f.index \in StatChannels,
           NEW reason \in SkipReasons, NEW size, Skip(reason, size)
    PROVE  Tallies'
  <1>1. f.length \in Nat
    BY FrameType DEF Tallies, Cursor
  <1>2. Tally(reason)
    BY <1>1, SkipTallies DEF Tallies, Cursor
  <1>3. UNCHANGED data /\ Yield(reason) /\ reason \in Tallied
    BY DEF Skip, file, Tallied
  <1>. QED  BY <1>2, <1>3, OneMore

LEMMA TallyFailed ==
    ASSUME Tallies, Cursor', Calls, NEW counted, Failed(counted)
    PROVE  Tallies'
  <1>1. /\ stats'.blocks_read = stats.blocks_read /\ stats'.skipped = stats.skipped
        /\ stats'.per_channel = stats.per_channel
    BY DEF Failed, Tallies, Cursor, IsStats, StatFields
  <1>2. UNCHANGED data /\ Yield("Io") /\ "Io" \in Results \ Tallied
    BY DEF Failed, file, Results, Tallied, SkipReasons
  <1>. QED  BY <1>1, <1>2, NoTally

LEMMA TallyTruncated ==
    ASSUME Tallies, Cursor', Calls, NEW counted, Truncated(counted)
    PROVE  Tallies'
  <1>1. /\ stats'.blocks_read = stats.blocks_read /\ stats'.skipped = stats.skipped
        /\ stats'.per_channel = stats.per_channel
    BY DEF Truncated, Tallies, Cursor, IsStats, StatFields
  <1>2. UNCHANGED data /\ UNCHANGED yielded
    BY DEF Truncated, file
  <1>. QED  BY <1>1, <1>2, NoTally

LEMMA NextTallies ==
    ASSUME Tallies, [next]_vars
    PROVE  Tallies'
  <1>. Cursor /\ Cursor' /\ IsStats(stats)
    BY NextMoves DEF Tallies, Cursor
  <1>1. ASSUME Declared
        PROVE  Calls /\ frame < Len(data) /\ f.index \in StatChannels
    BY <1>1 DEF Declared, At, StatChannels
  <1>2. CASE EndOfStream
    BY <1>2, NoTally DEF EndOfStream, file
  <1>3. CASE IndexFails
    BY <1>3, TallyFailed DEF IndexFails
  <1>4. CASE Trailer
    <2>1. CASE Failed(6)
      BY <1>4, <2>1, TallyFailed DEF Trailer, At
    <2>2. CASE ~Failed(6)
      <3>1. /\ stats'.blocks_read = stats.blocks_read /\ stats'.skipped = stats.skipped
            /\ stats'.per_channel = stats.per_channel
        BY <1>4, <2>2 DEF Trailer, IsStats, StatFields
      <3>2. Calls /\ UNCHANGED data /\ UNCHANGED yielded
        BY <1>4, <2>2 DEF Trailer, At, file
      <3>. QED  BY <3>1, <3>2, NoTally
    <2>. QED  BY <2>1, <2>2
  <1>5. CASE SignatureBlock
    <2>1. Calls /\ frame < Len(data) /\ f.index \in StatChannels
      BY <1>5 DEF SignatureBlock, IsSignature, At, StatChannels
    <2>2. "SignatureBlock" \in SkipReasons
      BY DEF SkipReasons
    <2>. QED  BY <1>5, <2>1, <2>2, TallySkip, TallyTruncated, TallyFailed DEF SignatureBlock
  <1>6. CASE UnknownChannel
    <2>1. /\ stats'.blocks_read = stats.blocks_read /\ stats'.skipped = stats.skipped
          /\ stats'.per_channel = stats.per_channel
      BY <1>6 DEF UnknownChannel, IsStats, StatFields
    <2>2. /\ Calls /\ UNCHANGED data /\ Yield("UnknownChannelIndex")
          /\ "UnknownChannelIndex" \in Results \ Tallied
      BY <1>6 DEF UnknownChannel, At, file, Results, Tallied, SkipReasons
    <2>. QED  BY <2>1, <2>2, NoTally
  <1>7. CASE LengthField
    BY <1>1, <1>7, TallyTruncated, TallyFailed DEF LengthField
  <1>8. CASE ZeroLengthBlock
    <2>1. "ZeroLengthBlock" \in SkipReasons
      BY DEF SkipReasons
    <2>. QED  BY <1>1, <1>8, <2>1, TallySkip DEF ZeroLengthBlock
  <1>9. CASE UnsupportedBlock
    <2>1. Declared
      BY <1>9 DEF UnsupportedBlock
    <2>2. CASE Skip("UnsupportedDataType", FrameSize(f))
      <3>1. "UnsupportedDataType" \in SkipReasons
        BY DEF SkipReasons
      <3>. QED  BY <1>1, <2>1, <2>2, <3>1, TallySkip
    <2>3. CASE /\ stats' = [stats EXCEPT !.data_section_size = @ + Fields,
                                         !.blocks_truncated = 1]
               /\ Yield("UnexpectedEof") /\ UNCHANGED data
      <3>1. /\ stats'.blocks_read = stats.blocks_read /\ stats'.skipped = stats.skipped
            /\ stats'.per_channel = stats.per_channel
        BY <2>3 DEF IsStats, StatFields
      <3>2. "UnexpectedEof" \in Results \ Tallied
        BY DEF Results, Tallied, SkipReasons
      <3>. QED  BY <1>1, <2>1, <2>3, <3>1, <3>2, NoTally
    <2>4. CASE /\ stats' = [stats EXCEPT !.data_section_size = @ + Fields]
               /\ Yield("Io") /\ UNCHANGED data
      <3>1. /\ stats'.blocks_read = stats.blocks_read /\ stats'.skipped = stats.skipped
            /\ stats'.per_channel = stats.per_channel
        BY <2>4 DEF IsStats, StatFields
      <3>2. "Io" \in Results \ Tallied
        BY DEF Results, Tallied, SkipReasons
      <3>. QED  BY <1>1, <2>1, <2>4, <3>1, <3>2, NoTally
    <2>. QED  BY <1>9, <2>2, <2>3, <2>4 DEF UnsupportedBlock, file
  <1>10. CASE Payload
    BY <1>1, <1>10, TallyTruncated, TallyFailed DEF Payload
  <1>11. CASE CrcFailed
    <2>1. "CrcFailed" \in SkipReasons
      BY DEF SkipReasons
    <2>. QED  BY <1>1, <1>11, <2>1, TallySkip DEF CrcFailed, Read
  <1>12. CASE SkippedByControl
    <2>1. Decision \in SkipReasons
      BY <1>12 DEF SkippedByControl, Decision, SkipReasons
    <2>. QED  BY <1>1, <1>12, <2>1, TallySkip DEF SkippedByControl, Read
  <1>13. CASE DecodedBlock
    <2>1. Declared /\ Yield("data") /\ UNCHANGED data
      BY <1>13 DEF DecodedBlock, Read, file
    <2>2. f.length \in Nat
      BY <1>1, <2>1, FrameType DEF Cursor
    <2>3. Tally("data")
      BY <1>1, <1>13, <2>1, <2>2, DecodedTallies DEF Tallies
    <2>. QED  BY <1>1, <2>1, <2>3, OneMore DEF Tallied
  <1>14. CASE ParseError
    <2>1. /\ Declared /\ Yield("InvalidBlock") /\ UNCHANGED data
          /\ stats' = [stats EXCEPT !.data_section_size = @ + FrameSize(f)]
      BY <1>14 DEF ParseError, Read, file
    <2>2. /\ stats'.blocks_read = stats.blocks_read /\ stats'.skipped = stats.skipped
          /\ stats'.per_channel = stats.per_channel
      BY <2>1 DEF IsStats, StatFields
    <2>3. "InvalidBlock" \in Results \ Tallied
      BY DEF Results, Tallied, SkipReasons
    <2>. QED  BY <1>1, <2>1, <2>2, <2>3, NoTally
  <1>15. CASE UNCHANGED vars
    <2>1. UNCHANGED <<data, yielded, stats>>
      BY <1>15 DEF vars, file
    <2>. QED  BY <2>1 DEF Tallies, Counters, BlocksTally
  <1>. QED  BY <1>2, <1>3, <1>4, <1>5, <1>6, <1>7, <1>8, <1>9, <1>10, <1>11, <1>12, <1>13,
               <1>14, <1>15 DEF next

LEMMA StartTallies == Init /\ Cursor => Tallies
  <1>. SUFFICES ASSUME Init, Cursor
                PROVE  Tallies
    OBVIOUS
  <1>1. yielded = <<>> /\ stats = NoStats
    BY DEF Init, Started
  <1>2. /\ \A r : ResultsOf(yielded, r) = {}
        /\ \A ch : BlocksOf(data, yielded, ch) = {}
    BY <1>1 DEF ResultsOf, BlocksOf
  <1>3. Cardinality({}) = 0 /\ IsFiniteSet({})
    BY FS_EmptySet
  <1>4. BytesOf(data, yielded, {}) = 0
    <2>1. IsSum(BytesOf(data, yielded, {}), {}, [k \in {} |-> data[yielded[k].frame].length])
      BY <1>3, BytesAreSum
    <2>. QED  BY <2>1, SumOfNothing
  <1>5. /\ stats.blocks_read = 0 /\ stats.skipped = [r \in SkipReasons |-> 0]
        /\ stats.per_channel = [ch \in StatChannels |->
              [blocks_read |-> 0, blocks_skipped |-> 0, bytes_payload |-> 0]]
    BY <1>1 DEF NoStats, StatChannels
  <1>6. Counters
    BY <1>5 DEF Counters, ChannelStats
  <1>. QED  BY <1>2, <1>3, <1>4, <1>5, <1>6 DEF Tallies, BlocksTally

LEMMA TalliesAlways == Spec => []Tallies
  <1>1. Init /\ Cursor => Tallies
    BY StartTallies
  <1>2. Tallies /\ [next]_vars => Tallies'
    BY NextTallies
  <1>. QED  BY <1>1, <1>2, CursorAlways, PTL DEF Spec

\* For every data section, cut off anywhere: the statistics of a channel are those
\* of the blocks that next() has returned for it, and the totals by reason and
\* result agree with what was returned.
THEOREM StatisticsAgree == Spec => []Accounting
  <1>1. Tallies => Accounting
    <2>. SUFFICES ASSUME Tallies
                  PROVE  Accounting
      OBVIOUS
    <2>1. DOMAIN stats.per_channel = StatChannels
      BY DEF Tallies, Counters
    <2>2. \A ch \in StatChannels :
             LET Blocks == {k \in DOMAIN yielded :
                               /\ yielded[k].result \in SkipReasons \cup {"data"}
                               /\ data[yielded[k].frame].index = ch}
                 c == stats.per_channel[ch]
             IN  /\ c.blocks_read + c.blocks_skipped = Cardinality(Blocks)
                 /\ c.bytes_payload
                      = FoldSet(LAMBDA k, t : t + data[yielded[k].frame].length, 0, Blocks)
      BY DEF Tallies, BlocksTally, BlocksOf, BytesOf, Tallied
    <2>3. /\ \A r \in SkipReasons : stats.skipped[r]
                = Cardinality({k \in DOMAIN yielded : yielded[k].result = r})
          /\ stats.blocks_read
                = Cardinality({k \in DOMAIN yielded : yielded[k].result = "data"})
      BY DEF Tallies, ResultsOf
    <2>. QED  BY <2>1, <2>2, <2>3, Zenon DEF Accounting
  <1>. QED  BY <1>1, TalliesAlways, PTL
=============================================================================
