------------------------------ MODULE Recording ------------------------------
(***************************************************************************)
(* A recording from end to end: the C++ StreamingWriter writes a file, is  *)
(* closed, breaks or loses power; one block of what is left may rot on the *)
(* disk, in any of its bytes; the Rust DataManager loads it.               *)
(*                                                                         *)
(* The application declares the channels of the metablock before it starts *)
(* the writer.  `told' is a history variable: for every sample that was    *)
(* handed over, its channel and the time the application gave it.          *)
(***************************************************************************)
EXTENDS StreamingWriter

CONSTANTS
    Metablock,       \* the channel definitions, in order
    SignatureIndex,  \* see BlockReader
    MaxTime, NoTime, \* see ChannelAssembly
    Rot,             \* whether a block may rot
    Headers,         \* what a damaged or misplaced frame header holds: index and length
    MaxMisread       \* bound: frames a reader out of step takes before the last of them

VARIABLES
    data, present, declared, pos, frame, finished, adrift, stats, yielded,
    builders, outcome, loaded, by_name, by_index, fed, blocks,
    told,        \* what the application meant
    opened,      \* the load has begun
    rotten,      \* the first block that the damage hides from the reader
    resumed,     \* the first block behind it that is read in step again
    misread      \* the whole frames that are read between them

loader == <<data, present, declared, pos, frame, finished, adrift, stats, yielded,
            builders, outcome, loaded, by_name, by_index, fed, blocks>>
damage == <<rotten, resumed, misread>>
all    == <<vars, loader, told, opened, damage>>

\* The name of a datatype in the C++ writer's module.
WriterType(dt) == IF dt = "gpslocation" THEN "gps" ELSE dt

WriterDef(i) == [dataType          |-> WriterType(Metablock[i].data_type),
                 channelType       |-> "scalar",
                 sizeOfLengthValue |-> Metablock[i].size_of_length_value]

L == INSTANCE Loader WITH
        integrity <- declared, channels <- loaded, Contents <- {}, MaxFrames <- 0,
        MagicTrailerLen <- 0, IoErrors <- FALSE

\* The writer numbers the channels in the order they are added, and every timestamp is
\* an i64.  A writer with more than 65534 channels would give one of them the index of
\* the signature blocks or of the trailer; such recordings are left out.
ASSUME RecordingAssumption ==
    /\ Metablock \in Seq([index : Nat, name : STRING, size_of_length_value : Widths,
                          data_type : L!A!DataTypes \ {"unsupported"}])
    /\ \A i \in DOMAIN Metablock : Metablock[i].index = i - 1
    /\ SignatureIndex \in Nat /\ SignatureIndex # TrailerIndex
    /\ Len(Metablock) <= SignatureIndex /\ Len(Metablock) <= TrailerIndex
    /\ MaxTime \in Nat /\ NoTime \notin Int
    /\ \A t \in Stamps : t <= MaxTime
    /\ Rot \in BOOLEAN /\ MaxMisread \in Nat
    /\ Headers \subseteq Nat \X Nat

---------------------------------------------------------------------------
AllInit ==
    /\ Init
    /\ data = <<>> /\ blocks = <<>> /\ present = 0 /\ declared = "none"
    /\ L!R!Started /\ L!A!Init
    /\ told = <<>>
    /\ opened = FALSE
    /\ rotten = 1 /\ resumed = 1 /\ misread = 0

\* The application asks for a profile first, declares the channels of the
\* metablock in order, and starts the writer with all of them.
Disciplined ==
    /\ integrity' # integrity => channels = <<>> /\ state = "Configure"
    /\ Len(channels') <= Len(Metablock)
    /\ Len(channels') > Len(channels) =>
          /\ channels'[Len(channels')].dataType = WriterDef(Len(channels')).dataType
          /\ channels'[Len(channels')].sizeOfLengthValue
               = WriterDef(Len(channels')).sizeOfLengthValue
    /\ header' # "none" => Len(channels') = Len(Metablock)

\* The last sample that was handed over for a channel.
LastOf(ch) ==
    CHOOSE v \in DOMAIN told : /\ told[v].index = ch
                               /\ \A u \in DOMAIN told : told[u].index = ch => u <= v

\* The time the application means by the i-th sample of the call that begins:
\* the time of a stamp, or the place on the grid of the segment.
Meant(i) ==
    LET c    == call'
        last == told[LastOf(c.index)]
        Sample(time, period) == [index |-> c.index, time |-> time, period |-> period]
    IN  CASE c.kind = "StartData"     -> Sample(c.start + (i - 1) * c.period, c.period)
          [] c.kind = "ContinuedData" -> Sample(last.time + i * last.period, last.period)
          [] OTHER                    -> Sample(c.times[i], 0)

Record ==
    /\ ~opened
    /\ Next
    /\ Disciplined
    /\ told' = told \o [i \in 1..(offered' - offered) |-> Meant(i)]
    /\ UNCHANGED <<loader, opened, damage>>

---------------------------------------------------------------------------
(* The file as the reader finds it. *)

DataType(ch) == Metablock[ch + 1].data_type

\* The control byte has no count in front of a single sample.
Frame(i) ==
    LET b == file[i]
    IN  [index |-> b.index, length |-> b.length, control |-> b.kind,
         multi |-> Len(b.values) > 1, crc |-> TRUE,
         sound |-> b.length = CrcSize + PayloadLength(b.kind,
                      WriterType(DataType(b.index)), Len(b.values), b.size)]

Decoded(i) ==
    LET b == file[i]
    IN  [channel_index |-> b.index,
         kind          |-> IF b.kind = "AbsTimeStampData" THEN "AbsTimestampData" ELSE b.kind,
         data_type     |-> DataType(b.index),
         start |-> b.start, period |-> b.period, times |-> b.times, values |-> b.values]

Frames == [i \in DOMAIN file |-> Frame(i)]

\* The torn tail is the beginning of a block of some channel; a reader that sees
\* no more than that has no use for the rest.
TornFrame(ch) == [index |-> ch, length |-> 2, control |-> "StartData",
                  multi |-> FALSE, crc |-> TRUE, sound |-> TRUE]

Tails == IF torn THEN {<<TornFrame(ch)>> : ch \in L!A!Indices} ELSE {<<>>}

\* How many bytes of it are there.
Cuts(tail) == IF tail = <<>> THEN {0} ELSE 1..(L!R!FrameSize(tail[1]) - 1)

\* What the reader takes for a frame where none was written.  Its CRC32C is taken
\* to be wrong, which fails for one damage in 2^32.
Misread(ch, length) == [index |-> ch, length |-> length, control |-> "StartData",
                        multi |-> FALSE, crc |-> FALSE, sound |-> TRUE]

\* What would be decoded from it is the value 0, which nobody has written.
Garbage(ch) == [channel_index |-> ch, kind |-> "AbsTimestampData",
                data_type |-> IF ch \in L!A!Indices THEN DataType(ch) ELSE "unsupported",
                start |-> 0, period |-> 0, times |-> <<0>>, values |-> <<0>>]

\* Whole frames of declared channels that a reader out of step comes upon.
Debris ==
    UNION {[1..k -> {Misread(h[1], h[2]) : h \in {g \in Headers : g[1] \in L!A!Indices}}] :
              k \in 0..MaxMisread}

\* The frames the reader finds if it reads the frames d in place of the blocks from r
\* to u - 1, and what they decode to.
Whole(r, u, d) == SubSeq(Frames, 1, r - 1) \o d \o SubSeq(Frames, u, Len(file))

Lies(r, u, d, tail, size) ==
    /\ rotten' = r /\ resumed' = u /\ misread' = Len(d)
    /\ data' = Whole(r, u, d) \o tail
    /\ blocks' = [k \in DOMAIN data' |->
                    IF k < r THEN Decoded(k)
                    ELSE IF r + Len(d) <= k /\ k <= Len(Whole(r, u, d))
                         THEN Decoded(k - r - Len(d) + u) ELSE Garbage(data'[k].index)]
    /\ present' = size

Undamaged ==
    \E tail \in Tails : \E cut \in Cuts(tail) :
        Lies(1, 1, <<>>, tail, L!R!SizeOf(Frames) + cut)

\* Block r is damaged, and the reader is in step again at block u: what it reads in
\* between takes the bytes of the blocks that this hides, of the damaged one alone
\* if its index and length are intact or agree with it by chance.
BackInStep ==
    \E tail \in Tails, r \in DOMAIN file, d \in Debris, ch \in L!A!Indices :
    \E u \in (r + 1)..(Len(file) + 1), cut \in Cuts(tail) :
        LET length == L!R!SizeOf(SubSeq(Frames, r, u - 1)) - L!R!SizeOf(d)
                         - L!R!FrameSize(Misread(ch, 0))
            read   == Append(d, Misread(ch, length))
        IN  /\ length >= 0
            /\ Lies(r, u, read, tail, L!R!SizeOf(Whole(r, u, read)) + cut)

\* Or it does not come into step again: the last frame it begins is of no channel,
\* or reaches beyond the end of the stream.
OutOfStep ==
    \E r \in DOMAIN file, d \in Debris, h \in Headers :
    \E cut \in UNION {Cuts(tail) : tail \in Tails} :
        LET passed == L!R!SizeOf(Whole(r, Len(file) + 1, d))
            size   == L!R!SizeOf(Frames) + cut
            last   == Misread(h[1], h[2])
        IN  /\ passed < size
            /\ h[1] \notin L!A!Indices \/ size < passed + L!R!FrameSize(last)
            /\ Lies(r, Len(file) + 1, d, <<last>>, size)

\* Only the frame CRC tells that a block is rotten.
Open ==
    /\ ~opened
    /\ state \in {"Closed", "Broken", "Crashed"}
    /\ header \in {"complete", "durable"}
    /\ opened' = TRUE
    /\ declared' = IF frameCrc THEN "crc32c" ELSE "none"
    /\ \/ Undamaged
       \/ Rot /\ frameCrc /\ (BackInStep \/ OutOfStep)
    /\ UNCHANGED <<vars, pos, frame, finished, adrift, stats, yielded,
                   builders, outcome, loaded, by_name, by_index, fed, told>>

Load ==
    /\ opened
    /\ L!Next
    /\ UNCHANGED <<vars, told, opened, damage>>

AllNext == Record \/ Open \/ Load

RecordingSpec == AllInit /\ [][AllNext]_all
---------------------------------------------------------------------------
(* What the two programs together promise. *)

Ended == outcome # "loading"

\* The blocks that the damage hides.
Lost == rotten..(resumed - 1)

\* What a loaded channel presents.
Loaded(ch) == L!A!samples_with_time(ch)

\* The time of sample v, where it stands in an i64 or at its limit.
Time(v) == L!A!saturating_add(told[v].time, 0)

\* The samples of the file's block i.
ValuesOf(i) == {file[i].values[k] : k \in DOMAIN file[i].values}

\* DECISIONS section 7, "power loss must not corrupt previously written samples":
\* wherever the power failed or a call broke, the file loads, and every sample
\* whose call returned success is there, in its channel and at its time.
AckedIsLoaded ==
    Ended /\ Lost = {} =>
        /\ outcome = "loaded"
        /\ \A v \in acked :
              \E k \in DOMAIN Loaded(told[v].index) :
                  Loaded(told[v].index)[k] = <<Time(v), v>>

\* Every channel presents samples that were handed over for it, at their times,
\* each once and in order; of those, none is missing before the last.
LoadedIsTold ==
    outcome = "loaded" /\ Lost = {} =>
        \A ch \in L!A!Indices :
            LET s == Loaded(ch)
                Value(k) == s[k][2]
            IN  /\ \A k \in DOMAIN s :
                      /\ Value(k) \in DOMAIN told /\ told[Value(k)].index = ch
                      /\ s[k] = <<Time(Value(k)), Value(k)>>
                      /\ \A j \in DOMAIN s : j < k => Value(j) < Value(k)
                      /\ \A v \in DOMAIN told : told[v].index = ch /\ v < Value(k) =>
                            \E j \in DOMAIN s : Value(j) = v

\* A block that continues samples of which some are lost: the loader has counted too
\* few, or counts on from an older segment.
Displaced(i) ==
    /\ file[i].kind = "ContinuedData"
    /\ \E l \in Lost :
          /\ l < i /\ file[l].index = file[i].index
          /\ \A j \in (l + 1)..(i - 1) :
                ~(file[j].index = file[i].index /\ file[j].kind = "StartData")

\* A file that loads has lost the blocks that the damage hides and no others: each
\* channel presents the samples of its other blocks, in order and nothing else, and
\* their times are right, except behind a lost block of the same segment.
OnlyHiddenIsLost ==
    outcome = "loaded" =>
        \A ch \in L!A!Indices :
            LET s    == Loaded(ch)
                kept == {i \in DOMAIN file : i \notin Lost /\ file[i].index = ch}
            IN  /\ {s[k][2] : k \in DOMAIN s} = UNION {ValuesOf(i) : i \in kept}
                /\ \A j, k \in DOMAIN s : j < k => s[j][2] < s[k][2]
                /\ \A i \in kept, k \in DOMAIN s :
                      ~Displaced(i) /\ s[k][2] \in ValuesOf(i) => s[k][1] = Time(s[k][2])

\* Only damage makes a load fail: a reader out of step, or a damaged index, comes upon
\* the index of no channel, or every beginning of a segment is lost and samples that
\* continue it are not.
OnlyDamageFails ==
    Ended /\ outcome # "loaded" =>
        \/ /\ outcome = "UnknownChannelIndex" /\ Lost # {}
           /\ \E k \in DOMAIN data : data[k].index \notin L!A!Indices
        \/ /\ outcome = "ContinuedDataWithoutStart"
           /\ \E i \in DOMAIN file \ Lost :
                 /\ file[i].kind = "ContinuedData"
                 /\ \E l \in Lost : l < i /\ file[l].index = file[i].index
                 /\ \A j \in 1..(i - 1) :
                       file[j].index = file[i].index /\ file[j].kind = "StartData" => j \in Lost

=============================================================================
