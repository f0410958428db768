------------------------------ MODULE RoundTrip ------------------------------
(***************************************************************************)
(* The Rust writer and the Rust loader together.  A file is made in one of *)
(* two ways: an application calls a WriterBuilder, or a recording is loaded *)
(* and copied, DataManager::load_from_file, WriterBuilder::from_manager.   *)
(* What is then at the path, after a write that succeeded or failed, is    *)
(* loaded.                                                                 *)
(*                                                                         *)
(* The source manager has the prefix s_, the manager of the new file the   *)
(* prefix t_.  The loaders are those of ChannelAssembly.                   *)
(***************************************************************************)
EXTENDS WriterBuilder

CONSTANTS
    Source,          \* the channel definitions of the recording that is copied
    SourceBlocks,    \* the blocks it may hold
    MaxBlocks,       \* bound: blocks in it
    SizeOf(_),       \* bytes of a string or binary sample of it
    MaxTime, NoTime  \* see ChannelAssembly

VARIABLES
    made,            \* "calls" or "copy"
    copied,          \* what from_manager returned: "no" before, "done" or the error
    s_builders, s_outcome, s_channels, s_by_name, s_by_index, s_fed,
    t_builders, t_outcome, t_channels, t_by_name, t_by_index, t_fed

source == <<s_builders, s_outcome, s_channels, s_by_name, s_by_index, s_fed>>
target == <<t_builders, t_outcome, t_channels, t_by_name, t_by_index, t_fed>>
all    == <<vars, made, copied, source, target>>

Loadable(c, index) == [index |-> index, name |-> c.name, data_type |-> c.data_type]

\* The channels of the recording.
Recorded == [i \in DOMAIN Source |-> Loadable(Source[i], Source[i].index)]

S == INSTANCE ChannelAssembly WITH
        Channels <- Recorded,
        Blocks <- SourceBlocks,
        builders <- s_builders, outcome <- s_outcome, channels <- s_channels,
        by_name <- s_by_name, by_index <- s_by_index, fed <- s_fed

\* The recording has a metablock that the reader accepts, and the blocks that the
\* reader decodes have a supported datatype; a sample that is copied has room behind
\* the wide length field.
ASSUME SourceAssumption ==
    /\ Source \in Seq([index : 0..MaxIndex, name : STRING, data_type : S!DataTypes,
                       channel_type : {"scalar", "unsupported"}, size_of_length_value : Widths])
    /\ SourceBlocks \subseteq S!BlockType
    /\ \A b \in SourceBlocks :
          /\ b.data_type # "unsupported"
          /\ b.kind \in {"AbsTimestampData", "ContinuedRelStampData"} =>
                Len(b.times) = Len(b.values)
          /\ \A i \in DOMAIN b.values : /\ SizeOf(b.values[i]) \in Nat
                                         /\ SizeOf(b.values[i]) + 13 <= MaxPayload[4]
    /\ MaxBlocks \in Nat /\ MaxTime \in Nat /\ NoTime \notin Int

\* What the manager of the recording keeps: the supported datatypes.
Kept == SelectSeq(Source, LAMBDA c : c.data_type # "unsupported")

\* The channels of the files that are loaded, and those of a copy.
Target == [i \in DOMAIN Kept |-> Loadable(Kept[i], i - 1)]

T == INSTANCE ChannelAssembly WITH
        Channels <- Target,
        Blocks <- {},
        builders <- t_builders, outcome <- t_outcome, channels <- t_channels,
        by_name <- t_by_name, by_index <- t_by_index, fed <- t_fed

\* The stamps that an application passes are i64.
ASSUME TimeAssumption ==
    (\A t \in Starts : t <= MaxTime) /\ (\A t \in Times : t + MaxCall <= MaxTime)

---------------------------------------------------------------------------
AllInit ==
    /\ Init
    /\ S!Init /\ T!Init
    /\ made \in {"calls", "copy"}
    /\ copied = "no"

Call ==
    /\ made = "calls"
    /\ Building
    /\ UNCHANGED <<made, copied, source, target>>

LoadSource ==
    /\ made = "copy"
    /\ \/ \E b \in SourceBlocks : Len(s_fed) < MaxBlocks /\ S!apply_block(b)
       \/ S!Finish
    /\ UNCHANGED <<vars, made, copied, target>>

---------------------------------------------------------------------------
(* from_manager. *)

\* channel_def_from_manager_channel.
CopiedDef(ch) ==
    LET c == Source[CHOOSE i \in DOMAIN Source :
                       /\ Source[i].index = ch
                       /\ \A j \in DOMAIN Source : Source[j].index = ch => j <= i]
    IN  [name |-> c.name, data_type |-> c.data_type, channel_type |-> c.channel_type,
         size_of_length_value |-> c.size_of_length_value]

\* mutant: every segment is copied from the front of the samples
copy_equidistant_segment_FromFront(acc, to, seg, c) ==
    LET refusal == SegmentRefusal(acc.builder, to, c.data_type, seg.period)
    IN  IF acc.error # "none" THEN acc
        ELSE IF refusal # "none" THEN [acc EXCEPT !.error = refusal]
        ELSE [acc EXCEPT !.builder = AddSegment(@, to, seg.start, seg.period,
                 SubSeq(c.samples, 1, seg.sample_count))]

copy_equidistant_segment(acc, to, seg, c) ==
    LET refusal == SegmentRefusal(acc.builder, to, c.data_type, seg.period)
    IN  IF acc.error # "none" THEN acc
        ELSE IF refusal # "none" THEN [acc EXCEPT !.error = refusal]
        ELSE [acc EXCEPT !.builder = AddSegment(@, to, seg.start, seg.period,
                 SubSeq(c.samples, seg.start_index + 1, seg.start_index + seg.sample_count))]

copy_channel_data(acc, to, c) ==
    CASE c.state = "Equidistant" ->
            FoldLeft(LAMBDA a, seg : copy_equidistant_segment(a, to, seg, c), acc, c.segments)
      [] c.state = "Timestamped" ->
            [acc EXCEPT !.builder = AddTimestamped(@, to, c.timestamps_ns, c.samples)]
      [] c.state = "Variable" ->
            [acc EXCEPT !.builder = AddVariable(@, to, c.timestamps_ns, c.samples,
                                                [i \in DOMAIN c.samples |-> SizeOf(c.samples[i])])]
      [] OTHER -> acc

CopyChannel(acc, ch) ==
    IF acc.error # "none" THEN acc
    ELSE IF ~Declarable(acc.builder, CopiedDef(ch)) THEN [acc EXCEPT !.error = "InvalidMetablock"]
    ELSE copy_channel_data([acc EXCEPT !.builder = AddChannel(@, CopiedDef(ch))],
                           Len(acc.builder.channels), s_builders[ch])

from_manager ==
    /\ made = "copy" /\ s_outcome = "loaded" /\ copied = "no"
    /\ LET copy == FoldLeft(CopyChannel, [builder |-> NewBuilder, error |-> "none"], s_channels)
       IN  IF copy.error = "none"
           THEN builder' = copy.builder /\ copied' = "done"
           ELSE builder' = builder /\ copied' = copy.error
    /\ UNCHANGED <<phase, result, output, told, made, source, target>>

Write ==
    /\ made = "calls" \/ copied = "done"
    /\ Writing
    /\ UNCHANGED <<made, copied, source, target>>
---------------------------------------------------------------------------
(* Loading what is at the path. *)

Decoded(b) ==
    [channel_index |-> b.channel_index, kind |-> b.kind,
     data_type |-> header[b.channel_index + 1].data_type,
     start |-> b.start, period |-> b.period, times |-> b.times, values |-> b.values]

\* The reader stops in front of a torn block and returns those before it.
Load ==
    /\ phase \in {"written", "failed"}
    /\ header # NoHeader
    /\ [i \in DOMAIN header |-> Loadable(header[i], i - 1)] = Target
    /\ t_outcome = "loading"
    /\ LET n == Len(t_fed)
       IN  IF n < Len(file)
           THEN T!apply_block(Decoded(file[n + 1])) \/ T!RejectBlock(Decoded(file[n + 1]))
           ELSE T!Finish
    /\ UNCHANGED <<vars, made, copied, source>>

Step == Call \/ LoadSource \/ from_manager \/ Write \/ Load

RoundTripSpec == AllInit /\ [][Step]_all

\* The writer and the loader run to their ends unless a write fails; calls of an
\* application, and failing writes, are owed to nobody.
FairRoundTrip == RoundTripSpec /\ WF_all((Write \/ Load) /\ phase # "building" /\ result' # "Io")

---------------------------------------------------------------------------
(* What the two together promise. *)

Presented(ch) == T!samples_with_time(ch)

\* The time of sample v, where it stands in an i64 or at its limit.
Time(v) == T!saturating_add(told[v].time, 0)

\* Samples that were added to channel ch, at their times, each once and in order.
Ordered(s, ch) ==
    \A k \in DOMAIN s :
        LET v == s[k][2]
        IN  /\ v \in DOMAIN told /\ told[v].channel_index = ch
            /\ s[k] = <<Time(v), v>>
            /\ \A j \in DOMAIN s : j < k => s[j][2] < v

\* Sample v is one of them.
Has(s, v) == \E k \in DOMAIN s : s[k][2] = v

Complete(s, ch) == \A v \in DOMAIN told : told[v].channel_index = ch => Has(s, v)

\* Every sample that was added through the builder is loaded from the file, in its
\* channel, in order and at its time, and nothing else is.
AddedIsLoaded ==
    made = "calls" /\ phase = "written" /\ t_outcome # "loading" =>
        /\ t_outcome = "loaded"
        /\ \A ch \in DOMAIN t_builders :
              Ordered(Presented(ch), ch) /\ Complete(Presented(ch), ch)

\* What a failed write leaves at the path loads as well, if its metablock is whole:
\* each channel has the first of its samples, and a channel has one only if the
\* channels before it have all of theirs.
LeftoverLoads ==
    made = "calls" /\ phase = "failed" /\ t_outcome # "loading" =>
        /\ t_outcome = "loaded"
        /\ \A ch \in DOMAIN t_builders :
              /\ Ordered(Presented(ch), ch)
              /\ \A k \in DOMAIN Presented(ch), v \in DOMAIN told :
                    told[v].channel_index = ch /\ v < Presented(ch)[k][2] =>
                        Has(Presented(ch), v)
              /\ Presented(ch) # <<>> =>
                    \A before \in 0..(ch - 1) : Complete(Presented(before), before)

\* A copy has the channels of its source that could be read, in their order, by the
\* same names, with the same samples at the same times.
CopyIsFaithful ==
    made = "copy" /\ phase = "written" /\ t_outcome # "loading" =>
        /\ t_outcome = "loaded"
        /\ Len(t_channels) = Len(s_channels)
        /\ \A k \in DOMAIN s_channels :
              /\ T!Definition(t_channels[k]).name = S!Definition(s_channels[k]).name
              /\ Presented(t_channels[k]) = S!samples_with_time(s_channels[k])
        /\ t_by_name = s_by_name

\* A recording that loads is refused by from_manager only for what the writer does
\* not write: an unknown channel type, or a segment of another type than float or
\* double or without a positive rate.
RefusedCopies ==
    copied \notin {"no", "done"} =>
        \E k \in DOMAIN s_channels :
            LET c == s_builders[s_channels[k]]
            IN  \/ CopiedDef(s_channels[k]).channel_type = "unsupported"
                \/ \E j \in DOMAIN c.segments :
                      c.data_type \notin EquidistantTypes \/ c.segments[j].period = 0

\* The builder finds the same channel by a name as the loader of its file does.
NamesAgree ==
    t_outcome = "loaded" =>
        \A n \in DOMAIN t_by_name :
            builder.name_to_index[n] = t_channels[t_by_name[n]]
=============================================================================
