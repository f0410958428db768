---------------------------- MODULE WriterBuilder ----------------------------
(***************************************************************************)
(* osf_core::writer::WriterBuilder: an application declares channels, adds *)
(* samples to them, and writes the whole file at once.  write_to() goes    *)
(* channel by channel; every segment or run of samples is split into       *)
(* blocks that the channel's length field can hold.  Any write may fail,   *)
(* and then a beginning of the file is left at the path.                   *)
(*                                                                         *)
(* The samples are numbered in the order in which they are added.  A rate  *)
(* is given by its period, 0 for a rate that is not positive.  A refused   *)
(* call changes nothing, so only calls that succeed are steps.             *)
(***************************************************************************)
EXTENDS Integers, Sequences, FiniteSets, SequencesExt

CONSTANTS
    ChannelDefs,      \* what may be passed to add_channel
    Starts, Periods,  \* what may be passed with an equidistant segment
    Times, Sizes,     \* stamps, and lengths of strings and binaries in bytes
    Profiles,         \* what may be passed to with_integrity
    MaxPayload,       \* max_block_payload: bytes behind a length field by its width
    MaxIndex,         \* u16::MAX
    MaxCall,          \* bound: samples of a call
    MaxValues,        \* bound: samples in all
    MaxChannels       \* bound: channels

Widths           == {2, 4}
EquidistantTypes == {"float", "double"}
VariableTypes    == {"string", "binary"}
FixedSize        == [dt \in {"bool", "int16", "float", "double", "gpslocation"} |->
                        CASE dt = "bool" -> 1 [] dt = "int16" -> 2 [] dt = "float" -> 4
                          [] dt = "double" -> 8 [] dt = "gpslocation" -> 24]
WritableTypes    == DOMAIN FixedSize \cup VariableTypes
DataTypes        == WritableTypes \cup {"bytearray", "unsupported"}

ChannelDef == [name : STRING, data_type : DataTypes, channel_type : {"scalar", "unsupported"},
               size_of_length_value : Nat]

ASSUME DefAssumption == ChannelDefs \subseteq ChannelDef
ASSUME InputAssumption ==
    /\ Starts \subseteq Int /\ Periods \subseteq Nat /\ Times \subseteq Int /\ Sizes \subseteq Nat
    /\ Profiles \subseteq {"none", "crc32c", "ed25519"}
ASSUME LimitAssumption ==
    /\ MaxPayload \in [Widths -> Nat]
    /\ \A w \in Widths : 41 <= MaxPayload[w]
    /\ \A n \in Sizes : n + 13 <= MaxPayload[4]
    /\ MaxIndex \in Nat /\ MaxCall \in Nat /\ MaxValues \in Nat /\ MaxChannels \in Nat

VARIABLES
    builder,   \* the WriterBuilder
    phase,     \* "building", "header", "blocks", "written" or "failed"
    result,    \* why the write failed
    at,        \* where write_data_blocks is: channel, run of samples, samples written
    header,    \* the channels of the metablock at the path, NoHeader without one
    file,      \* the blocks behind it
    torn,      \* the last of them is followed by a part of another
    told       \* history: channel and time of every sample that was added

output == <<at, header, file, torn>>
vars   == <<builder, phase, result, output, told>>

---------------------------------------------------------------------------
(* The builder: declaring channels. *)

NoData == [mode |-> "Empty", segments |-> <<>>, timestamps_ns |-> <<>>, values |-> <<>>,
           sizes |-> <<>>]

NewBuilder == [channels |-> <<>>, channel_data |-> <<>>, name_to_index |-> <<>>,
               integrity |-> "none"]

\* mutant: a data type that has no blocks is accepted
Declarable_AnyType(b, def) ==
    /\ def.size_of_length_value \in Widths
    /\ def.channel_type # "unsupported"
    /\ Len(b.channels) <= MaxIndex

\* add_channel returns an index and no error.
Declarable(b, def) ==
    /\ def.size_of_length_value \in Widths
    /\ def.data_type \in WritableTypes
    /\ def.channel_type # "unsupported"
    /\ Len(b.channels) <= MaxIndex

\* mutant: the first channel of a name is the one that is found
AddChannel_FirstName(b, def) ==
    [b EXCEPT !.channels = Append(@, def),
              !.channel_data = Append(@, NoData),
              !.name_to_index = [n \in DOMAIN @ \cup {def.name} |->
                                    IF n \in DOMAIN @ THEN @[n] ELSE Len(b.channels)]]

AddChannel(b, def) ==
    [b EXCEPT !.channels = Append(@, def),
              !.channel_data = Append(@, NoData),
              !.name_to_index = [n \in DOMAIN @ \cup {def.name} |->
                                    IF n = def.name THEN Len(b.channels) ELSE @[n]]]

---------------------------------------------------------------------------
(* The builder: adding samples.  A channel number counts from 0. *)

Declared(b, ch) == ch < Len(b.channels)

Mode(b, ch) == b.channel_data[ch + 1].mode

\* mutant: a channel takes one segment only
SegmentRefusal_Second(b, ch, expected, period) ==
    IF ~Declared(b, ch) THEN "ChannelNotFound"
    ELSE LET dt == b.channels[ch + 1].data_type
         IN  CASE dt \notin EquidistantTypes -> "InvalidBlock"
               [] dt \in EquidistantTypes /\ dt # expected -> "DataTypeMismatch"
               [] dt \in EquidistantTypes /\ dt = expected ->
                     IF period = 0 THEN "InvalidBlock"
                     ELSE IF Mode(b, ch) # "Empty" THEN "ChannelMixedBlockTypes" ELSE "none"

\* add_equidistant_segment_f32 and _f64: the first check that fails.
SegmentRefusal(b, ch, expected, period) ==
    IF ~Declared(b, ch) THEN "ChannelNotFound"
    ELSE LET dt == b.channels[ch + 1].data_type
         IN  CASE dt \notin EquidistantTypes -> "InvalidBlock"
               [] dt \in EquidistantTypes /\ dt # expected -> "DataTypeMismatch"
               [] dt \in EquidistantTypes /\ dt = expected ->
                     IF period = 0 THEN "InvalidBlock"
                     ELSE IF Mode(b, ch) \in {"Timestamped", "Variable"}
                          THEN "ChannelMixedBlockTypes" ELSE "none"

AddSegment(b, ch, start, period, values) ==
    LET d == b.channel_data[ch + 1]
    IN  [b EXCEPT !.channel_data[ch + 1] =
            [d EXCEPT !.mode = "Equidistant",
                      !.segments = Append(d.segments,
                          [start |-> start, period |-> period, times |-> <<>>,
                           values |-> values, sizes |-> <<>>])]]

\* The families of calls that add stamped samples, and their storage.
Family(expected) == IF expected \in VariableTypes THEN "Variable" ELSE "Timestamped"

\* add_timestamped_samples_*: the first check that fails.
StampedRefusal(b, ch, expected, stamps, values) ==
    IF ~Declared(b, ch) THEN "ChannelNotFound"
    ELSE CASE b.channels[ch + 1].data_type # expected -> "DataTypeMismatch"
           [] b.channels[ch + 1].data_type = expected ->
                 IF stamps # values THEN "InvalidBlock"
                 ELSE IF Mode(b, ch) \notin {"Empty", Family(expected)}
                      THEN "ChannelMixedBlockTypes" ELSE "none"

AddTimestamped(b, ch, times, values) ==
    LET d == b.channel_data[ch + 1]
    IN  [b EXCEPT !.channel_data[ch + 1] =
            [d EXCEPT !.mode = "Timestamped", !.timestamps_ns = d.timestamps_ns \o times,
                      !.values = d.values \o values]]

AddVariable(b, ch, times, values, sizes) ==
    LET d == b.channel_data[ch + 1]
    IN  [b EXCEPT !.channel_data[ch + 1] =
            [d EXCEPT !.mode = "Variable", !.timestamps_ns = d.timestamps_ns \o times,
                      !.values = d.values \o values, !.sizes = d.sizes \o sizes]]

---------------------------------------------------------------------------
(* The calls of an application. *)

NoHeader == <<>>
Nowhere  == [channel |-> 0, run |-> 1, written |-> 0]

\* An older recording may be at the path.
OldBlock == [channel_index |-> 0, kind |-> "StartData", multi |-> FALSE, start |-> 0,
             period |-> 1, times |-> <<>>, values |-> <<0>>, size_of_length_value |-> 2,
             length |-> 25]

Init ==
    /\ builder = NewBuilder
    /\ phase = "building"
    /\ result = "none"
    /\ at = Nowhere
    /\ header = NoHeader
    /\ file \in {<<>>, <<OldBlock>>}
    /\ torn = FALSE
    /\ told = <<>>

\* The numbers of the next n samples.
Fresh(n) == [i \in 1..n |-> Len(told) + i]

Told(ch, n, time(_)) ==
    told' = told \o [i \in 1..n |-> [channel_index |-> ch, time |-> time(i)]]

with_integrity ==
    /\ phase = "building"
    /\ \E profile \in Profiles : builder' = [builder EXCEPT !.integrity = profile]
    /\ UNCHANGED <<phase, result, output, told>>

add_channel ==
    /\ phase = "building"
    /\ Len(builder.channels) < MaxChannels
    /\ \E def \in ChannelDefs :
          /\ Declarable(builder, def)
          /\ builder' = AddChannel(builder, def)
    /\ UNCHANGED <<phase, result, output, told>>

add_equidistant_segment ==
    /\ phase = "building"
    /\ \E ch \in 0..MaxChannels, expected \in EquidistantTypes, start \in Starts,
          period \in Periods, n \in 0..MaxCall :
          /\ Len(told) + n <= MaxValues
          /\ SegmentRefusal(builder, ch, expected, period) = "none"
          /\ Len(builder.channel_data[ch + 1].segments) < MaxCall
          /\ builder' = AddSegment(builder, ch, start, period, Fresh(n))
          /\ Told(ch, n, LAMBDA i : start + (i - 1) * period)
    /\ UNCHANGED <<phase, result, output>>

add_timestamped_samples ==
    /\ phase = "building"
    /\ \E ch \in 0..MaxChannels, expected \in DOMAIN FixedSize, t \in Times,
          stamps, n \in 0..MaxCall :
          /\ Len(told) + n <= MaxValues
          /\ StampedRefusal(builder, ch, expected, stamps, n) = "none"
          /\ builder' = AddTimestamped(builder, ch, [i \in 1..stamps |-> t + i], Fresh(n))
          /\ Told(ch, n, LAMBDA i : t + i)
    /\ UNCHANGED <<phase, result, output>>

add_variable_samples ==
    /\ phase = "building"
    /\ \E ch \in 0..MaxChannels, expected \in VariableTypes, t \in Times,
          stamps \in 0..MaxCall, sizes \in UNION {[1..n -> Sizes] : n \in 0..MaxCall} :
          /\ Len(told) + Len(sizes) <= MaxValues
          /\ StampedRefusal(builder, ch, expected, stamps, Len(sizes)) = "none"
          /\ builder' = AddVariable(builder, ch, [i \in 1..stamps |-> t + i],
                                    Fresh(Len(sizes)), sizes)
          /\ Told(ch, Len(sizes), LAMBDA i : t + i)
    /\ UNCHANGED <<phase, result, output>>

---------------------------------------------------------------------------
(* write_to_file: before the first byte. *)

CrcSize(b) == IF b.integrity = "crc32c" THEN 4 ELSE 0

\* mutant: the room for the CRC is forgotten
autobump_NoReserve(b) ==
    [i \in DOMAIN b.channels |->
        LET sizes == b.channel_data[i].sizes
        IN  IF \E k \in DOMAIN sizes : 9 + sizes[k] > MaxPayload[2]
            THEN [b.channels[i] EXCEPT !.size_of_length_value = 4] ELSE b.channels[i]]

\* autobump_size_of_length_value: only samples of variable length are not split.
autobump(b) ==
    [i \in DOMAIN b.channels |->
        LET sizes == b.channel_data[i].sizes
        IN  IF \E k \in DOMAIN sizes : CrcSize(b) + 9 + sizes[k] > MaxPayload[2]
            THEN [b.channels[i] EXCEPT !.size_of_length_value = 4] ELSE b.channels[i]]

Fails(error) == phase' = "failed" /\ result' = error

\* mutant: an existing file is written over and not truncated
Create_NoTruncate == header' = NoHeader /\ torn' = FALSE /\ file' = file

\* File::create.
Create == header' = NoHeader /\ torn' = FALSE /\ file' = <<>>

\* The path cannot be created; the builder is gone.
CreateFails ==
    /\ phase = "building"
    /\ Fails("Io")
    /\ UNCHANGED <<builder, output, told>>

\* The file is created, and then the builder is looked at.
write_to_file ==
    /\ phase = "building"
    /\ Create
    /\ \/ /\ builder.channels = <<>>
          /\ Fails("WriterEmpty")
          /\ UNCHANGED builder
       \/ /\ builder.channels # <<>>
          /\ builder.integrity = "ed25519"
          /\ Fails("InvalidBlock")
          /\ UNCHANGED builder
       \/ /\ builder.channels # <<>>
          /\ builder.integrity # "ed25519"
          /\ phase' = "header"
          /\ builder' = [builder EXCEPT !.channels = autobump(builder)]
          /\ UNCHANGED result
    /\ UNCHANGED <<at, told>>

\* The magic header and the metablock; the index of a channel is its position.
WriteHeader ==
    /\ phase = "header"
    /\ phase' = "blocks"
    /\ header' = builder.channels
    /\ UNCHANGED <<builder, result, at, file, torn, told>>

---------------------------------------------------------------------------
(* write_data_blocks. *)

Def  == builder.channels[at.channel + 1]
Data == builder.channel_data[at.channel + 1]

\* What is written of a channel in one piece if it is short enough.
Runs(d) ==
    CASE d.mode = "Equidistant" -> d.segments
      [] d.mode \in {"Timestamped", "Variable"} /\ d.timestamps_ns # <<>> ->
            <<[start |-> 0, period |-> 0, times |-> d.timestamps_ns, values |-> d.values,
               sizes |-> d.sizes]>>
      [] OTHER -> <<>>

Run == Runs(Data)[at.run]

Left == Len(Run.values) - at.written

Kind == CASE Data.mode = "Equidistant" /\ at.written = 0 -> "StartData"
          [] Data.mode = "Equidistant" /\ at.written # 0 -> "ContinuedData"
          [] OTHER -> "AbsTimestampData"

\* Bytes in front of the first sample of a block of several.
Overhead == IF Kind = "StartData" THEN 21 ELSE 5

PerSample == FixedSize[Def.data_type] + IF Kind = "AbsTimestampData" THEN 8 ELSE 0

\* mutant: the room for the frame CRC is forgotten
MaxSamples_NoReserve ==
    IF Data.mode = "Variable" THEN 1
    ELSE LET fit == (MaxPayload[Def.size_of_length_value] - Overhead) \div PerSample
         IN  IF fit > 1 THEN fit ELSE 1

MaxSamples ==
    IF Data.mode = "Variable" THEN 1
    ELSE LET fit == (MaxPayload[Def.size_of_length_value] - CrcSize(builder) - Overhead)
                        \div PerSample
         IN  IF fit > 1 THEN fit ELSE 1

Chunk == IF Left < MaxSamples THEN Left ELSE MaxSamples

\* A block of one sample has no count, except among stamped numeric samples.
Multi == CASE Data.mode = "Equidistant" -> Chunk # 1
           [] OTHER -> Data.mode = "Timestamped"

\* Control byte, start and rate, count, then stamps and values.
PayloadLength ==
    1 + (IF Kind = "StartData" THEN 16 ELSE 0) + (IF Multi THEN 4 ELSE 0)
      + IF Data.mode = "Variable" THEN 8 + Run.sizes[at.written + 1] ELSE Chunk * PerSample

\* mutant: the continuation begins with the last sample once more
Part_Overlaps(s) ==
    SubSeq(s, IF at.written = 0 THEN 1 ELSE at.written, at.written + Chunk)

Part(s) == SubSeq(s, at.written + 1, at.written + Chunk)

Block ==
    [channel_index        |-> at.channel,
     kind                 |-> Kind,
     multi                |-> Multi,
     start                |-> IF Kind = "StartData" THEN Run.start ELSE 0,
     period               |-> IF Kind = "StartData" THEN Run.period ELSE 0,
     times                |-> IF Kind = "AbsTimestampData" THEN Part(Run.times) ELSE <<>>,
     values               |-> Part(Run.values),
     size_of_length_value |-> Def.size_of_length_value,
     length               |-> PayloadLength + CrcSize(builder)]

\* check_variable_block_fits and write_block.
Fits == Block.size_of_length_value = 2 => Block.length <= MaxPayload[2]

InChannel == at.channel < Len(builder.channels)

AtBlock == phase = "blocks" /\ InChannel /\ at.run \in DOMAIN Runs(Data)

\* A type that has no size of its own cannot be written in blocks of many.
Sized == Data.mode = "Variable" \/ Def.data_type \in DOMAIN FixedSize

WriteBlock ==
    /\ AtBlock
    /\ IF Sized /\ Fits
       THEN /\ file' = Append(file, Block)
            /\ at' = IF Left > Chunk THEN [at EXCEPT !.written = @ + Chunk]
                                     ELSE [at EXCEPT !.run = @ + 1, !.written = 0]
            /\ UNCHANGED <<phase, result>>
       ELSE Fails("InvalidBlock") /\ UNCHANGED <<file, at>>
    /\ UNCHANGED <<builder, header, torn, told>>

\* mutant: a channel without samples is not passed
NextChannel_NeedsSamples ==
    /\ phase = "blocks"
    /\ InChannel
    /\ at.run \notin DOMAIN Runs(Data) /\ Runs(Data) # <<>>
    /\ at' = [channel |-> at.channel + 1, run |-> 1, written |-> 0]
    /\ UNCHANGED <<builder, phase, result, header, file, torn, told>>

NextChannel ==
    /\ phase = "blocks"
    /\ InChannel
    /\ at.run \notin DOMAIN Runs(Data)
    /\ at' = [channel |-> at.channel + 1, run |-> 1, written |-> 0]
    /\ UNCHANGED <<builder, phase, result, header, file, torn, told>>

Flush ==
    /\ phase = "blocks"
    /\ ~InChannel
    /\ phase' = "written"
    /\ UNCHANGED <<builder, result, output, told>>

\* A write or the flush fails.  The writer is buffered: of what was handed to it,
\* any beginning may be in the file.
IoFails ==
    /\ phase \in {"header", "blocks"}
    /\ Fails("Io")
    /\ \/ /\ header' = NoHeader /\ file' = <<>> /\ torn' = FALSE
       \/ /\ UNCHANGED header
          /\ \E k \in 0..Len(file) : file' = SubSeq(file, 1, k)
          /\ torn' \in BOOLEAN
    /\ UNCHANGED <<builder, at, told>>

Building == \/ with_integrity \/ add_channel \/ add_equidistant_segment
            \/ add_timestamped_samples \/ add_variable_samples

Writing == \/ CreateFails \/ write_to_file \/ WriteHeader \/ WriteBlock
           \/ NextChannel \/ Flush \/ IoFails

Next == Building \/ Writing

Spec == Init /\ [][Next]_vars

\* One thread writes, and nothing in it waits; that a write fails is not owed.
FairSpec == Spec /\ WF_vars(Writing /\ phase # "building" /\ result' # "Io")
---------------------------------------------------------------------------
(* What makes the writer correct. *)

RunType == [start : Int, period : Nat, times : Seq(Int), values : Seq(Nat), sizes : Seq(Nat)]

StoreType == [mode : {"Empty", "Equidistant", "Timestamped", "Variable"}, segments : Seq(RunType),
              timestamps_ns : Seq(Int), values : Seq(Nat), sizes : Seq(Nat)]

BlockType == [channel_index : Nat, kind : {"StartData", "ContinuedData", "AbsTimestampData"},
              multi : BOOLEAN, start : Int, period : Nat, times : Seq(Int), values : Seq(Nat),
              size_of_length_value : Widths, length : Nat]

\* The types of the writer's state; the storage agrees with the declared channels.
TypeOK ==
    /\ builder.channels \in Seq(ChannelDef)
    /\ builder.channel_data \in Seq(StoreType)
    /\ Len(builder.channels) = Len(builder.channel_data)
    /\ builder.integrity \in Profiles \cup {"none"}
    /\ \A i \in DOMAIN builder.channels :
          LET c == builder.channels[i]
              d == builder.channel_data[i]
          IN  /\ c.data_type \in WritableTypes /\ c.size_of_length_value \in Widths
              /\ d.mode = "Equidistant" => c.data_type \in EquidistantTypes
              /\ d.mode = "Timestamped" => c.data_type \in DOMAIN FixedSize
              /\ d.mode = "Variable" => c.data_type \in VariableTypes
              /\ Len(d.timestamps_ns) = Len(d.values)
              /\ Len(d.sizes) = IF d.mode = "Variable" THEN Len(d.values) ELSE 0
    /\ phase \in {"building", "header", "blocks", "written", "failed"}
    /\ result \in {"none", "Io", "WriterEmpty", "InvalidBlock"}
    /\ at \in [channel : Nat, run : Nat \ {0}, written : Nat]
    /\ header \in Seq(ChannelDef)
    /\ file \in Seq(BlockType)
    /\ torn \in BOOLEAN

\* Bytes that a reader takes for a block of this content.
ReaderLength(b) ==
    LET dt == header[b.channel_index + 1].data_type
        n  == Len(b.values)
    IN  1 + (IF b.kind = "StartData" THEN 16 ELSE 0) + (IF b.multi THEN 4 ELSE 0)
          + n * (FixedSize[dt] + IF b.kind = "AbsTimestampData" THEN 8 ELSE 0)

\* Every block of the file is framed as its metablock says: the length field has
\* the declared width, holds the length without loss, and counts exactly what the
\* control byte announces and the frame CRC; without a count there is one sample.
Framed ==
    header # NoHeader =>
        \A k \in DOMAIN file :
            LET b == file[k]
            IN  /\ b.channel_index < Len(header)
                /\ b.size_of_length_value = header[b.channel_index + 1].size_of_length_value
                /\ b.size_of_length_value = 2 => b.length <= MaxPayload[2]
                /\ ~b.multi => Len(b.values) = 1
                /\ header[b.channel_index + 1].data_type \in DOMAIN FixedSize =>
                      b.length = ReaderLength(b) + CrcSize(builder)

\* No file that the builder accepted is refused when it is written: the chunks fit
\* their length fields, and what cannot be split was widened before.
OnlyIoFails ==
    phase = "failed" =>
        \/ result = "Io"
        \/ result = "WriterEmpty" /\ builder.channels = <<>>
        \/ result = "InvalidBlock" /\ builder.integrity = "ed25519"

\* write_to_file returns: the loops over channels, segments and chunks end.
WriteReturns == phase = "header" ~> phase \in {"written", "failed"}

=============================================================================
