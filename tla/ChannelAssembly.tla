--------------------------- MODULE ChannelAssembly ---------------------------
(***************************************************************************)
(* osf_core::manager::build_channels: the Rust DataManager feeds every     *)
(* block of a file to a ChannelBuilder, which collects the samples of one  *)
(* channel, as segments of equidistant samples or as parallel arrays of    *)
(* timestamps and values.  The first error drops the whole load.           *)
(*                                                                         *)
(* A sample rate is given by its period, 0 for a rate that is not positive. *)
(* The blocks come from an iterator that need not be the BlockReader.      *)
(***************************************************************************)
EXTENDS Integers, Sequences, FiniteSets, SequencesExt

CONSTANTS
    Channels,   \* meta.channels: the declared channels, in metablock order
    Blocks,     \* the blocks the iterator may return
    MaxTime,    \* i64::MAX, where timestamps saturate
    NoTime,     \* no sample yet, so no anchor for relative stamps
    MaxBlocks   \* bound: blocks in a file

NumericTypes  == {"bool", "int16", "float", "double"}
VariableTypes == {"string", "binary"}
DataTypes     == NumericTypes \cup VariableTypes \cup {"gpslocation", "unsupported"}
Kinds == {"StartData", "ContinuedData", "AbsTimestampData", "ContinuedRelStampData", "Skipped"}

BlockType == [channel_index : Nat, kind : Kinds, data_type : DataTypes, start : Int,
              period : Nat, times : Seq(Int), values : Seq(Nat)]

ASSUME MetaAssumption ==
    Channels \in Seq([index : Nat, name : STRING, data_type : DataTypes])
ASSUME BlockAssumption ==
    /\ Blocks \subseteq BlockType
    /\ \A b \in Blocks :
          /\ b.kind \in {"AbsTimestampData", "ContinuedRelStampData"} =>
                Len(b.times) = Len(b.values)
          /\ b.kind = "ContinuedRelStampData" => \A i \in DOMAIN b.times : b.times[i] >= 0
          /\ b.start <= MaxTime /\ \A i \in DOMAIN b.times : b.times[i] <= MaxTime
          /\ b.data_type # "unsupported"
          /\ b.kind \in {"StartData", "ContinuedData", "ContinuedRelStampData"} =>
                b.data_type \in NumericTypes
    /\ MaxTime \in Nat /\ NoTime \notin Int
    /\ MaxBlocks \in Nat

VARIABLES
    builders,   \* the channel builders by channel index
    outcome,    \* "loading", "loaded" or the error
    channels,   \* DataManager.channels: channel indices in order
    by_name,    \* name -> slot
    by_index,   \* index -> slot
    fed         \* history: the blocks applied so far

vars == <<builders, outcome, channels, by_name, by_index, fed>>

Indices == {Channels[i].index : i \in DOMAIN Channels}

---------------------------------------------------------------------------
\* mutant: the storage of string and binary channels is not chosen up front
initial_state_for_NoVariable(dt) == IF dt = "unsupported" THEN "Unsupported" ELSE "Pending"

initial_state_for(dt) ==
    CASE dt = "unsupported"    -> "Unsupported"
      [] dt \in VariableTypes  -> "Variable"
      [] OTHER                 -> "Pending"

\* A later definition of an index replaces an earlier one.
Definition(ch) ==
    Channels[CHOOSE i \in DOMAIN Channels :
                /\ Channels[i].index = ch
                /\ \A j \in DOMAIN Channels : Channels[j].index = ch => j <= i]

NewBuilder(ch) ==
    [data_type |-> Definition(ch).data_type, state |-> initial_state_for(Definition(ch).data_type),
     samples |-> <<>>, segments |-> <<>>, timestamps_ns |-> <<>>, last_timestamp_ns |-> NoTime]

Init ==
    /\ builders = [ch \in Indices |-> NewBuilder(ch)]
    /\ outcome = "loading"
    /\ channels = <<>> /\ by_name = <<>> /\ by_index = <<>>
    /\ fed = <<>>

---------------------------------------------------------------------------
(* Time. *)

saturating_add(t, d) == IF t + d > MaxTime THEN MaxTime ELSE t + d

segment_timestamp(seg, i) ==
    IF seg.period > 0 /\ i > 0
    THEN saturating_add(seg.start, i * seg.period) ELSE seg.start

\* mutant: the anchor is one period behind the last sample
update_last_ts_from_segment_OffByOne(last, start, period, sample_count) ==
    IF sample_count = 0 THEN last ELSE saturating_add(start, sample_count * period)

update_last_ts_from_segment(last, start, period, sample_count) ==
    IF sample_count = 0 THEN last
    ELSE saturating_add(start, (sample_count - 1) * period)

\* mutant: every delta counts from the anchor
Accumulate_FromAnchor(anchor, deltas) ==
    [i \in DOMAIN deltas |-> saturating_add(anchor, deltas[i])]

\* extend_rel_timestamped: each delta counts from the sample before.
Accumulate(anchor, deltas) ==
    LET t[i \in 0..Len(deltas)] ==
            IF i = 0 THEN anchor ELSE saturating_add(t[i - 1], deltas[i])
    IN  [i \in DOMAIN deltas |-> t[i]]

LastOr(s, default) == IF s = <<>> THEN default ELSE s[Len(s)]

---------------------------------------------------------------------------
(* apply_block: the error it returns, or what it does to the builder. *)

\* mutant: a timestamped block is accepted on an equidistant channel
Mixed_NoCheck(c, b) ==
    \/ b.kind \in {"StartData", "ContinuedData"} /\ c.state \in {"Timestamped", "Variable"}
    \/ b.kind = "ContinuedRelStampData" /\ c.state # "Timestamped"

Mixed(c, b) ==
    \/ b.kind \in {"StartData", "ContinuedData"} /\ c.state \in {"Timestamped", "Variable"}
    \/ b.kind = "AbsTimestampData" /\ c.state = "Equidistant"
    \/ b.kind = "ContinuedRelStampData" /\ c.state # "Timestamped"

Error(b) ==
    IF b.channel_index \notin Indices THEN "UnknownChannelIndex"
    ELSE LET c == builders[b.channel_index]
         IN  CASE b.kind = "Skipped"                 -> "none"
               [] b.kind # "Skipped" /\ b.data_type # c.data_type
                                                     -> "DataTypeMismatch"
               [] OTHER ->
                  CASE b.kind = "ContinuedData" /\ c.state = "Pending"
                                                     -> "ContinuedDataWithoutStart"
                    [] b.kind = "ContinuedRelStampData" /\ c.last_timestamp_ns = NoTime
                                                     -> "RelStampWithoutAnchor"
                    [] OTHER -> IF Mixed(c, b) THEN "ChannelMixedBlockTypes" ELSE "none"

\* mutant: a later segment is recorded as if it began the samples
apply_start_AtZero(c, b) ==
    [c EXCEPT !.state = "Equidistant",
              !.samples = @ \o b.values,
              !.segments = Append(@, [start |-> b.start, period |-> b.period,
                                      start_index |-> 0,
                                      sample_count |-> Len(b.values)]),
              !.last_timestamp_ns =
                  update_last_ts_from_segment(@, b.start, b.period, Len(b.values))]

apply_start(c, b) ==
    [c EXCEPT !.state = "Equidistant",
              !.samples = @ \o b.values,
              !.segments = Append(@, [start |-> b.start, period |-> b.period,
                                      start_index |-> Len(c.samples),
                                      sample_count |-> Len(b.values)]),
              !.last_timestamp_ns =
                  update_last_ts_from_segment(@, b.start, b.period, Len(b.values))]

apply_continued(c, b) ==
    LET last == Len(c.segments)
        seg  == c.segments[last]
        count == seg.sample_count + Len(b.values)
    IN  [c EXCEPT !.samples = @ \o b.values,
                  !.segments[last].sample_count = count,
                  !.last_timestamp_ns =
                      update_last_ts_from_segment(@, seg.start, seg.period, count)]

apply_abs_timestamped(c, b) ==
    [c EXCEPT !.state = IF @ = "Pending" THEN "Timestamped" ELSE @,
              !.samples = @ \o b.values,
              !.timestamps_ns = @ \o b.times,
              !.last_timestamp_ns = LastOr(b.times, @)]

apply_rel_timestamped(c, b) ==
    LET times == Accumulate(c.last_timestamp_ns, b.times)
    IN  [c EXCEPT !.samples = @ \o b.values,
                  !.timestamps_ns = @ \o times,
                  !.last_timestamp_ns = LastOr(times, @)]

Applied(c, b) ==
    CASE b.kind = "StartData"             -> apply_start(c, b)
      [] b.kind = "ContinuedData"         -> apply_continued(c, b)
      [] b.kind = "AbsTimestampData"      -> apply_abs_timestamped(c, b)
      [] b.kind = "ContinuedRelStampData" -> apply_rel_timestamped(c, b)
      [] b.kind = "Skipped"               -> c

apply_block(b) ==
    /\ outcome = "loading"
    /\ Error(b) = "none"
    /\ builders' = [builders EXCEPT ![b.channel_index] = Applied(@, b)]
    /\ fed' = Append(fed, b)
    /\ UNCHANGED <<outcome, channels, by_name, by_index>>

\* `?': an error of the iterator or of apply_block drops what was collected.
Fail(error) ==
    /\ outcome = "loading"
    /\ outcome' = error
    /\ UNCHANGED <<builders, channels, by_name, by_index, fed>>

RejectBlock(b) == Error(b) # "none" /\ Fail(Error(b))

---------------------------------------------------------------------------
(* The end of the iterator: finalize() every builder, in metablock order. *)

FirstOf(i) == \A j \in 1..(i - 1) : Channels[j].index # Channels[i].index

\* mutant: unsupported channels are kept
Finalized_KeepsUnsupported ==
    FoldLeft(LAMBDA list, i : IF FirstOf(i) THEN Append(list, Channels[i].index) ELSE list,
             <<>>, [i \in DOMAIN Channels |-> i])

\* Channel indices in order of their first definition, without unsupported ones.
Finalized ==
    FoldLeft(LAMBDA list, i :
                IF FirstOf(i) /\ builders[Channels[i].index].state # "Unsupported"
                THEN Append(list, Channels[i].index) ELSE list,
             <<>>, [i \in DOMAIN Channels |-> i])

\* mutant: the first channel of a name is kept
SlotOfName_First(list, n) ==
    CHOOSE k \in DOMAIN list : /\ Definition(list[k]).name = n
                               /\ \A j \in DOMAIN list :
                                     Definition(list[j]).name = n => k <= j

\* HashMap::insert: the last channel of a name is the one that is found.
SlotOfName(list, n) ==
    CHOOSE k \in DOMAIN list : /\ Definition(list[k]).name = n
                               /\ \A j \in DOMAIN list :
                                     Definition(list[j]).name = n => j <= k

Finish ==
    /\ outcome = "loading"
    /\ outcome' = "loaded"
    /\ channels' = Finalized
    /\ by_name' = [n \in {Definition(ch).name : ch \in ToSet(channels')} |->
                      SlotOfName(channels', n)]
    /\ by_index' = [ch \in ToSet(channels') |-> CHOOSE k \in DOMAIN channels' : channels'[k] = ch]
    /\ UNCHANGED <<builders, fed>>

\* What BlockReader::next() may return instead of a block.
IteratorErrors == {"Io", "UnexpectedEof", "UnknownChannelIndex", "InvalidBlock"}

Next ==
    \/ \E b \in Blocks : Len(fed) < MaxBlocks /\ apply_block(b)
    \/ \E b \in Blocks : Len(fed) < MaxBlocks /\ RejectBlock(b)
    \/ \E error \in IteratorErrors : Fail(error)
    \/ Finish

Spec == Init /\ [][Next]_vars
---------------------------------------------------------------------------
(* What a loaded channel presents: data_channel.rs. *)

\* samples_with_time() of the channel.
samples_with_time(ch) ==
    LET c == builders[ch]
        OfSegment(seg) == [i \in 1..seg.sample_count |->
                              <<segment_timestamp(seg, i - 1),
                                c.samples[seg.start_index + i]>>]
    IN  IF c.state = "Equidistant"
        THEN FlattenSeq([k \in DOMAIN c.segments |-> OfSegment(c.segments[k])])
        ELSE [i \in DOMAIN c.samples |-> <<c.timestamps_ns[i], c.samples[i]>>]

---------------------------------------------------------------------------
(* What makes the assembly correct. *)

BuilderStates == {"Pending", "Equidistant", "Timestamped", "Variable", "Unsupported"}

Segment == [start : Int, period : Nat, start_index : Nat, sample_count : Nat]

\* The types of the loader's state; the storage agrees with the datatype.
TypeOK ==
    /\ outcome \in {"loading", "loaded"} \cup IteratorErrors
                 \cup {"UnknownChannelIndex", "DataTypeMismatch", "ContinuedDataWithoutStart",
                       "RelStampWithoutAnchor", "ChannelMixedBlockTypes"}
    /\ DOMAIN builders = Indices
    /\ \A ch \in Indices :
          LET c == builders[ch]
          IN  /\ c.data_type \in DataTypes /\ c.state \in BuilderStates
              /\ c.state = "Variable" <=> c.data_type \in VariableTypes
              /\ c.state = "Equidistant" => c.data_type \in NumericTypes
              /\ c.samples \in Seq(Nat) /\ c.timestamps_ns \in Seq(Int)
              /\ c.segments \in Seq(Segment)
              /\ c.last_timestamp_ns \in Int \cup {NoTime}

\* The flat storage holds together: segments cover the samples end to end, in
\* order and without overlap; timestamps and values are parallel.
StorageCovered ==
    \A ch \in Indices :
        LET c == builders[ch]
            End(k) == c.segments[k].start_index + c.segments[k].sample_count
        IN  IF c.state = "Equidistant"
            THEN /\ c.segments # <<>> /\ c.timestamps_ns = <<>>
                 /\ \A k \in DOMAIN c.segments :
                       c.segments[k].start_index = IF k = 1 THEN 0 ELSE End(k - 1)
                 /\ End(Len(c.segments)) = Len(c.samples)
            ELSE c.segments = <<>> /\ Len(c.timestamps_ns) = Len(c.samples)

Data(ch) == {p \in DOMAIN fed : fed[p].channel_index = ch /\ fed[p].kind # "Skipped"}

\* The last block of these kinds before p that a later block can build on.
Latest(ch, kinds, p) ==
    LET Usable == {s \in Data(ch) : /\ s < p /\ fed[s].kind \in kinds
                                    /\ (fed[s].kind = "StartData" \/ fed[s].values # <<>>)}
    IN  CHOOSE s \in Usable : \A q \in Usable : q <= s

SumOver(S, n) == FoldSet(LAMBDA x, t : t + n[x], 0, S)

\* The time of sample k of block p, from the file alone.
TimeOf(ch, p, k) ==
    LET b == fed[p]
        Deltas(q, n) == SumOver(1..n, fed[q].times)
    IN  CASE b.kind = "StartData" ->
               saturating_add(b.start, (k - 1) * b.period)
          [] b.kind = "ContinuedData" ->
               LET s == Latest(ch, {"StartData"}, p)
                   before == {q \in Data(ch) : s <= q /\ q < p}
                   n == SumOver(before, [q \in before |-> Len(fed[q].values)])
               IN  saturating_add(fed[s].start, (n + k - 1) * fed[s].period)
          [] b.kind = "AbsTimestampData" -> b.times[k]
          [] b.kind = "ContinuedRelStampData" ->
               LET a == Latest(ch, {"AbsTimestampData"}, p)
                   before == {q \in Data(ch) : a < q /\ q < p}
                   d == SumOver(before, [q \in before |-> Deltas(q, Len(fed[q].times))])
               IN  saturating_add(fed[a].times[Len(fed[a].times)], d + Deltas(p, k))

\* Each channel presents the samples of its blocks, in file order, each at the
\* time the format gives it: continued data counts on from the most recently read
\* bcStartData block of the channel, relative stamps from the sample before.
SamplesAreFed ==
    \A ch \in Indices :
        samples_with_time(ch) =
            FlattenSeq([p \in DOMAIN fed |->
                IF p \in Data(ch)
                THEN [k \in DOMAIN fed[p].values |-> <<TimeOf(ch, p, k), fed[p].values[k]>>]
                ELSE <<>>])

\* The anchor of the next relative stamp is the time of the last sample.
AnchorIsLast ==
    \A ch \in Indices :
        LET s == samples_with_time(ch)
        IN  builders[ch].last_timestamp_ns = IF s = <<>> THEN NoTime ELSE s[Len(s)][1]

\* What is wrong with a block behind those that were applied.
Reasons(b) ==
    LET before == {fed[p].kind : p \in Data(b.channel_index)}
        others == IF b.kind \in {"StartData", "ContinuedData"}
                  THEN {"AbsTimestampData", "ContinuedRelStampData"}
                  ELSE {"StartData", "ContinuedData"}
        Holds(e) ==
            CASE e = "DataTypeMismatch" -> b.data_type # Definition(b.channel_index).data_type
              [] e = "ChannelMixedBlockTypes"    -> before \cap others # {}
              [] e = "ContinuedDataWithoutStart" -> b.kind = "ContinuedData" /\ before = {}
              [] e = "RelStampWithoutAnchor"     ->
                    b.kind = "ContinuedRelStampData" /\ samples_with_time(b.channel_index) = <<>>
    IN  IF b.channel_index \notin Indices THEN {"UnknownChannelIndex"}
        ELSE {e \in {"DataTypeMismatch", "ChannelMixedBlockTypes", "ContinuedDataWithoutStart",
                     "RelStampWithoutAnchor"} : b.kind # "Skipped" /\ Holds(e)}

\* A block is refused exactly if the file cannot be a recording, and with an error that
\* says why: it is for no declared channel, of another datatype, continues what has not
\* begun, or puts equidistant and timestamped samples into one channel.
RefusedIsWrong ==
    outcome = "loading" =>
        \A b \in Blocks : IF Reasons(b) = {} THEN Error(b) = "none" ELSE Error(b) \in Reasons(b)

\* The loaded channels are the supported ones of the metablock, once each and in the
\* order in which their indices are first declared.  The lookup by index finds each of
\* them and nothing else; the lookup by name knows the names of the loaded channels,
\* and of several channels of one name it finds the last.
Lookup ==
    LET supported == {ch \in Indices : Definition(ch).data_type # "unsupported"}
        name(k)   == Definition(channels[k]).name
    IN  outcome = "loaded" =>
          /\ ToSet(channels) = supported
          /\ DOMAIN by_index = supported
          /\ \A k \in DOMAIN channels : by_index[channels[k]] = k
          /\ \A i, j \in DOMAIN Channels :
                /\ FirstOf(i) /\ FirstOf(j) /\ i < j
                /\ {Channels[i].index, Channels[j].index} \subseteq supported
                => by_index[Channels[i].index] < by_index[Channels[j].index]
          /\ DOMAIN by_name = {name(k) : k \in DOMAIN channels}
          /\ \A k \in DOMAIN channels :
                /\ by_name[name(k)] \in DOMAIN channels /\ by_name[name(k)] >= k
                /\ name(by_name[name(k)]) = name(k)
=============================================================================
