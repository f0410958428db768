--------------------------- MODULE RoundTrip_proofs ---------------------------
(***************************************************************************)
(* Files made by calls: what a WriterBuilder accepts, write_to can write;  *)
(* for all channels, sample counts, lengths and limits of a block, a write *)
(* is refused only by the output, for want of a channel or for a profile   *)
(* with signatures.                                                        *)
(*                                                                         *)
(* Copies of recordings: from_manager refuses only what the writer does    *)
(* not write, and what it returns can be written, in blocks that are       *)
(* framed as the metablock says.  And names: the builder and the loader    *)
(* of its file find the same channel by a name.                            *)
(*                                                                         *)
(* And loads: a file made by calls presents what was added, the remains of *)
(* a failed write present the first of it, and a copy presents what its    *)
(* source does.                                                            *)
(***************************************************************************)
EXTENDS RoundTrip, FoldLemmas, TLAPS

---------------------------------------------------------------------------
(* Files made by the calls of an application: the module WriterBuilder. *)

IsSequence(s) == \E U : s \in Seq(U)

WriterFields == {"channels", "channel_data", "name_to_index", "integrity"}
StoreFields  == {"mode", "segments", "timestamps_ns", "values", "sizes"}

IsWriter(b) == b = [x \in WriterFields |-> b[x]]
IsStore(d)  == d = [x \in StoreFields |-> d[x]]

\* The storage of a channel fits its declaration.
Ready(c, d) ==
    /\ IsStore(d)
    /\ c \in ChannelDef
    /\ c.data_type \in WritableTypes /\ c.size_of_length_value \in Widths
    /\ d.mode \in {"Empty", "Equidistant", "Timestamped", "Variable"}
    /\ IsSequence(d.segments)
    /\ \A k \in DOMAIN d.segments : IsSequence(d.segments[k].values)
    /\ IsSequence(d.timestamps_ns) /\ IsSequence(d.values) /\ d.sizes \in Seq(Nat)
    /\ d.mode = "Empty" => d.timestamps_ns = <<>> /\ d.values = <<>> /\ d.sizes = <<>>
    /\ d.mode = "Equidistant" => c.data_type \in EquidistantTypes
    /\ d.mode = "Timestamped" => c.data_type \in DOMAIN FixedSize
    /\ d.mode = "Variable" =>
          /\ c.data_type \in VariableTypes
          /\ Len(d.timestamps_ns) = Len(d.values) /\ Len(d.sizes) = Len(d.values)

Prepared(b) ==
    /\ IsWriter(b)
    /\ b.channels \in Seq(ChannelDef) /\ IsSequence(b.channel_data)
    /\ Len(b.channels) = Len(b.channel_data)
    /\ \A i \in 1..Len(b.channels) : Ready(b.channels[i], b.channel_data[i])

\* What cannot be split has room.
Wide(b) ==
    \A i \in 1..Len(b.channels) :
        b.channels[i].size_of_length_value = 2 =>
            \A k \in DOMAIN b.channel_data[i].sizes :
                CrcSize(b) + 9 + b.channel_data[i].sizes[k] <= MaxPayload[2]

\* Where write_data_blocks is; a sample of variable length is a block.
Placed ==
    /\ at \in [channel : Nat, run : Nat \ {0}, written : Nat]
    /\ InChannel /\ Data.mode = "Variable" /\ at.run = 1 /\ Data.timestamps_ns # <<>> =>
          at.written < Len(Data.values)

WInv ==
    /\ Prepared(builder)
    /\ phase \in {"header", "blocks"} => Placed
    /\ phase \in {"header", "blocks"} => Wide(builder)
    /\ phase = "building" => at = Nowhere
    /\ OnlyIoFails

---------------------------------------------------------------------------
LEMMA EmptySequence == IsSequence(<<>>) /\ Len(<<>>) = 0
  <1>1. <<>> \in Seq(Nat)
    OBVIOUS
  <1>. QED  BY <1>1 DEF IsSequence

LEMMA Concatenated ==
    ASSUME NEW s, NEW t, IsSequence(s), IsSequence(t)
    PROVE  IsSequence(s \o t) /\ Len(s \o t) = Len(s) + Len(t) /\ Len(s) \in Nat
  <1>1. PICK U : s \in Seq(U)
    BY DEF IsSequence
  <1>2. PICK V : t \in Seq(V)
    BY DEF IsSequence
  <1>3. s \in Seq(U \cup V) /\ t \in Seq(U \cup V)
    BY <1>1, <1>2
  <1>4. s \o t \in Seq(U \cup V)
    BY <1>3
  <1>. QED  BY <1>1, <1>2, <1>3, <1>4 DEF IsSequence

LEMMA Appended ==
    ASSUME NEW s, NEW e, IsSequence(s)
    PROVE  /\ IsSequence(Append(s, e)) /\ Len(s) \in Nat
           /\ DOMAIN s = 1..Len(s)
           /\ Len(Append(s, e)) = Len(s) + 1
           /\ DOMAIN Append(s, e) = 1..(Len(s) + 1)
           /\ Append(s, e)[Len(s) + 1] = e
           /\ \A i \in 1..Len(s) : Append(s, e)[i] = s[i]
  <1>1. PICK U : s \in Seq(U)
    BY DEF IsSequence
  <1>2. s \in Seq(U \cup {e}) /\ e \in U \cup {e}
    BY <1>1
  <1>3. Append(s, e) \in Seq(U \cup {e})
    BY <1>2
  <1>4. IsSequence(Append(s, e))
    BY <1>3 DEF IsSequence
  <1>. QED  BY <1>2, <1>4

\* The values of a call.
LEMMA Counted ==
    ASSUME NEW n \in Nat, NEW t
    PROVE  IsSequence([i \in 1..n |-> t + i]) /\ Len([i \in 1..n |-> t + i]) = n
  <1>1. [i \in 1..n |-> t + i] \in Seq({t + i : i \in 1..n})
    OBVIOUS
  <1>2. Len([i \in 1..n |-> t + i]) = n
    OBVIOUS
  <1>. QED  BY <1>1, <1>2 DEF IsSequence

---------------------------------------------------------------------------
(* The builder. *)

\* A channel that is stored to; the others are as they were.
LEMMA StoreTo ==
    ASSUME NEW b, Prepared(b), NEW i \in 1..Len(b.channels), NEW d,
           Ready(b.channels[i], d)
    PROVE  Prepared([b EXCEPT !.channel_data[i] = d])
  <1>. DEFINE e == [b EXCEPT !.channel_data[i] = d]
  <1>1. /\ IsWriter(e) /\ e.channels = b.channels
        /\ e.channel_data = [b.channel_data EXCEPT ![i] = d]
    <2>1. IsWriter(b)
      BY DEF Prepared
    <2>. QED  BY <2>1 DEF IsWriter, WriterFields
  <1>. HIDE DEF e
  <1>2. PICK U : b.channel_data \in Seq(U)
    BY DEF Prepared, IsSequence
  <1>3. b.channel_data \in Seq(U \cup {d}) /\ d \in U \cup {d}
    BY <1>2
  <1>4. /\ e.channel_data \in Seq(U \cup {d})
        /\ Len(e.channel_data) = Len(b.channel_data)
        /\ i \in 1..Len(b.channel_data)
    BY <1>1, <1>3 DEF Prepared
  <1>5. \A k \in 1..Len(b.channels) : e.channel_data[k] = IF k = i THEN d ELSE b.channel_data[k]
    BY <1>1, <1>3 DEF Prepared
  <1>6. \A k \in 1..Len(b.channels) : Ready(b.channels[k], e.channel_data[k])
    BY <1>5 DEF Prepared
  <1>7. IsSequence(e.channel_data)
    BY <1>4 DEF IsSequence
  <1>8. Prepared(e)
    BY <1>1, <1>4, <1>6, <1>7 DEF Prepared
  <1>. QED  BY <1>8 DEF e

LEMMA ChannelAdded ==
    ASSUME NEW b, Prepared(b), NEW def \in ChannelDef, Declarable(b, def)
    PROVE  Prepared(AddChannel(b, def))
  <1>. DEFINE e == AddChannel(b, def)
              n == Len(b.channels)
  <1>1. /\ IsWriter(e) /\ e.channels = Append(b.channels, def)
        /\ e.channel_data = Append(b.channel_data, NoData)
    <2>1. IsWriter(b)
      BY DEF Prepared
    <2>. QED  BY <2>1 DEF IsWriter, WriterFields, AddChannel
  <1>. HIDE DEF e
  <1>2. def \in ChannelDef
    OBVIOUS
  <1>3. /\ e.channels \in Seq(ChannelDef)
        /\ Len(e.channels) = n + 1 /\ n \in Nat
        /\ e.channels[n + 1] = def
    BY <1>1, <1>2 DEF Prepared
  <1>4. \A i \in 1..n : e.channels[i] = b.channels[i]
    BY <1>1, <1>2 DEF Prepared
  <1>5. /\ IsSequence(e.channel_data) /\ Len(e.channel_data) = n + 1
        /\ e.channel_data[n + 1] = NoData
        /\ \A i \in 1..n : e.channel_data[i] = b.channel_data[i]
    BY <1>1, Appended DEF Prepared
  <1>6. Ready(def, NoData)
    <2>1. IsStore(NoData)
      BY DEF IsStore, StoreFields, NoData
    <2>2. /\ NoData.mode = "Empty" /\ NoData.segments = <<>> /\ NoData.timestamps_ns = <<>>
          /\ NoData.values = <<>> /\ NoData.sizes = <<>>
      BY DEF NoData
    <2>3. DOMAIN <<>> = {} /\ <<>> \in Seq(Nat)
      OBVIOUS
    <2>. QED  BY <2>1, <2>2, <2>3, <1>2, EmptySequence DEF Ready, Declarable
  <1>7. ASSUME NEW i \in 1..(n + 1)
        PROVE  Ready(e.channels[i], e.channel_data[i])
    <2>1. CASE i = n + 1
      BY <2>1, <1>3, <1>5, <1>6
    <2>2. CASE i # n + 1
      <3>1. i \in 1..n
        BY <2>2, <1>3
      <3>. QED  BY <3>1, <1>4, <1>5 DEF Prepared
    <2>. QED  BY <2>1, <2>2
  <1>8. Prepared(e)
    BY <1>1, <1>3, <1>5, <1>7 DEF Prepared
  <1>. QED  BY <1>8 DEF e

\* The calls that add samples: what is refused would not be ready.
LEMMA SegmentAdded ==
    ASSUME NEW b, Prepared(b), NEW ch \in Nat, NEW expected \in EquidistantTypes,
           NEW start, NEW period, SegmentRefusal(b, ch, expected, period) = "none",
           NEW values, IsSequence(values)
    PROVE  Prepared(AddSegment(b, ch, start, period, values))
  <1>. DEFINE c == b.channels[ch + 1]
              d == b.channel_data[ch + 1]
              seg == [start |-> start, period |-> period, times |-> <<>>, values |-> values,
                      sizes |-> <<>>]
              e == [d EXCEPT !.mode = "Equidistant", !.segments = Append(d.segments, seg)]
  <1>1. ch + 1 \in 1..Len(b.channels) /\ c.data_type = expected
    <2>1. Declared(b, ch) /\ Len(b.channels) \in Nat
      BY DEF SegmentRefusal, Prepared
    <2>2. c.data_type = expected
      BY <2>1 DEF SegmentRefusal
    <2>. QED  BY <2>1, <2>2 DEF Declared
  <1>2. Ready(c, d)
    BY <1>1 DEF Prepared
  <1>3. /\ IsStore(e) /\ e.mode = "Equidistant" /\ e.segments = Append(d.segments, seg)
        /\ e.timestamps_ns = d.timestamps_ns /\ e.values = d.values /\ e.sizes = d.sizes
    <2>1. IsStore(d)
      BY <1>2 DEF Ready
    <2>. QED  BY <2>1 DEF IsStore, StoreFields
  <1>. HIDE DEF e
  <1>4. /\ IsSequence(e.segments)
        /\ \A k \in DOMAIN e.segments : IsSequence(e.segments[k].values)
    <2>1. IsSequence(d.segments) /\ \A k \in DOMAIN d.segments : IsSequence(d.segments[k].values)
      BY <1>2 DEF Ready
    <2>2. seg.values = values
      OBVIOUS
    <2>. HIDE DEF seg
    <2>3. \A k \in 1..(Len(d.segments) + 1) : k \in 1..Len(d.segments) \/ k = Len(d.segments) + 1
      BY <2>1, Appended
    <2>. QED  BY <1>3, <2>1, <2>2, <2>3, Appended
  <1>5. Ready(c, e)
    BY <1>1, <1>2, <1>3, <1>4 DEF Ready
  <1>6. AddSegment(b, ch, start, period, values) = [b EXCEPT !.channel_data[ch + 1] = e]
    BY DEF AddSegment, e
  <1>. QED  BY <1>1, <1>5, <1>6, StoreTo

LEMMA TimestampedAdded ==
    ASSUME NEW b, Prepared(b), NEW ch \in Nat, NEW expected \in DOMAIN FixedSize,
           NEW times, NEW values, IsSequence(times), IsSequence(values),
           NEW stamps, NEW n, StampedRefusal(b, ch, expected, stamps, n) = "none"
    PROVE  Prepared(AddTimestamped(b, ch, times, values))
  <1>. DEFINE c == b.channels[ch + 1]
              d == b.channel_data[ch + 1]
              e == [d EXCEPT !.mode = "Timestamped", !.timestamps_ns = d.timestamps_ns \o times,
                             !.values = d.values \o values]
  <1>1. ch + 1 \in 1..Len(b.channels) /\ c.data_type = expected
    <2>1. Declared(b, ch) /\ Len(b.channels) \in Nat
      BY DEF StampedRefusal, Prepared
    <2>2. c.data_type = expected
      BY <2>1 DEF StampedRefusal
    <2>. QED  BY <2>1, <2>2 DEF Declared
  <1>2. Ready(c, d)
    BY <1>1 DEF Prepared
  <1>3. /\ IsStore(e) /\ e.mode = "Timestamped" /\ e.segments = d.segments
        /\ e.timestamps_ns = d.timestamps_ns \o times /\ e.values = d.values \o values
        /\ e.sizes = d.sizes
    <2>1. IsStore(d)
      BY <1>2 DEF Ready
    <2>. QED  BY <2>1 DEF IsStore, StoreFields
  <1>. HIDE DEF e
  <1>4. IsSequence(e.timestamps_ns) /\ IsSequence(e.values)
    BY <1>2, <1>3, Concatenated DEF Ready
  <1>5. Ready(c, e)
    BY <1>1, <1>2, <1>3, <1>4 DEF Ready
  <1>6. AddTimestamped(b, ch, times, values) = [b EXCEPT !.channel_data[ch + 1] = e]
    BY DEF AddTimestamped, e
  <1>. QED  BY <1>1, <1>5, <1>6, StoreTo

LEMMA VariableAdded ==
    ASSUME NEW b, Prepared(b), NEW ch \in Nat, NEW expected \in VariableTypes,
           NEW times, NEW values, NEW sizes \in Seq(Nat),
           IsSequence(times), IsSequence(values),
           Len(times) = Len(sizes), Len(values) = Len(sizes),
           NEW stamps, NEW n, StampedRefusal(b, ch, expected, stamps, n) = "none"
    PROVE  Prepared(AddVariable(b, ch, times, values, sizes))
  <1>. DEFINE c == b.channels[ch + 1]
              d == b.channel_data[ch + 1]
              e == [d EXCEPT !.mode = "Variable", !.timestamps_ns = d.timestamps_ns \o times,
                             !.values = d.values \o values, !.sizes = d.sizes \o sizes]
  <1>1. /\ ch + 1 \in 1..Len(b.channels) /\ c.data_type = expected
        /\ d.mode \in {"Empty", "Variable"}
    <2>1. Declared(b, ch) /\ Len(b.channels) \in Nat
      BY DEF StampedRefusal, Prepared
    <2>2. c.data_type = expected
      BY <2>1 DEF StampedRefusal
    <2>3. Mode(b, ch) \in {"Empty", Family(expected)}
      BY <2>1, <2>2 DEF StampedRefusal
    <2>. QED  BY <2>1, <2>2, <2>3 DEF Declared, Mode, Family
  <1>2. Ready(c, d)
    BY <1>1 DEF Prepared
  <1>3. /\ IsStore(e) /\ e.mode = "Variable" /\ e.segments = d.segments
        /\ e.timestamps_ns = d.timestamps_ns \o times /\ e.values = d.values \o values
        /\ e.sizes = d.sizes \o sizes
    <2>1. IsStore(d)
      BY <1>2 DEF Ready
    <2>. QED  BY <2>1 DEF IsStore, StoreFields
  <1>. HIDE DEF e
  <1>4. /\ Len(d.timestamps_ns) = Len(d.values) /\ Len(d.sizes) = Len(d.values)
        /\ IsSequence(d.timestamps_ns) /\ IsSequence(d.values) /\ d.sizes \in Seq(Nat)
    BY <1>1, <1>2 DEF Ready
  <1>5. /\ IsSequence(e.timestamps_ns) /\ IsSequence(e.values)
        /\ Len(e.timestamps_ns) = Len(d.timestamps_ns) + Len(times)
        /\ Len(e.values) = Len(d.values) + Len(values)
    BY <1>3, <1>4, Concatenated
  <1>6. e.sizes \in Seq(Nat) /\ Len(e.sizes) = Len(d.sizes) + Len(sizes)
    <2>1. d.sizes \in Seq(Nat)
      BY <1>4
    <2>. HIDE DEF d
    <2>. QED  BY <2>1, <1>3
  <1>7. Len(e.timestamps_ns) = Len(e.values) /\ Len(e.sizes) = Len(e.values)
    BY <1>4, <1>5, <1>6
  <1>8. Ready(c, e)
    BY <1>1, <1>2, <1>3, <1>5, <1>6, <1>7 DEF Ready
  <1>9. AddVariable(b, ch, times, values, sizes) = [b EXCEPT !.channel_data[ch + 1] = e]
    BY DEF AddVariable, e
  <1>. QED  BY <1>1, <1>8, <1>9, StoreTo

LEMMA BuildingKeeps ==
    ASSUME Prepared(builder), Building
    PROVE  Prepared(builder')
  <1>1. CASE with_integrity
    <2>1. PICK profile \in Profiles : builder' = [builder EXCEPT !.integrity = profile]
      BY <1>1 DEF with_integrity
    <2>2. IsWriter(builder')
      BY <2>1 DEF Prepared, IsWriter, WriterFields
    <2>3. builder'.channels = builder.channels /\ builder'.channel_data = builder.channel_data
      BY <2>1 DEF Prepared, IsWriter, WriterFields
    <2>. QED  BY <2>2, <2>3 DEF Prepared
  <1>2. CASE add_channel
    BY <1>2, ChannelAdded, DefAssumption DEF add_channel
  <1>3. CASE add_equidistant_segment
    <2>1. PICK ch \in 0..MaxChannels, expected \in EquidistantTypes, start \in Starts,
               period \in Periods, n \in 0..MaxCall :
             /\ SegmentRefusal(builder, ch, expected, period) = "none"
             /\ builder' = AddSegment(builder, ch, start, period, Fresh(n))
      BY <1>3 DEF add_equidistant_segment
    <2>2. ch \in Nat /\ n \in Nat
      BY <2>1, LimitAssumption
    <2>3. IsSequence(Fresh(n))
      BY <2>2, Counted DEF Fresh
    <2>. QED  BY <2>1, <2>2, <2>3, SegmentAdded
  <1>4. CASE add_timestamped_samples
    <2>1. PICK ch \in 0..MaxChannels, expected \in DOMAIN FixedSize, t \in Times,
               stamps, n \in 0..MaxCall :
             /\ StampedRefusal(builder, ch, expected, stamps, n) = "none"
             /\ builder' = AddTimestamped(builder, ch, [i \in 1..stamps |-> t + i], Fresh(n))
      BY <1>4 DEF add_timestamped_samples
    <2>2. ch \in Nat /\ n \in Nat /\ stamps \in Nat
      BY <2>1, LimitAssumption
    <2>3. IsSequence(Fresh(n)) /\ IsSequence([i \in 1..stamps |-> t + i])
      BY <2>2, Counted DEF Fresh
    <2>. QED  BY <2>1, <2>2, <2>3, TimestampedAdded
  <1>5. CASE add_variable_samples
    <2>1. PICK ch \in 0..MaxChannels, expected \in VariableTypes, t \in Times,
               stamps \in 0..MaxCall, sizes \in UNION {[1..n -> Sizes] : n \in 0..MaxCall} :
             /\ StampedRefusal(builder, ch, expected, stamps, Len(sizes)) = "none"
             /\ builder' = AddVariable(builder, ch, [i \in 1..stamps |-> t + i],
                                       Fresh(Len(sizes)), sizes)
      BY <1>5 DEF add_variable_samples
    <2>2. ch \in Nat /\ stamps \in Nat
      BY <2>1, LimitAssumption
    <2>3. sizes \in Seq(Nat) /\ Len(sizes) \in Nat
      <3>1. PICK n \in 0..MaxCall : sizes \in [1..n -> Sizes]
        BY <2>1
      <3>2. n \in Nat /\ Sizes \subseteq Nat
        BY <3>1, InputAssumption, LimitAssumption
      <3>3. sizes \in [1..n -> Nat]
        BY <3>1, <3>2
      <3>. QED  BY <3>2, <3>3
    <2>4. stamps = Len(sizes)
      BY <2>1 DEF StampedRefusal
    <2>5. /\ IsSequence(Fresh(Len(sizes))) /\ Len(Fresh(Len(sizes))) = Len(sizes)
          /\ IsSequence([i \in 1..stamps |-> t + i]) /\ Len([i \in 1..stamps |-> t + i]) = stamps
      BY <2>2, <2>3, Counted DEF Fresh
    <2>. QED  BY <2>1, <2>2, <2>3, <2>4, <2>5, VariableAdded
  <1>. QED  BY <1>1, <1>2, <1>3, <1>4, <1>5 DEF Building

---------------------------------------------------------------------------
(* Before the first block. *)

LEMMA CrcSizes == \A b : CrcSize(b) \in {0, 4}
  BY DEF CrcSize

\* Widening makes room and leaves the rest.
LEMMA Widened ==
    ASSUME NEW b, Prepared(b), b.integrity # "ed25519"
    PROVE  /\ Prepared([b EXCEPT !.channels = autobump(b)])
           /\ Wide([b EXCEPT !.channels = autobump(b)])
           /\ [b EXCEPT !.channels = autobump(b)].integrity = b.integrity
           /\ [b EXCEPT !.channels = autobump(b)].channel_data = b.channel_data
  <1>. DEFINE e == [b EXCEPT !.channels = autobump(b)]
              n == Len(b.channels)
              Long(i) == \E k \in DOMAIN b.channel_data[i].sizes :
                            CrcSize(b) + 9 + b.channel_data[i].sizes[k] > MaxPayload[2]
  <1>1. /\ IsWriter(e) /\ e.channels = autobump(b)
        /\ e.channel_data = b.channel_data /\ e.integrity = b.integrity
    <2>1. IsWriter(b)
      BY DEF Prepared
    <2>. QED  BY <2>1 DEF IsWriter, WriterFields
  <1>. HIDE DEF e
  <1>2. b.channels \in Seq(ChannelDef) /\ DOMAIN b.channels = 1..n /\ n \in Nat
    BY DEF Prepared
  <1>3. ASSUME NEW i \in 1..n
        PROVE  /\ autobump(b)[i] = IF Long(i)
                                   THEN [b.channels[i] EXCEPT !.size_of_length_value = 4]
                                   ELSE b.channels[i]
               /\ autobump(b)[i] \in ChannelDef
               /\ autobump(b)[i].data_type = b.channels[i].data_type
               /\ autobump(b)[i].size_of_length_value =
                     IF Long(i) THEN 4 ELSE b.channels[i].size_of_length_value
    <2>1. autobump(b)[i] = IF Long(i) THEN [b.channels[i] EXCEPT !.size_of_length_value = 4]
                                      ELSE b.channels[i]
      BY <1>2 DEF autobump
    <2>2. b.channels[i] \in ChannelDef
      BY <1>2
    <2>. HIDE DEF Long
    <2>. QED  BY <2>1, <2>2 DEF ChannelDef
  <1>4. autobump(b) \in Seq(ChannelDef) /\ Len(autobump(b)) = n
    <2>1. DOMAIN autobump(b) = 1..n /\ autobump(b) = [i \in 1..n |-> autobump(b)[i]]
      BY <1>2 DEF autobump
    <2>2. \A i \in 1..n : autobump(b)[i] \in ChannelDef
      BY <1>3
    <2>. HIDE DEF n
    <2>3. autobump(b) \in [1..n -> ChannelDef]
      BY <2>1, <2>2
    <2>4. n \in Nat
      BY <1>2
    <2>. QED  BY <2>3, <2>4
  <1>5. ASSUME NEW i \in 1..n
        PROVE  Ready(autobump(b)[i], b.channel_data[i])
    <2>1. Ready(b.channels[i], b.channel_data[i])
      BY DEF Prepared
    <2>2. autobump(b)[i].size_of_length_value \in Widths
      BY <2>1, <1>3 DEF Ready, Widths
    <2>. QED  BY <2>1, <2>2, <1>3 DEF Ready
  <1>6. Prepared(e)
    BY <1>1, <1>4, <1>5 DEF Prepared
  <1>7. CrcSize(e) = CrcSize(b)
    BY <1>1 DEF CrcSize
  <1>8. ASSUME NEW i \in 1..n, autobump(b)[i].size_of_length_value = 2,
               NEW k \in DOMAIN b.channel_data[i].sizes
        PROVE  CrcSize(b) + 9 + b.channel_data[i].sizes[k] <= MaxPayload[2]
    <2>. HIDE DEF Long
    <2>1. ~Long(i)
      <3>1. autobump(b)[i].size_of_length_value
               = IF Long(i) THEN 4 ELSE b.channels[i].size_of_length_value
        BY <1>3
      <3>. QED  BY <3>1, <1>8
    <2>. USE DEF Long
    <2>2. ~(CrcSize(b) + 9 + b.channel_data[i].sizes[k] > MaxPayload[2])
      BY <2>1, <1>8
    <2>3. b.channel_data[i].sizes \in Seq(Nat)
      BY <1>8 DEF Prepared, Ready
    <2>4. b.channel_data[i].sizes[k] \in Nat
      BY <2>3, <1>8
    <2>5. CrcSize(b) \in Nat /\ MaxPayload[2] \in Nat
      BY LimitAssumption, CrcSizes DEF Widths
    <2>. QED  BY <2>2, <2>4, <2>5
  <1>9. Wide(e)
    BY <1>1, <1>4, <1>7, <1>8 DEF Wide
  <1>. QED  BY <1>1, <1>6, <1>9 DEF e

---------------------------------------------------------------------------
(* The blocks. *)

LEMMA Current ==
    ASSUME WInv, phase = "blocks", InChannel
    PROVE  /\ at.channel + 1 \in 1..Len(builder.channels)
           /\ Ready(Def, Data)
           /\ at \in [channel : Nat, run : Nat \ {0}, written : Nat]
           /\ Def.size_of_length_value = 2 =>
                 \A k \in DOMAIN Data.sizes : CrcSize(builder) + 9 + Data.sizes[k] <= MaxPayload[2]
  <1>1. Prepared(builder) /\ Placed /\ Wide(builder)
    BY DEF WInv
  <1>2. at \in [channel : Nat, run : Nat \ {0}, written : Nat]
    BY <1>1 DEF Placed
  <1>3. at.channel \in Nat /\ Len(builder.channels) \in Nat
    BY <1>1, <1>2 DEF Prepared
  <1>4. at.channel + 1 \in 1..Len(builder.channels)
    BY <1>3 DEF InChannel
  <1>. QED  BY <1>1, <1>2, <1>4 DEF Prepared, Def, Data, Wide

\* The run of a channel of variable length is all of it.
LEMMA VariableRun ==
    ASSUME Data.mode \in {"Timestamped", "Variable"}, at.run \in DOMAIN Runs(Data)
    PROVE  /\ at.run = 1 /\ Data.timestamps_ns # <<>>
           /\ Run.values = Data.values /\ Run.sizes = Data.sizes
  <1>. DEFINE run == [start |-> 0, period |-> 0, times |-> Data.timestamps_ns,
                      values |-> Data.values, sizes |-> Data.sizes]
  <1>1. CASE Data.timestamps_ns = <<>>
    <2>1. Runs(Data) = <<>>
      BY <1>1 DEF Runs
    <2>. QED  BY <2>1
  <1>2. CASE Data.timestamps_ns # <<>>
    <2>1. Runs(Data) = <<run>>
      BY <1>2 DEF Runs
    <2>. HIDE DEF run
    <2>2. at.run = 1 /\ Run = run
      BY <2>1 DEF Run
    <2>. QED  BY <1>2, <2>2 DEF run
  <1>. QED  BY <1>1, <1>2

LEMMA RunLength ==
    ASSUME WInv, AtBlock
    PROVE  IsSequence(Run.values) /\ Len(Run.values) \in Nat
  <1>1. Ready(Def, Data)
    BY Current DEF AtBlock
  <1>2. CASE Data.mode = "Equidistant"
    <2>1. Run = Data.segments[at.run] /\ at.run \in DOMAIN Data.segments
      BY <1>2 DEF Run, Runs, AtBlock
    <2>2. IsSequence(Run.values)
      BY <1>1, <2>1 DEF Ready
    <2>. QED  BY <2>2 DEF IsSequence
  <1>3. CASE Data.mode \in {"Timestamped", "Variable"}
    <2>1. Run.values = Data.values
      BY <1>3, VariableRun DEF AtBlock
    <2>2. IsSequence(Run.values)
      BY <1>1, <2>1 DEF Ready
    <2>. QED  BY <2>2 DEF IsSequence
  <1>4. CASE Data.mode = "Empty"
    <2>1. Runs(Data) = <<>>
      BY <1>4 DEF Runs
    <2>. QED  BY <2>1 DEF AtBlock
  <1>. QED  BY <1>1, <1>2, <1>3, <1>4 DEF Ready

\* The chunking: what maxSamples says fits the limit, whatever the type.
LEMMA ChunkFits ==
    ASSUME WInv, AtBlock, Data.mode # "Variable"
    PROVE  /\ PayloadLength + CrcSize(builder) <= MaxPayload[Def.size_of_length_value]
           /\ MaxSamples \in Nat \ {0}
  <1>. DEFINE w == Def.size_of_length_value
              crc == CrcSize(builder)
              p == PerSample
              room == MaxPayload[w] - crc - Overhead
              fit == room \div p
  <1>1. /\ Ready(Def, Data) /\ at.written \in Nat
        /\ Data.mode \in {"Equidistant", "Timestamped"}
    <2>1. Ready(Def, Data) /\ at \in [channel : Nat, run : Nat \ {0}, written : Nat]
      BY Current DEF AtBlock
    <2>2. Data.mode # "Empty"
      <3>. SUFFICES ASSUME Data.mode = "Empty" PROVE FALSE
        OBVIOUS
      <3>1. Runs(Data) = <<>>
        BY DEF Runs
      <3>. QED  BY <3>1 DEF AtBlock
    <2>. QED  BY <2>1, <2>2 DEF Ready
  <1>2. MaxPayload[w] \in Nat /\ 41 <= MaxPayload[w] /\ crc \in {0, 4}
    BY <1>1, LimitAssumption, CrcSizes DEF Ready
  <1>3. /\ Overhead \in {5, 21} /\ p \in {1, 2, 4, 8, 24, 9, 10, 12, 16, 32}
        /\ Overhead + p <= 37
    <2>1. CASE Data.mode = "Equidistant"
      <3>1. Def.data_type \in {"float", "double"}
        BY <1>1, <2>1 DEF Ready, EquidistantTypes
      <3>2. FixedSize[Def.data_type] \in {4, 8}
        BY <3>1 DEF FixedSize
      <3>3. Kind \in {"StartData", "ContinuedData"}
        BY <2>1 DEF Kind
      <3>. QED  BY <3>2, <3>3 DEF Overhead, PerSample
    <2>2. CASE Data.mode = "Timestamped"
      <3>1. FixedSize[Def.data_type] \in {1, 2, 4, 8, 24}
        BY <1>1, <2>2 DEF Ready, FixedSize
      <3>2. Kind = "AbsTimestampData"
        BY <2>2 DEF Kind
      <3>. QED  BY <3>1, <3>2 DEF Overhead, PerSample
    <2>. QED  BY <1>1, <2>1, <2>2
  <1>4. MaxSamples = IF fit > 1 THEN fit ELSE 1
    BY DEF MaxSamples
  <1>5. /\ PayloadLength = 1 + (IF Kind = "StartData" THEN 16 ELSE 0)
                             + (IF Multi THEN 4 ELSE 0) + Chunk * p
        /\ Overhead = IF Kind = "StartData" THEN 21 ELSE 5
    BY DEF PayloadLength, Overhead
  <1>6. Chunk = IF Left < MaxSamples THEN Left ELSE MaxSamples
    BY DEF Chunk
  <1>7. Left \in Int
    BY <1>1, RunLength DEF Left
  <1>. HIDE DEF p, crc, w
  <1>8. room \in Nat /\ room >= p
    BY <1>2, <1>3
  <1>. HIDE DEF room
  <1>9. fit \in Nat /\ fit >= 1 /\ fit * p <= room
    BY <1>3, <1>8
  <1>. HIDE DEF fit
  <1>10. Chunk \in Int /\ Chunk <= fit /\ MaxSamples \in Nat \ {0}
    BY <1>4, <1>6, <1>7, <1>9
  <1>11. Chunk * p <= fit * p /\ Chunk * p \in Int /\ fit * p \in Int
    BY <1>3, <1>9, <1>10
  <1>12. Chunk * p <= room
    BY <1>8, <1>9, <1>11
  <1>13. PayloadLength <= Overhead + Chunk * p /\ PayloadLength \in Int
    BY <1>3, <1>5, <1>11
  <1>14. room = MaxPayload[w] - crc - Overhead
    BY DEF room
  <1>15. PayloadLength + crc <= MaxPayload[w]
    BY <1>2, <1>3, <1>11, <1>12, <1>13, <1>14
  <1>. QED  BY <1>10, <1>15 DEF crc, w

\* A sample of variable length is a block of its own.
LEMMA VariableChunk ==
    ASSUME WInv, AtBlock, Data.mode = "Variable"
    PROVE  /\ Chunk = 1 /\ Left \in Nat \ {0} /\ at.run = 1
           /\ at.written + 1 \in DOMAIN Data.sizes
           /\ PayloadLength = 9 + Data.sizes[at.written + 1]
           /\ Data.timestamps_ns # <<>>
  <1>1. /\ Ready(Def, Data) /\ at \in [channel : Nat, run : Nat \ {0}, written : Nat]
        /\ at.run = 1 /\ Data.timestamps_ns # <<>>
        /\ Run.values = Data.values /\ Run.sizes = Data.sizes
    BY Current, VariableRun DEF AtBlock
  <1>2. at.written \in Nat /\ at.written < Len(Data.values)
    BY <1>1 DEF WInv, AtBlock, Placed
  <1>3. Len(Data.values) \in Nat /\ Len(Data.sizes) = Len(Data.values) /\ Data.sizes \in Seq(Nat)
    BY <1>1, RunLength DEF Ready
  <1>4. at.written + 1 \in DOMAIN Data.sizes /\ Data.sizes[at.written + 1] \in Nat
    BY <1>2, <1>3
  <1>5. Left \in Nat \ {0}
    BY <1>1, <1>2, <1>3 DEF Left
  <1>6. Chunk = 1
    BY <1>5 DEF Chunk, MaxSamples
  <1>7. Kind = "AbsTimestampData" /\ ~Multi
    BY DEF Kind, Multi
  <1>8. PayloadLength = 1 + 0 + 0 + (8 + Data.sizes[at.written + 1])
    BY <1>1, <1>7 DEF PayloadLength
  <1>. QED  BY <1>1, <1>4, <1>5, <1>6, <1>8

LEMMA BlockFits ==
    ASSUME WInv, AtBlock
    PROVE  Sized /\ Fits
  <1>1. Ready(Def, Data)
    BY Current DEF AtBlock
  <1>2. /\ Block.size_of_length_value = Def.size_of_length_value
        /\ Block.length = PayloadLength + CrcSize(builder)
    BY DEF Block
  <1>3. CASE Data.mode = "Variable"
    <2>1. Sized
      BY <1>3 DEF Sized
    <2>2. ASSUME Def.size_of_length_value = 2
          PROVE  PayloadLength + CrcSize(builder) <= MaxPayload[2]
      <3>1. CrcSize(builder) + 9 + Data.sizes[at.written + 1] <= MaxPayload[2]
        BY <1>3, <2>2, Current, VariableChunk DEF AtBlock
      <3>2. Data.sizes[at.written + 1] \in Nat
        BY <1>1, <1>3, VariableChunk DEF Ready
      <3>3. PayloadLength = 9 + Data.sizes[at.written + 1]
        BY <1>3, VariableChunk
      <3>4. CrcSize(builder) \in Nat /\ MaxPayload[2] \in Nat
        BY LimitAssumption, CrcSizes DEF Widths
      <3>. QED  BY <3>1, <3>2, <3>3, <3>4
    <2>. QED  BY <1>2, <2>1, <2>2 DEF Fits
  <1>4. CASE Data.mode # "Variable"
    <2>1. Fits
      BY <1>2, <1>4, ChunkFits DEF Fits
    <2>2. Data.mode # "Empty"
      <3>. SUFFICES ASSUME Data.mode = "Empty" PROVE FALSE
        OBVIOUS
      <3>1. Runs(Data) = <<>>
        BY DEF Runs
      <3>. QED  BY <3>1 DEF AtBlock
    <2>3. Sized
      BY <1>1, <1>4, <2>2 DEF Ready, Sized, EquidistantTypes, FixedSize
    <2>. QED  BY <2>1, <2>3
  <1>. QED  BY <1>3, <1>4

---------------------------------------------------------------------------
(* The steps. *)

\* What is next to write is inside the channel.
LEMMA PlacedNext ==
    ASSUME WInv, phase = "blocks", UNCHANGED builder,
           \/ /\ AtBlock
              /\ at' = IF Left > Chunk THEN [at EXCEPT !.written = @ + Chunk]
                                       ELSE [at EXCEPT !.run = @ + 1, !.written = 0]
           \/ /\ InChannel
              /\ at' = [channel |-> at.channel + 1, run |-> 1, written |-> 0]
    PROVE  Placed'
  <1>1. /\ at \in [channel : Nat, run : Nat \ {0}, written : Nat]
        /\ Prepared(builder)
    BY DEF WInv, Placed
  <1>2. at.channel \in Nat /\ at.run \in Nat \ {0} /\ at.written \in Nat
    BY <1>1
  <1>3. builder' = builder
    OBVIOUS
  <1>4. CASE AtBlock /\ Left > Chunk /\ at' = [at EXCEPT !.written = @ + Chunk]
    <2>1. Left \in Int
      BY <1>2, <1>4, RunLength DEF Left
    <2>2. MaxSamples \in Nat \ {0}
      <3>1. CASE Data.mode = "Variable"
        BY <3>1 DEF MaxSamples
      <3>2. CASE Data.mode # "Variable"
        BY <3>2, <1>4, ChunkFits
      <3>. QED  BY <3>1, <3>2
    <2>3. Chunk \in Nat
      BY <2>1, <2>2, <1>4 DEF Chunk
    <2>4. /\ at' \in [channel : Nat, run : Nat \ {0}, written : Nat]
          /\ at'.channel = at.channel /\ at'.written = at.written + Chunk
      BY <2>3, <1>1, <1>2, <1>4
    <2>5. Data' = Data /\ InChannel'
      BY <2>4, <1>3, <1>4 DEF Data, InChannel, AtBlock
    <2>6. ASSUME Data.mode = "Variable"
          PROVE  at.written + Chunk < Len(Data.values)
      <3>1. Chunk = 1 /\ Run.values = Data.values
        BY <2>6, <1>4, VariableChunk, VariableRun DEF AtBlock
      <3>2. Left = Len(Data.values) - at.written /\ Len(Data.values) \in Nat
        BY <3>1, <1>4, RunLength DEF Left
      <3>. QED  BY <3>1, <3>2, <1>2, <1>4
    <2>. QED  BY <2>4, <2>5, <2>6, <1>3 DEF Placed
  <1>5. CASE at' = [at EXCEPT !.run = @ + 1, !.written = 0]
    <2>1. at' = [channel |-> at.channel, run |-> at.run + 1, written |-> 0]
      BY <1>1, <1>5
    <2>2. at.run + 1 \in Nat \ {0, 1}
      BY <1>2
    <2>3. at' \in [channel : Nat, run : Nat \ {0}, written : Nat] /\ at'.run # 1
      BY <2>1, <2>2, <1>2
    <2>. QED  BY <2>3, <1>3 DEF Placed
  <1>6. CASE at' = [channel |-> at.channel + 1, run |-> 1, written |-> 0]
    <2>1. /\ at' \in [channel : Nat, run : Nat \ {0}, written : Nat]
          /\ at'.channel = at.channel + 1 /\ at'.written = 0
      BY <1>2, <1>6
    <2>. DEFINE d == builder.channel_data[at.channel + 2]
    <2>2. Data' = d
      <3>1. (at.channel + 1) + 1 = at.channel + 2
        BY <1>2
      <3>. QED  BY <3>1, <2>1, <1>3 DEF Data
    <2>3. ASSUME InChannel', d.mode = "Variable", d.timestamps_ns # <<>>
          PROVE  0 < Len(d.values)
      <3>1. Len(builder.channels) \in Nat /\ at.channel + 1 < Len(builder.channels)
        BY <2>1, <2>3, <1>1, <1>3 DEF InChannel, Prepared
      <3>2. at.channel + 2 \in 1..Len(builder.channels)
        BY <3>1, <1>2
      <3>3. Ready(builder.channels[at.channel + 2], d)
        BY <3>2, <1>1 DEF Prepared
      <3>. HIDE DEF d
      <3>4. IsSequence(d.timestamps_ns) /\ Len(d.timestamps_ns) = Len(d.values)
        BY <3>3, <2>3 DEF Ready
      <3>5. Len(d.timestamps_ns) \in Nat /\ Len(d.timestamps_ns) # 0
        BY <3>4, <2>3 DEF IsSequence
      <3>. QED  BY <3>4, <3>5
    <2>. QED  BY <2>1, <2>2, <2>3, <1>3 DEF Placed
  <1>. QED  BY <1>4, <1>5, <1>6

LEMMA WriteToFileStep ==
    ASSUME WInv, write_to_file
    PROVE  WInv'
  <1>1. Prepared(builder) /\ at = Nowhere /\ at' = at /\ phase = "building"
    BY DEF WInv, write_to_file
  <1>2. CASE /\ builder.channels = <<>> /\ Fails("WriterEmpty") /\ UNCHANGED builder
    BY <1>1, <1>2 DEF WInv, Fails, OnlyIoFails
  <1>3. CASE /\ builder.integrity = "ed25519" /\ Fails("InvalidBlock") /\ UNCHANGED builder
    BY <1>1, <1>3 DEF WInv, Fails, OnlyIoFails
  <1>4. CASE /\ builder.integrity # "ed25519" /\ phase' = "header"
             /\ builder' = [builder EXCEPT !.channels = autobump(builder)]
    <2>1. Prepared(builder') /\ Wide(builder')
      BY <1>1, <1>4, Widened
    <2>2. Placed'
      <3>1. \A i \in 1..Len(builder'.channels) :
               Ready(builder'.channels[i], builder'.channel_data[i])
        BY <2>1 DEF Prepared
      <3>2. at' = Nowhere /\ Nowhere \in [channel : Nat, run : Nat \ {0}, written : Nat]
        BY <1>1 DEF Nowhere
      <3>3. ASSUME InChannel', Data'.mode = "Variable", Data'.timestamps_ns # <<>>
            PROVE  0 < Len(Data'.values)
        <4>1. Len(builder'.channels) \in Nat
          BY <2>1 DEF Prepared
        <4>2. 1 \in 1..Len(builder'.channels) /\ Data' = builder'.channel_data[1]
          BY <4>1, <3>2, <3>3 DEF InChannel, Data, Nowhere
        <4>3. Ready(builder'.channels[1], Data')
          BY <4>2, <3>1
        <4>4. IsSequence(Data'.timestamps_ns) /\ Len(Data'.timestamps_ns) = Len(Data'.values)
          BY <4>3, <3>3 DEF Ready
        <4>5. Len(Data'.timestamps_ns) \in Nat /\ Len(Data'.timestamps_ns) # 0
          BY <4>4, <3>3 DEF IsSequence
        <4>. QED  BY <4>4, <4>5
      <3>4. at'.written = 0
        BY <3>2 DEF Nowhere
      <3>. QED  BY <3>2, <3>3, <3>4 DEF Placed
    <2>3. OnlyIoFails'
      BY <1>4 DEF OnlyIoFails
    <2>. QED  BY <2>1, <2>2, <2>3, <1>4 DEF WInv
  <1>. QED  BY <1>2, <1>3, <1>4 DEF write_to_file

LEMMA WriterStep ==
    ASSUME WInv, [Next]_vars
    PROVE  WInv'
  <1>1. CASE Building
    <2>1. /\ phase = "building" /\ UNCHANGED <<phase, result, at>>
          /\ Prepared(builder')
      BY <1>1, BuildingKeeps
         DEF Building, with_integrity, add_channel, add_equidistant_segment,
             add_timestamped_samples, add_variable_samples, output, WInv
    <2>. QED  BY <2>1 DEF WInv, OnlyIoFails
  <1>2. CASE write_to_file
    BY <1>2, WriteToFileStep
  <1>3. CASE CreateFails \/ IoFails
    BY <1>3 DEF CreateFails, IoFails, Fails, output, WInv, OnlyIoFails
  <1>4. CASE WriteHeader
    BY <1>4 DEF WriteHeader, WInv, OnlyIoFails, Placed, InChannel, Data
  <1>5. CASE WriteBlock
    <2>1. /\ phase = "blocks" /\ UNCHANGED <<builder, phase, result>>
          /\ AtBlock
          /\ at' = IF Left > Chunk THEN [at EXCEPT !.written = @ + Chunk]
                                   ELSE [at EXCEPT !.run = @ + 1, !.written = 0]
      BY <1>5, BlockFits DEF WriteBlock, AtBlock
    <2>2. Placed'
      BY <2>1, PlacedNext
    <2>. QED  BY <2>1, <2>2 DEF WInv, OnlyIoFails
  <1>6. CASE NextChannel
    <2>1. Placed'
      BY <1>6, PlacedNext DEF NextChannel
    <2>. QED  BY <2>1, <1>6 DEF NextChannel, WInv, OnlyIoFails
  <1>7. CASE Flush
    BY <1>7 DEF Flush, output, WInv, OnlyIoFails
  <1>8. CASE UNCHANGED vars
    BY <1>8 DEF vars, output, WInv, OnlyIoFails, Placed, InChannel, Data
  <1>. QED  BY <1>1, <1>2, <1>3, <1>4, <1>5, <1>6, <1>7, <1>8 DEF Next, Writing

LEMMA WriterInit == Init => WInv
  <1>. SUFFICES ASSUME Init
                PROVE  WInv
    OBVIOUS
  <1>1. /\ IsWriter(NewBuilder) /\ NewBuilder.channels = <<>>
        /\ NewBuilder.channel_data = <<>>
    BY DEF NewBuilder, IsWriter, WriterFields
  <1>2. Prepared(NewBuilder)
    <2>1. <<>> \in Seq(ChannelDef) /\ Len(<<>>) = 0
      OBVIOUS
    <2>. QED  BY <1>1, <2>1, EmptySequence DEF Prepared
  <1>. QED  BY <1>2 DEF Init, WInv, OnlyIoFails

\* No file that the builder accepted is refused when it is written, for all channels,
\* counts, lengths and limits: every chunk fits its length field with the frame CRC,
\* and what cannot be split was widened before.
THEOREM AcceptedIsWritten == Spec => []OnlyIoFails
  <1>1. Init => WInv
    BY WriterInit
  <1>2. WInv /\ [Next]_vars => WInv'
    BY WriterStep
  <1>3. WInv => OnlyIoFails
    BY DEF WInv
  <1>. QED  BY <1>1, <1>2, <1>3, PTL DEF Spec

---------------------------------------------------------------------------
(* The frames. *)

\* Where the next block begins is inside the samples.
Inside == AtBlock => at.written <= Len(Run.values)

\* The file holds the metablock of the builder, or none and then no block of ours.
HeaderKept ==
    /\ header = NoHeader \/ header = builder.channels
    /\ phase = "building" => header = NoHeader
    /\ phase = "header" => header = NoHeader /\ file = <<>> /\ at = Nowhere
    /\ phase = "blocks" => header = builder.channels

FrameOf(b) ==
    /\ b.channel_index < Len(header)
    /\ b.size_of_length_value = header[b.channel_index + 1].size_of_length_value
    /\ b.size_of_length_value = 2 => b.length <= MaxPayload[2]
    /\ ~b.multi => Len(b.values) = 1
    /\ header[b.channel_index + 1].data_type \in DOMAIN FixedSize =>
          b.length = ReaderLength(b) + CrcSize(builder)

FInv ==
    /\ WInv
    /\ Inside
    /\ HeaderKept
    /\ IsSequence(file)
    /\ Framed

LEMMA FramedIs == Framed <=> (header # NoHeader => \A k \in DOMAIN file : FrameOf(file[k]))
  BY DEF Framed, FrameOf

\* A block has as many samples as its chunk.
LEMMA PartLength ==
    ASSUME WInv, Inside, AtBlock
    PROVE  /\ Chunk \in Nat /\ Chunk <= Left /\ MaxSamples \in Nat \ {0}
           /\ Len(Part(Run.values)) = Chunk
           /\ Left = Len(Run.values) - at.written /\ at.written \in Nat
  <1>1. at.written \in Nat /\ at.written <= Len(Run.values)
    <2>1. at \in [channel : Nat, run : Nat \ {0}, written : Nat]
      BY Current DEF AtBlock
    <2>. QED  BY <2>1 DEF Inside
  <1>2. PICK U : Run.values \in Seq(U)
    BY RunLength DEF IsSequence
  <1>3. MaxSamples \in Nat \ {0}
    <2>1. CASE Data.mode = "Variable"
      BY <2>1 DEF MaxSamples
    <2>2. CASE Data.mode # "Variable"
      BY <2>2, ChunkFits
    <2>. QED  BY <2>1, <2>2
  <1>4. Left \in Nat /\ Left = Len(Run.values) - at.written
    BY <1>1, <1>2 DEF Left
  <1>5. Chunk \in Nat /\ Chunk <= Left
    BY <1>3, <1>4 DEF Chunk
  <1>6. Len(Part(Run.values)) = Chunk
    <2>. DEFINE s == Run.values
                m == at.written
                n == Chunk
    <2>1. s \in Seq(U) /\ m \in Nat /\ n \in Nat /\ m + n <= Len(s)
      BY <1>1, <1>2, <1>4, <1>5
    <2>2. Part(s) = SubSeq(s, m + 1, m + n)
      BY DEF Part
    <2>. HIDE DEF s, m, n
    <2>3. Len(SubSeq(s, m + 1, m + n)) = n
      BY <2>1
    <2>. QED  BY <2>2, <2>3 DEF n, s
  <1>. QED  BY <1>1, <1>3, <1>4, <1>5, <1>6

LEMMA BlockFramed ==
    ASSUME WInv, Inside, AtBlock, header = builder.channels
    PROVE  FrameOf(Block)
  <1>1. /\ at.channel + 1 \in 1..Len(builder.channels) /\ Ready(Def, Data)
        /\ at.channel < Len(builder.channels)
        /\ header[at.channel + 1] = Def
    BY Current DEF AtBlock, InChannel, Def
  <1>2. /\ Block.channel_index = at.channel /\ Block.kind = Kind /\ Block.multi = Multi
        /\ Block.size_of_length_value = Def.size_of_length_value
        /\ Block.length = PayloadLength + CrcSize(builder)
        /\ Block.values = Part(Run.values)
    BY DEF Block
  <1>3. Block.size_of_length_value = 2 => Block.length <= MaxPayload[2]
    BY BlockFits DEF Fits
  <1>4. Data.mode \in {"Equidistant", "Timestamped", "Variable"}
    <2>1. ASSUME Data.mode = "Empty" PROVE FALSE
      <3>1. Runs(Data) = <<>>
        BY <2>1 DEF Runs
      <3>. QED  BY <3>1 DEF AtBlock
    <2>. QED  BY <2>1, <1>1 DEF Ready
  <1>5. ASSUME ~Multi PROVE Chunk = 1
    <2>1. CASE Data.mode = "Equidistant"
      BY <1>5, <2>1 DEF Multi
    <2>2. CASE Data.mode = "Timestamped"
      BY <1>5, <2>2 DEF Multi
    <2>3. CASE Data.mode = "Variable"
      BY <2>3, VariableChunk
    <2>. QED  BY <1>4, <2>1, <2>2, <2>3
  <1>6. Len(Block.values) = Chunk /\ Chunk \in Nat
    BY <1>2, PartLength
  <1>7. ASSUME Def.data_type \in DOMAIN FixedSize
        PROVE  PayloadLength = ReaderLength(Block)
    <2>. DEFINE p == PerSample
                rate == IF Kind = "StartData" THEN 16 ELSE 0
                count == IF Multi THEN 4 ELSE 0
    <2>1. Data.mode # "Variable"
      BY <1>1, <1>7 DEF Ready, VariableTypes, FixedSize
    <2>2. PayloadLength = 1 + rate + count + Chunk * p
      BY <2>1 DEF PayloadLength
    <2>3. ReaderLength(Block) = 1 + rate + count + Len(Block.values) * p
      BY <1>1, <1>2 DEF ReaderLength, PerSample
    <2>. QED  BY <2>2, <2>3, <1>6
  <1>8. header[Block.channel_index + 1].data_type \in DOMAIN FixedSize =>
           Block.length = ReaderLength(Block) + CrcSize(builder)
    BY <1>1, <1>2, <1>7
  <1>. QED  BY <1>1, <1>2, <1>3, <1>5, <1>6, <1>8 DEF FrameOf

\* A block that begins anew is inside.
LEMMA FromTheStart == WInv /\ at.written = 0 => Inside
  <1>. SUFFICES ASSUME WInv, at.written = 0, AtBlock
                PROVE  at.written <= Len(Run.values)
    BY DEF Inside
  <1>. QED  BY RunLength

LEMMA InsideStep ==
    ASSUME WInv, WInv', Inside, HeaderKept, [Next]_vars
    PROVE  Inside'
  <1>1. (WInv /\ at.written = 0 => Inside)'
    BY FromTheStart, PTL
  <1>2. CASE phase' # "blocks"
    BY <1>2 DEF Inside, AtBlock
  <1>3. CASE WriteHeader
    <2>1. at'.written = 0
      BY <1>3 DEF WriteHeader, HeaderKept, Nowhere
    <2>. QED  BY <1>1, <2>1
  <1>4. CASE NextChannel
    <2>1. at'.written = 0
      BY <1>4 DEF NextChannel
    <2>. QED  BY <1>1, <2>1
  <1>5. CASE WriteBlock
    <2>1. /\ AtBlock /\ UNCHANGED builder
          /\ at' = IF Left > Chunk THEN [at EXCEPT !.written = @ + Chunk]
                                   ELSE [at EXCEPT !.run = @ + 1, !.written = 0]
      BY <1>5, BlockFits DEF WriteBlock, AtBlock
    <2>2. at \in [channel : Nat, run : Nat \ {0}, written : Nat]
      BY <2>1, Current DEF AtBlock
    <2>3. CASE Left > Chunk
      <3>1. at'.channel = at.channel /\ at'.run = at.run /\ at'.written = at.written + Chunk
        BY <2>1, <2>2, <2>3
      <3>2. Run' = Run
        BY <3>1, <2>1 DEF Run, Data
      <3>3. at.written + Chunk <= Len(Run.values)
        <4>1. /\ Chunk \in Nat /\ Left = Len(Run.values) - at.written
              /\ at.written \in Nat
          BY <2>1, PartLength
        <4>2. Len(Run.values) \in Nat
          BY <2>1, RunLength
        <4>. QED  BY <4>1, <4>2, <2>3
      <3>. QED  BY <3>1, <3>2, <3>3 DEF Inside
    <2>4. CASE ~(Left > Chunk)
      <3>1. at'.written = 0
        BY <2>1, <2>2, <2>4
      <3>. QED  BY <1>1, <3>1
    <2>. QED  BY <2>3, <2>4
  <1>6. CASE UNCHANGED vars
    BY <1>6 DEF vars, output, Inside, AtBlock, InChannel, Run, Data
  <1>7. CASE Building \/ CreateFails \/ write_to_file \/ Flush \/ IoFails
    <2>1. phase' # "blocks"
      BY <1>7 DEF Building, with_integrity, add_channel, add_equidistant_segment,
                  add_timestamped_samples, add_variable_samples, CreateFails, write_to_file,
                  Flush, IoFails, Fails
    <2>. QED  BY <1>2, <2>1
  <1>. QED  BY <1>3, <1>4, <1>5, <1>6, <1>7 DEF Next, Writing

LEMMA HeaderStep ==
    ASSUME WInv, HeaderKept, [Next]_vars
    PROVE  HeaderKept'
  <1>1. CASE Building
    BY <1>1 DEF Building, with_integrity, add_channel, add_equidistant_segment,
                add_timestamped_samples, add_variable_samples, output, HeaderKept
  <1>2. CASE write_to_file
    BY <1>2 DEF write_to_file, Create, Fails, HeaderKept, WInv
  <1>3. CASE CreateFails
    BY <1>3 DEF CreateFails, Fails, output, HeaderKept
  <1>4. CASE WriteHeader
    BY <1>4 DEF WriteHeader, HeaderKept
  <1>5. CASE WriteBlock
    <2>1. /\ phase = "blocks" /\ UNCHANGED <<builder, phase, header>>
      BY <1>5, BlockFits DEF WriteBlock, AtBlock
    <2>. QED  BY <2>1 DEF HeaderKept
  <1>6. CASE NextChannel \/ Flush
    BY <1>6 DEF NextChannel, Flush, output, HeaderKept
  <1>7. CASE IoFails
    BY <1>7 DEF IoFails, Fails, HeaderKept
  <1>8. CASE UNCHANGED vars
    BY <1>8 DEF vars, output, HeaderKept
  <1>. QED  BY <1>1, <1>2, <1>3, <1>4, <1>5, <1>6, <1>7, <1>8 DEF Next, Writing

\* What a frame should be rests on the metablock and the profile.
LEMMA FramesStay ==
    ASSUME UNCHANGED builder, UNCHANGED header,
           header # NoHeader => \A i \in DOMAIN file' : FrameOf(file'[i])
    PROVE  Framed'
  <1>1. ASSUME header' # NoHeader, NEW i \in DOMAIN file'
        PROVE  FrameOf(file[i])'
    <2>. DEFINE b == file'[i]
    <2>1. FrameOf(b)
      BY <1>1
    <2>2. ReaderLength(file[i])' = ReaderLength(b) /\ CrcSize(builder)' = CrcSize(builder)
      BY DEF ReaderLength, CrcSize
    <2>3. /\ b.channel_index < Len(header')
          /\ b.size_of_length_value = header'[b.channel_index + 1].size_of_length_value
          /\ b.size_of_length_value = 2 => b.length <= MaxPayload[2]
          /\ ~b.multi => Len(b.values) = 1
      BY <2>1 DEF FrameOf
    <2>4. header'[b.channel_index + 1].data_type \in DOMAIN FixedSize =>
             b.length = ReaderLength(b) + CrcSize(builder)
      BY <2>1 DEF FrameOf
    <2>. QED  BY <2>2, <2>3, <2>4 DEF FrameOf
  <1>. QED  BY <1>1 DEF FrameOf, Framed

\* The file stays as framed as it is while it only loses blocks.
LEMMA Truncated ==
    ASSUME IsSequence(file), Framed, UNCHANGED builder, UNCHANGED header,
           NEW k \in 0..Len(file), file' = SubSeq(file, 1, k)
    PROVE  IsSequence(file') /\ Framed'
  <1>1. PICK U : file \in Seq(U)
    BY DEF IsSequence
  <1>2. /\ file' \in Seq(U) /\ DOMAIN file' = 1..k
        /\ \A i \in 1..k : file'[i] = file[i] /\ i \in DOMAIN file
    BY <1>1
  <1>3. header # NoHeader => \A i \in DOMAIN file' : FrameOf(file'[i])
    BY <1>2, FramedIs
  <1>4. Framed'
    BY <1>3, FramesStay
  <1>. QED  BY <1>2, <1>4 DEF IsSequence

LEMMA BlockAdded ==
    ASSUME FInv, AtBlock, UNCHANGED builder, UNCHANGED header, file' = Append(file, Block)
    PROVE  IsSequence(file') /\ Framed'
  <1>1. FrameOf(Block) /\ IsSequence(file) /\ header = builder.channels
    BY BlockFramed DEF FInv, HeaderKept, AtBlock
  <1>2. /\ IsSequence(file') /\ DOMAIN file = 1..Len(file) /\ DOMAIN file' = 1..(Len(file) + 1)
        /\ Len(file) \in Nat /\ file'[Len(file) + 1] = Block
        /\ \A i \in 1..Len(file) : file'[i] = file[i]
    BY <1>1, Appended
  <1>3. ASSUME header # NoHeader, NEW i \in 1..(Len(file) + 1)
        PROVE  FrameOf(file'[i])
    <2>1. CASE i = Len(file) + 1
      BY <1>1, <1>2, <2>1
    <2>2. CASE i \in 1..Len(file)
      BY <1>2, <1>3, <2>2, FramedIs DEF FInv
    <2>. QED  BY <1>2, <2>1, <2>2
  <1>4. header # NoHeader => \A i \in DOMAIN file' : FrameOf(file'[i])
    BY <1>2, <1>3
  <1>5. Framed'
    BY <1>4, FramesStay
  <1>. QED  BY <1>2, <1>5

LEMMA FrameStep ==
    ASSUME FInv, [Next]_vars
    PROVE  FInv'
  <1>1. WInv' /\ Inside' /\ HeaderKept'
    BY WriterStep, InsideStep, HeaderStep DEF FInv
  <1>2. IsSequence(file') /\ Framed'
    <2>1. CASE Building
      <3>1. UNCHANGED file /\ header' = NoHeader
        BY <2>1 DEF Building, with_integrity, add_channel, add_equidistant_segment,
                    add_timestamped_samples, add_variable_samples, output, FInv, HeaderKept
      <3>. QED  BY <3>1 DEF FInv, Framed
    <2>2. CASE write_to_file
      BY <2>2, EmptySequence DEF write_to_file, Create, Framed
    <2>3. CASE CreateFails \/ Flush \/ NextChannel \/ UNCHANGED vars
      <3>1. UNCHANGED <<builder, header, file>>
        BY <2>3 DEF CreateFails, Flush, NextChannel, vars, output
      <3>. QED  BY <3>1 DEF FInv, Framed, ReaderLength, CrcSize
    <2>4. CASE WriteHeader
      <3>1. file' = <<>>
        BY <2>4 DEF WriteHeader, FInv, HeaderKept
      <3>. QED  BY <3>1, EmptySequence DEF Framed
    <2>5. CASE WriteBlock
      <3>1. AtBlock /\ file' = Append(file, Block) /\ UNCHANGED <<builder, header>>
        BY <2>5, BlockFits DEF WriteBlock, FInv
      <3>. QED  BY <3>1, BlockAdded
    <2>6. CASE IoFails
      <3>1. CASE header' = NoHeader /\ file' = <<>>
        BY <3>1, EmptySequence DEF Framed
      <3>2. CASE UNCHANGED header /\ \E k \in 0..Len(file) : file' = SubSeq(file, 1, k)
        <4>1. UNCHANGED builder
          BY <2>6 DEF IoFails
        <4>. QED  BY <3>2, <4>1, Truncated DEF FInv
      <3>. QED  BY <2>6, <3>1, <3>2 DEF IoFails
    <2>. QED  BY <2>1, <2>2, <2>3, <2>4, <2>5, <2>6 DEF Next, Writing
  <1>. QED  BY <1>1, <1>2 DEF FInv

LEMMA FramedInit == Init => FInv
  <1>. SUFFICES ASSUME Init
                PROVE  FInv
    OBVIOUS
  <1>1. WInv
    BY WriterInit
  <1>2. IsSequence(file)
    <2>1. <<OldBlock>> \in Seq({OldBlock})
      OBVIOUS
    <2>. QED  BY <2>1, EmptySequence DEF Init, IsSequence
  <1>3. Inside /\ HeaderKept /\ Framed
    BY DEF Init, Inside, AtBlock, HeaderKept, Framed
  <1>. QED  BY <1>1, <1>2, <1>3 DEF FInv

\* Whatever is written or left behind by a failed write, each block in the file is
\* framed as the metablock in front of it says, for all channels, counts and limits:
\* the length field has the declared width and counts what a reader expects.
THEOREM AlwaysFramed == Spec => []Framed
  <1>1. Init => FInv
    BY FramedInit
  <1>2. FInv /\ [Next]_vars => FInv'
    BY FrameStep
  <1>3. FInv => Framed
    BY DEF FInv
  <1>. QED  BY <1>1, <1>2, <1>3, PTL DEF Spec

---------------------------------------------------------------------------
(* The types. *)

At == [channel : Nat, run : Nat \ {0}, written : Nat]

\* What a channel stores is of the types, and parallel.
Filled(d) ==
    /\ d \in StoreType
    /\ Len(d.timestamps_ns) = Len(d.values)
    /\ Len(d.sizes) = IF d.mode = "Variable" THEN Len(d.values) ELSE 0

Stores(b) ==
    /\ b.channel_data \in Seq(StoreType)
    /\ \A i \in 1..Len(b.channel_data) : Filled(b.channel_data[i])
    /\ b.integrity \in Profiles \cup {"none"}

TInv ==
    /\ FInv
    /\ Stores(builder)
    /\ IsSequence(told)
    /\ phase \in {"building", "header", "blocks", "written", "failed"}
    /\ result \in {"none", "Io", "WriterEmpty", "InvalidBlock"}
    /\ at \in At
    /\ file \in Seq(BlockType)
    /\ torn \in BOOLEAN

LEMMA TypesFollow ==
    ASSUME TInv
    PROVE  TypeOK
  <1>1. /\ builder.channels \in Seq(ChannelDef) /\ Len(builder.channels) = Len(builder.channel_data)
        /\ DOMAIN builder.channels = 1..Len(builder.channels)
        /\ \A i \in 1..Len(builder.channels) :
              Ready(builder.channels[i], builder.channel_data[i])
    BY DEF TInv, FInv, WInv, Prepared
  <1>2. builder.channel_data \in Seq(StoreType) /\ builder.integrity \in Profiles \cup {"none"}
    BY DEF TInv, Stores
  <1>3. ASSUME NEW i \in DOMAIN builder.channels
        PROVE  LET c == builder.channels[i]
                   d == builder.channel_data[i]
               IN  /\ c.data_type \in WritableTypes /\ c.size_of_length_value \in Widths
                   /\ d.mode = "Equidistant" => c.data_type \in EquidistantTypes
                   /\ d.mode = "Timestamped" => c.data_type \in DOMAIN FixedSize
                   /\ d.mode = "Variable" => c.data_type \in VariableTypes
                   /\ Len(d.timestamps_ns) = Len(d.values)
                   /\ Len(d.sizes) = IF d.mode = "Variable" THEN Len(d.values) ELSE 0
    <2>1. Ready(builder.channels[i], builder.channel_data[i])
      BY <1>1, <1>3
    <2>2. Filled(builder.channel_data[i])
      BY <1>1, <1>3 DEF TInv, Stores
    <2>. QED  BY <2>1, <2>2 DEF Ready, Filled
  <1>4. header \in Seq(ChannelDef)
    <2>1. <<>> \in Seq(ChannelDef)
      OBVIOUS
    <2>. QED  BY <1>1, <2>1 DEF TInv, FInv, HeaderKept, NoHeader
  <1>. QED  BY <1>1, <1>2, <1>3, <1>4 DEF TInv, At, TypeOK

LEMMA Joined ==
    ASSUME NEW U, NEW s \in Seq(U), NEW t \in Seq(U)
    PROVE  s \o t \in Seq(U) /\ Len(s \o t) = Len(s) + Len(t)
  OBVIOUS

\* A channel that is stored to.
LEMMA StoreFilled ==
    ASSUME NEW b, Prepared(b), Stores(b), NEW i \in 1..Len(b.channel_data), NEW d, Filled(d)
    PROVE  Stores([b EXCEPT !.channel_data[i] = d])
  <1>. DEFINE e == [b EXCEPT !.channel_data[i] = d]
  <1>1. /\ e.channel_data = [b.channel_data EXCEPT ![i] = d] /\ e.integrity = b.integrity
    <2>1. IsWriter(b)
      BY DEF Prepared
    <2>. QED  BY <2>1 DEF IsWriter, WriterFields
  <1>. HIDE DEF e
  <1>2. b.channel_data \in Seq(StoreType) /\ d \in StoreType
    BY DEF Stores, Filled
  <1>3. /\ e.channel_data \in Seq(StoreType) /\ Len(e.channel_data) = Len(b.channel_data)
        /\ \A k \in 1..Len(b.channel_data) :
              e.channel_data[k] = IF k = i THEN d ELSE b.channel_data[k]
    <2>. DEFINE U == StoreType
                s == b.channel_data
    <2>1. s \in Seq(U) /\ d \in U /\ i \in 1..Len(s) /\ e.channel_data = [s EXCEPT ![i] = d]
      BY <1>1, <1>2
    <2>. HIDE DEF U, s
    <2>2. /\ e.channel_data \in Seq(U) /\ Len(e.channel_data) = Len(s)
          /\ \A k \in 1..Len(s) : e.channel_data[k] = IF k = i THEN d ELSE s[k]
      BY <2>1
    <2>. QED  BY <2>2 DEF U, s
  <1>4. Stores(e)
    BY <1>1, <1>3 DEF Stores
  <1>. QED  BY <1>4 DEF e

LEMMA ChannelFilled ==
    ASSUME NEW b, Prepared(b), Stores(b), NEW def
    PROVE  Stores(AddChannel(b, def))
  <1>. DEFINE e == AddChannel(b, def)
              n == Len(b.channel_data)
              U == StoreType
  <1>1. e.channel_data = Append(b.channel_data, NoData) /\ e.integrity = b.integrity
    <2>1. IsWriter(b)
      BY DEF Prepared
    <2>. QED  BY <2>1 DEF IsWriter, WriterFields, AddChannel
  <1>. HIDE DEF e
  <1>2. NoData \in StoreType /\ Filled(NoData)
    <2>1. <<>> \in Seq(Int) /\ <<>> \in Seq(Nat) /\ <<>> \in Seq(RunType) /\ Len(<<>>) = 0
      OBVIOUS
    <2>2. NoData \in StoreType
      BY <2>1 DEF NoData, StoreType
    <2>. QED  BY <2>1, <2>2 DEF Filled, NoData
  <1>3. b.channel_data \in Seq(U) /\ NoData \in U
    BY <1>2 DEF Stores
  <1>. HIDE DEF U
  <1>4. /\ e.channel_data \in Seq(U) /\ Len(e.channel_data) = n + 1 /\ n \in Nat
        /\ e.channel_data[n + 1] = NoData
        /\ \A i \in 1..n : e.channel_data[i] = b.channel_data[i]
    BY <1>1, <1>3
  <1>5. ASSUME NEW i \in 1..(n + 1)
        PROVE  Filled(e.channel_data[i])
    <2>1. CASE i = n + 1
      BY <2>1, <1>2, <1>4
    <2>2. CASE i # n + 1
      <3>1. i \in 1..n
        BY <2>2, <1>4
      <3>. QED  BY <3>1, <1>4 DEF Stores
    <2>. QED  BY <2>1, <2>2
  <1>6. Stores(e)
    BY <1>1, <1>4, <1>5 DEF Stores, U
  <1>. QED  BY <1>6 DEF e

\* The calls that add samples.
LEMMA SegmentFilled ==
    ASSUME NEW b, Prepared(b), Stores(b), NEW ch \in Nat, NEW expected,
           NEW start \in Int, NEW period \in Nat,
           SegmentRefusal(b, ch, expected, period) = "none",
           NEW values \in Seq(Nat)
    PROVE  Stores(AddSegment(b, ch, start, period, values))
  <1>. DEFINE d == b.channel_data[ch + 1]
              seg == [start |-> start, period |-> period, times |-> <<>>, values |-> values,
                      sizes |-> <<>>]
              e == [d EXCEPT !.mode = "Equidistant", !.segments = Append(d.segments, seg)]
  <1>1. ch + 1 \in 1..Len(b.channel_data) /\ Mode(b, ch) \notin {"Timestamped", "Variable"}
    <2>1. Declared(b, ch) /\ Len(b.channels) \in Nat /\ Len(b.channel_data) = Len(b.channels)
      BY DEF SegmentRefusal, Prepared
    <2>2. Mode(b, ch) \notin {"Timestamped", "Variable"}
      BY <2>1 DEF SegmentRefusal
    <2>. QED  BY <2>1, <2>2 DEF Declared
  <1>2. Filled(d) /\ d.mode # "Variable"
    BY <1>1 DEF Stores, Mode
  <1>. HIDE DEF d
  <1>3. seg \in RunType
    <2>1. <<>> \in Seq(Int) /\ <<>> \in Seq(Nat)
      OBVIOUS
    <2>. QED  BY <2>1 DEF RunType
  <1>4. Append(d.segments, seg) \in Seq(RunType)
    <2>. DEFINE R == RunType
                s == d.segments
    <2>1. s \in Seq(R) /\ seg \in R
      BY <1>2, <1>3 DEF Filled, StoreType
    <2>. HIDE DEF R, s, seg
    <2>2. Append(s, seg) \in Seq(R)
      BY <2>1
    <2>. QED  BY <2>2 DEF R, s
  <1>. HIDE DEF seg
  <1>5. /\ e.timestamps_ns = d.timestamps_ns /\ e.values = d.values /\ e.sizes = d.sizes
        /\ e.mode = "Equidistant" /\ e \in StoreType
    BY <1>2, <1>4 DEF Filled, StoreType
  <1>6. Filled(e)
    BY <1>2, <1>5 DEF Filled
  <1>7. AddSegment(b, ch, start, period, values) = [b EXCEPT !.channel_data[ch + 1] = e]
    BY DEF AddSegment, e, d, seg
  <1>. HIDE DEF e
  <1>. QED  BY <1>1, <1>6, <1>7, StoreFilled

LEMMA TimestampedFilled ==
    ASSUME NEW b, Prepared(b), Stores(b), NEW ch \in Nat, NEW expected \in DOMAIN FixedSize,
           NEW times \in Seq(Int), NEW values \in Seq(Nat), Len(times) = Len(values),
           NEW stamps, NEW n, StampedRefusal(b, ch, expected, stamps, n) = "none"
    PROVE  Stores(AddTimestamped(b, ch, times, values))
  <1>. DEFINE d == b.channel_data[ch + 1]
              e == [d EXCEPT !.mode = "Timestamped", !.timestamps_ns = d.timestamps_ns \o times,
                             !.values = d.values \o values]
  <1>1. ch + 1 \in 1..Len(b.channel_data) /\ Mode(b, ch) # "Variable"
    <2>1. Declared(b, ch) /\ Len(b.channels) \in Nat /\ Len(b.channel_data) = Len(b.channels)
      BY DEF StampedRefusal, Prepared
    <2>2. Mode(b, ch) \in {"Empty", Family(expected)}
      BY <2>1 DEF StampedRefusal
    <2>. QED  BY <2>1, <2>2 DEF Declared, Family, FixedSize, VariableTypes
  <1>2. Filled(d) /\ d.mode # "Variable"
    BY <1>1 DEF Stores, Mode
  <1>. HIDE DEF d
  <1>3. /\ d.timestamps_ns \in Seq(Int) /\ d.values \in Seq(Nat)
        /\ Len(d.timestamps_ns) = Len(d.values) /\ Len(d.sizes) = 0 /\ d \in StoreType
    BY <1>2 DEF Filled, StoreType
  <1>4. /\ d.timestamps_ns \o times \in Seq(Int) /\ d.values \o values \in Seq(Nat)
        /\ Len(d.timestamps_ns \o times) = Len(d.values \o values)
    <2>1. /\ d.timestamps_ns \o times \in Seq(Int)
          /\ Len(d.timestamps_ns \o times) = Len(d.timestamps_ns) + Len(times)
      BY <1>3, Joined
    <2>2. /\ d.values \o values \in Seq(Nat)
          /\ Len(d.values \o values) = Len(d.values) + Len(values)
      BY <1>3, Joined
    <2>. QED  BY <1>3, <2>1, <2>2
  <1>5. /\ e.timestamps_ns = d.timestamps_ns \o times /\ e.values = d.values \o values
        /\ e.sizes = d.sizes /\ e.mode = "Timestamped" /\ e \in StoreType
    BY <1>3, <1>4 DEF StoreType
  <1>6. Filled(e)
    BY <1>3, <1>4, <1>5 DEF Filled
  <1>7. AddTimestamped(b, ch, times, values) = [b EXCEPT !.channel_data[ch + 1] = e]
    BY DEF AddTimestamped, e, d
  <1>. HIDE DEF e
  <1>. QED  BY <1>1, <1>6, <1>7, StoreFilled

LEMMA VariableFilled ==
    ASSUME NEW b, Prepared(b), Stores(b), NEW ch \in Nat, NEW expected \in VariableTypes,
           NEW times \in Seq(Int), NEW values \in Seq(Nat), NEW sizes \in Seq(Nat),
           Len(times) = Len(values), Len(sizes) = Len(values),
           NEW stamps, NEW n, StampedRefusal(b, ch, expected, stamps, n) = "none"
    PROVE  Stores(AddVariable(b, ch, times, values, sizes))
  <1>. DEFINE d == b.channel_data[ch + 1]
              e == [d EXCEPT !.mode = "Variable", !.timestamps_ns = d.timestamps_ns \o times,
                             !.values = d.values \o values, !.sizes = d.sizes \o sizes]
  <1>1. /\ ch + 1 \in 1..Len(b.channel_data) /\ Mode(b, ch) \in {"Empty", "Variable"}
        /\ Len(b.channels) = Len(b.channel_data)
    <2>1. Declared(b, ch) /\ Len(b.channels) \in Nat /\ Len(b.channel_data) = Len(b.channels)
      BY DEF StampedRefusal, Prepared
    <2>2. Mode(b, ch) \in {"Empty", Family(expected)}
      BY <2>1 DEF StampedRefusal
    <2>. QED  BY <2>1, <2>2 DEF Declared, Family
  <1>2. /\ Filled(d) /\ d.mode \in {"Empty", "Variable"}
        /\ d.mode = "Empty" => d.values = <<>>
    <2>1. Ready(b.channels[ch + 1], d)
      BY <1>1 DEF Prepared
    <2>2. d.mode = Mode(b, ch)
      BY DEF Mode
    <2>3. Filled(d)
      BY <1>1 DEF Stores
    <2>. QED  BY <1>1, <2>1, <2>2, <2>3 DEF Ready
  <1>. HIDE DEF d
  <1>3. /\ d.timestamps_ns \in Seq(Int) /\ d.values \in Seq(Nat) /\ d.sizes \in Seq(Nat)
        /\ Len(d.timestamps_ns) = Len(d.values) /\ Len(d.sizes) = Len(d.values)
        /\ d \in StoreType
    BY <1>2 DEF Filled, StoreType
  <1>4. /\ d.timestamps_ns \o times \in Seq(Int) /\ d.values \o values \in Seq(Nat)
        /\ d.sizes \o sizes \in Seq(Nat)
        /\ Len(d.timestamps_ns \o times) = Len(d.values \o values)
        /\ Len(d.sizes \o sizes) = Len(d.values \o values)
    <2>1. /\ d.timestamps_ns \o times \in Seq(Int)
          /\ Len(d.timestamps_ns \o times) = Len(d.timestamps_ns) + Len(times)
      BY <1>3, Joined
    <2>2. /\ d.values \o values \in Seq(Nat)
          /\ Len(d.values \o values) = Len(d.values) + Len(values)
      BY <1>3, Joined
    <2>3. /\ d.sizes \o sizes \in Seq(Nat)
          /\ Len(d.sizes \o sizes) = Len(d.sizes) + Len(sizes)
      BY <1>3, Joined
    <2>. QED  BY <1>3, <2>1, <2>2, <2>3
  <1>5. /\ e.timestamps_ns = d.timestamps_ns \o times /\ e.values = d.values \o values
        /\ e.sizes = d.sizes \o sizes /\ e.mode = "Variable" /\ e \in StoreType
    BY <1>3, <1>4 DEF StoreType
  <1>6. Filled(e)
    BY <1>4, <1>5 DEF Filled
  <1>7. AddVariable(b, ch, times, values, sizes) = [b EXCEPT !.channel_data[ch + 1] = e]
    BY DEF AddVariable, e, d
  <1>. HIDE DEF e
  <1>. QED  BY <1>1, <1>6, <1>7, StoreFilled
LEMMA FreshNumbers ==
    ASSUME IsSequence(told), NEW n \in Nat
    PROVE  Fresh(n) \in Seq(Nat) /\ Len(Fresh(n)) = n
  <1>1. Len(told) \in Nat
    BY DEF IsSequence
  <1>2. Fresh(n) \in [1..n -> Nat]
    BY <1>1 DEF Fresh
  <1>. QED  BY <1>2

LEMMA Stamps ==
    ASSUME NEW n \in Nat, NEW t \in Int
    PROVE  [i \in 1..n |-> t + i] \in Seq(Int) /\ Len([i \in 1..n |-> t + i]) = n
  <1>1. [i \in 1..n |-> t + i] \in [1..n -> Int]
    OBVIOUS
  <1>. QED  BY <1>1

LEMMA BuildingFills ==
    ASSUME Prepared(builder), Stores(builder), IsSequence(told), Building
    PROVE  Stores(builder')
  <1>1. CASE with_integrity
    <2>1. PICK profile \in Profiles : builder' = [builder EXCEPT !.integrity = profile]
      BY <1>1 DEF with_integrity
    <2>2. builder'.integrity = profile /\ builder'.channel_data = builder.channel_data
      BY <2>1 DEF Prepared, IsWriter, WriterFields
    <2>. QED  BY <2>2 DEF Stores
  <1>2. CASE add_channel
    BY <1>2, ChannelFilled DEF add_channel
  <1>3. CASE add_equidistant_segment
    <2>1. PICK ch \in 0..MaxChannels, expected \in EquidistantTypes, start \in Starts,
               period \in Periods, n \in 0..MaxCall :
             /\ SegmentRefusal(builder, ch, expected, period) = "none"
             /\ builder' = AddSegment(builder, ch, start, period, Fresh(n))
      BY <1>3 DEF add_equidistant_segment
    <2>2. ch \in Nat /\ n \in Nat /\ start \in Int /\ period \in Nat
      BY <2>1, LimitAssumption, InputAssumption
    <2>3. Fresh(n) \in Seq(Nat)
      BY <2>2, FreshNumbers
    <2>. QED  BY <2>1, <2>2, <2>3, SegmentFilled
  <1>4. CASE add_timestamped_samples
    <2>1. PICK ch \in 0..MaxChannels, expected \in DOMAIN FixedSize, t \in Times,
               stamps, n \in 0..MaxCall :
             /\ StampedRefusal(builder, ch, expected, stamps, n) = "none"
             /\ builder' = AddTimestamped(builder, ch, [i \in 1..stamps |-> t + i], Fresh(n))
      BY <1>4 DEF add_timestamped_samples
    <2>. DEFINE times == [i \in 1..stamps |-> t + i]
                values == Fresh(n)
    <2>2. ch \in Nat /\ n \in Nat /\ stamps \in Nat /\ t \in Int
      BY <2>1, LimitAssumption, InputAssumption
    <2>3. /\ values \in Seq(Nat) /\ Len(values) = n
          /\ times \in Seq(Int) /\ Len(times) = stamps
      BY <2>2, FreshNumbers, Stamps
    <2>4. stamps = n
      BY <2>1 DEF StampedRefusal
    <2>5. builder' = AddTimestamped(builder, ch, times, values)
      BY <2>1
    <2>. HIDE DEF times, values
    <2>. QED  BY <2>1, <2>2, <2>3, <2>4, <2>5, TimestampedFilled
  <1>5. CASE add_variable_samples
    <2>1. PICK ch \in 0..MaxChannels, expected \in VariableTypes, t \in Times,
               stamps \in 0..MaxCall, sizes \in UNION {[1..n -> Sizes] : n \in 0..MaxCall} :
             /\ StampedRefusal(builder, ch, expected, stamps, Len(sizes)) = "none"
             /\ builder' = AddVariable(builder, ch, [i \in 1..stamps |-> t + i],
                                       Fresh(Len(sizes)), sizes)
      BY <1>5 DEF add_variable_samples
    <2>. DEFINE times == [i \in 1..stamps |-> t + i]
                values == Fresh(Len(sizes))
    <2>2. ch \in Nat /\ stamps \in Nat /\ t \in Int
      BY <2>1, LimitAssumption, InputAssumption
    <2>3. sizes \in Seq(Nat) /\ Len(sizes) \in Nat
      <3>1. PICK n \in 0..MaxCall : sizes \in [1..n -> Sizes]
        BY <2>1
      <3>2. n \in Nat /\ Sizes \subseteq Nat
        BY <3>1, InputAssumption, LimitAssumption
      <3>3. sizes \in [1..n -> Nat]
        BY <3>1, <3>2
      <3>. QED  BY <3>2, <3>3
    <2>4. stamps = Len(sizes)
      BY <2>1 DEF StampedRefusal
    <2>5. /\ values \in Seq(Nat) /\ Len(values) = Len(sizes)
          /\ times \in Seq(Int) /\ Len(times) = stamps
      BY <2>2, <2>3, FreshNumbers, Stamps
    <2>6. builder' = AddVariable(builder, ch, times, values, sizes)
      BY <2>1
    <2>. HIDE DEF times, values
    <2>. QED  BY <2>1, <2>2, <2>3, <2>4, <2>5, <2>6, VariableFilled
  <1>. QED  BY <1>1, <1>2, <1>3, <1>4, <1>5 DEF Building

\* The history stays a sequence.
LEMMA Mapped ==
    ASSUME NEW n \in Nat, NEW f, f = [i \in 1..n |-> f[i]]
    PROVE  IsSequence(f)
  <1>. DEFINE U == {f[i] : i \in 1..n}
  <1>1. f \in [1..n -> U]
    OBVIOUS
  <1>. HIDE DEF U
  <1>2. f \in Seq(U)
    BY <1>1
  <1>. QED  BY <1>2 DEF IsSequence

LEMMA BuildingTells ==
    ASSUME IsSequence(told), Building
    PROVE  IsSequence(told')
  <1>1. CASE with_integrity \/ add_channel
    BY <1>1 DEF with_integrity, add_channel
  <1>2. CASE add_equidistant_segment
    <2>1. PICK ch \in 0..MaxChannels, start \in Starts, period \in Periods, n \in 0..MaxCall :
             Told(ch, n, LAMBDA i : start + (i - 1) * period)
      BY <1>2 DEF add_equidistant_segment
    <2>2. n \in Nat
      BY LimitAssumption
    <2>. DEFINE f == [i \in 1..n |-> [channel_index |-> ch, time |-> start + (i - 1) * period]]
    <2>3. told' = told \o f
      BY <2>1 DEF Told
    <2>4. f = [i \in 1..n |-> f[i]]
      OBVIOUS
    <2>. HIDE DEF f
    <2>5. IsSequence(f)
      BY <2>2, <2>4, Mapped
    <2>. QED  BY <2>3, <2>5, Concatenated
  <1>3. CASE add_timestamped_samples
    <2>1. PICK ch \in 0..MaxChannels, t \in Times, n \in 0..MaxCall :
             Told(ch, n, LAMBDA i : t + i)
      BY <1>3 DEF add_timestamped_samples
    <2>2. n \in Nat
      BY LimitAssumption
    <2>. DEFINE f == [i \in 1..n |-> [channel_index |-> ch, time |-> t + i]]
    <2>3. told' = told \o f
      BY <2>1 DEF Told
    <2>4. f = [i \in 1..n |-> f[i]]
      OBVIOUS
    <2>. HIDE DEF f
    <2>5. IsSequence(f)
      BY <2>2, <2>4, Mapped
    <2>. QED  BY <2>3, <2>5, Concatenated
  <1>4. CASE add_variable_samples
    <2>1. PICK ch \in 0..MaxChannels, t \in Times,
               sizes \in UNION {[1..n -> Sizes] : n \in 0..MaxCall} :
             Told(ch, Len(sizes), LAMBDA i : t + i)
      BY <1>4 DEF add_variable_samples
    <2>2. Len(sizes) \in Nat
      <3>1. PICK n \in 0..MaxCall : sizes \in [1..n -> Sizes]
        OBVIOUS
      <3>2. n \in Nat
        BY <3>1, LimitAssumption
      <3>. QED  BY <3>1, <3>2
    <2>. DEFINE n == Len(sizes)
                f == [i \in 1..n |-> [channel_index |-> ch, time |-> t + i]]
    <2>3. told' = told \o f
      BY <2>1 DEF Told
    <2>4. f = [i \in 1..n |-> f[i]]
      OBVIOUS
    <2>. HIDE DEF f, n
    <2>5. IsSequence(f)
      BY <2>2, <2>4, Mapped DEF n
    <2>. QED  BY <2>3, <2>5, Concatenated
  <1>. QED  BY <1>1, <1>2, <1>3, <1>4 DEF Building

\* A block.
LEMMA RunTypes ==
    ASSUME TInv, AtBlock
    PROVE  /\ Run.start \in Int /\ Run.period \in Nat /\ Run.values \in Seq(Nat)
           /\ Data.mode # "Equidistant" =>
                 Run.times \in Seq(Int) /\ Len(Run.times) = Len(Run.values)
  <1>1. /\ at.channel + 1 \in 1..Len(builder.channel_data) /\ Ready(Def, Data)
    <2>1. at.channel + 1 \in 1..Len(builder.channels) /\ Ready(Def, Data)
      BY Current DEF TInv, FInv, AtBlock
    <2>2. Len(builder.channels) = Len(builder.channel_data)
      BY DEF TInv, FInv, WInv, Prepared
    <2>. QED  BY <2>1, <2>2
  <1>2. Filled(Data)
    BY <1>1 DEF TInv, Stores, Data
  <1>3. CASE Data.mode = "Equidistant"
    <2>1. Run = Data.segments[at.run] /\ at.run \in DOMAIN Data.segments
      BY <1>3 DEF Run, Runs, AtBlock
    <2>2. Run \in RunType
      <3>1. Data.segments \in Seq(RunType)
        BY <1>2 DEF Filled, StoreType
      <3>. DEFINE R == RunType
                  s == Data.segments
      <3>2. s \in Seq(R) /\ at.run \in DOMAIN s
        BY <2>1, <3>1
      <3>. HIDE DEF R, s
      <3>3. s[at.run] \in R
        BY <3>2
      <3>. QED  BY <2>1, <3>3 DEF R, s
    <2>. QED  BY <1>3, <2>2 DEF RunType
  <1>4. CASE Data.mode \in {"Timestamped", "Variable"}
    <2>. DEFINE run == [start |-> 0, period |-> 0, times |-> Data.timestamps_ns,
                        values |-> Data.values, sizes |-> Data.sizes]
    <2>1. Runs(Data) = IF Data.timestamps_ns # <<>> THEN <<run>> ELSE <<>>
      BY <1>4 DEF Runs
    <2>2. run.start = 0 /\ run.period = 0 /\ run.times = Data.timestamps_ns
          /\ run.values = Data.values
      OBVIOUS
    <2>3. Run = run
      <3>. HIDE DEF run
      <3>. QED  BY <2>1 DEF Run, AtBlock
    <2>. QED  BY <1>2, <1>4, <2>2, <2>3 DEF Filled, StoreType
  <1>5. CASE Data.mode = "Empty"
    <2>1. Runs(Data) = <<>>
      BY <1>5 DEF Runs
    <2>. QED  BY <2>1 DEF AtBlock
  <1>. QED  BY <1>1, <1>3, <1>4, <1>5 DEF Ready

LEMMA Cut ==
    ASSUME NEW U, NEW s \in Seq(U), NEW m \in Nat, NEW n \in Nat, m + n <= Len(s)
    PROVE  SubSeq(s, m + 1, m + n) \in Seq(U)
  OBVIOUS

LEMMA LengthNat ==
    ASSUME TInv, AtBlock
    PROVE  PayloadLength + CrcSize(builder) \in Nat
  <1>1. Ready(Def, Data) /\ Chunk \in Nat
    BY Current, PartLength DEF TInv, FInv, AtBlock
  <1>2. CASE Data.mode = "Variable"
    <2>1. /\ PayloadLength = 9 + Data.sizes[at.written + 1]
          /\ at.written + 1 \in DOMAIN Data.sizes /\ Data.sizes \in Seq(Nat)
      BY <1>1, <1>2, VariableChunk DEF TInv, FInv, Ready
    <2>2. Data.sizes[at.written + 1] \in Nat
      BY <2>1
    <2>. QED  BY <2>1, <2>2, CrcSizes
  <1>3. CASE Data.mode # "Variable"
    <2>1. Data.mode # "Empty"
      <3>. SUFFICES ASSUME Data.mode = "Empty" PROVE FALSE
        OBVIOUS
      <3>1. Runs(Data) = <<>>
        BY DEF Runs
      <3>. QED  BY <3>1 DEF AtBlock
    <2>2. PerSample \in Nat
      <3>1. Def.data_type \in DOMAIN FixedSize
        BY <1>1, <1>3, <2>1 DEF Ready, EquidistantTypes, FixedSize
      <3>2. FixedSize[Def.data_type] \in Nat
        BY <3>1 DEF FixedSize
      <3>. QED  BY <3>2 DEF PerSample
    <2>. DEFINE p == PerSample
                n == Chunk
    <2>3. PayloadLength = 1 + (IF Kind = "StartData" THEN 16 ELSE 0)
                            + (IF Multi THEN 4 ELSE 0) + n * p
      BY <1>3 DEF PayloadLength
    <2>4. p \in Nat /\ n \in Nat
      BY <1>1, <2>2
    <2>. HIDE DEF p, n
    <2>5. n * p \in Nat
      BY <2>4
    <2>. QED  BY <2>3, <2>5, CrcSizes
  <1>. QED  BY <1>2, <1>3

LEMMA BlockTyped ==
    ASSUME TInv, AtBlock
    PROVE  Block \in BlockType
  <1>1. /\ Run.start \in Int /\ Run.period \in Nat /\ Run.values \in Seq(Nat)
        /\ Data.mode # "Equidistant" =>
              Run.times \in Seq(Int) /\ Len(Run.times) = Len(Run.values)
    BY RunTypes
  <1>2. /\ at.written \in Nat /\ at.channel \in Nat /\ Chunk \in Nat
        /\ at.written + Chunk <= Len(Run.values)
    <2>1. Chunk \in Nat /\ Chunk <= Left /\ Left = Len(Run.values) - at.written
      BY PartLength DEF TInv, FInv
    <2>2. at \in At
      BY DEF TInv
    <2>3. Len(Run.values) \in Nat
      BY <1>1
    <2>. QED  BY <2>1, <2>2, <2>3 DEF At
  <1>3. Part(Run.values) \in Seq(Nat)
    BY <1>1, <1>2, Cut DEF Part
  <1>4. /\ Kind \in {"StartData", "ContinuedData", "AbsTimestampData"}
        /\ Kind = "AbsTimestampData" <=> Data.mode # "Equidistant"
    BY DEF Kind
  <1>5. Kind = "AbsTimestampData" => Part(Run.times) \in Seq(Int)
    <2>. SUFFICES ASSUME Data.mode # "Equidistant"
                  PROVE  Part(Run.times) \in Seq(Int)
      BY <1>4
    <2>1. Run.times \in Seq(Int) /\ at.written + Chunk <= Len(Run.times)
      BY <1>1, <1>2
    <2>. QED  BY <1>2, <2>1, Cut DEF Part
  <1>6. Multi \in BOOLEAN
    BY DEF Multi
  <1>7. Def.size_of_length_value \in Widths
    BY Current DEF TInv, FInv, AtBlock, Ready
  <1>8. <<>> \in Seq(Int) /\ 0 \in Int /\ 0 \in Nat
    OBVIOUS
  <1>. DEFINE n == PayloadLength + CrcSize(builder)
              times == IF Kind = "AbsTimestampData" THEN Part(Run.times) ELSE <<>>
              start == IF Kind = "StartData" THEN Run.start ELSE 0
              period == IF Kind = "StartData" THEN Run.period ELSE 0
              values == Part(Run.values)
              w == Def.size_of_length_value
              ch == at.channel
              k == Kind
              m == Multi
  <1>9. /\ n \in Nat /\ times \in Seq(Int) /\ start \in Int /\ period \in Nat
        /\ values \in Seq(Nat) /\ w \in Widths /\ ch \in Nat
        /\ k \in {"StartData", "ContinuedData", "AbsTimestampData"} /\ m \in BOOLEAN
    <2>1. n \in Nat
      BY LengthNat
    <2>. HIDE DEF n
    <2>. QED  BY <1>1, <1>2, <1>3, <1>4, <1>5, <1>6, <1>7, <1>8, <2>1
  <1>10. Block = [channel_index |-> ch, kind |-> k, multi |-> m, start |-> start,
                  period |-> period, times |-> times, values |-> values,
                  size_of_length_value |-> w, length |-> n]
    BY DEF Block
  <1>. HIDE DEF n, times, start, period, values, w, ch, k, m
  <1>. QED  BY <1>9, <1>10 DEF BlockType

LEMMA TypeStep ==
    ASSUME TInv, [Next]_vars
    PROVE  TInv'
  <1>1. FInv'
    BY FrameStep DEF TInv
  <1>2. Prepared(builder) /\ Stores(builder) /\ IsSequence(told)
    BY DEF TInv, FInv, WInv
  <1>3. CASE Building
    <2>1. Stores(builder') /\ IsSequence(told')
      BY <1>2, <1>3, BuildingFills, BuildingTells
    <2>2. UNCHANGED <<phase, result, at, file, torn>>
      BY <1>3 DEF Building, with_integrity, add_channel, add_equidistant_segment,
                  add_timestamped_samples, add_variable_samples, output
    <2>. QED  BY <1>1, <2>1, <2>2 DEF TInv
  <1>4. CASE write_to_file
    <2>1. Stores(builder')
      <3>1. CASE UNCHANGED builder
        BY <1>2, <3>1
      <3>2. CASE builder' = [builder EXCEPT !.channels = autobump(builder)]
        <4>1. builder'.channel_data = builder.channel_data
              /\ builder'.integrity = builder.integrity
          BY <1>2, <3>2 DEF Prepared, IsWriter, WriterFields
        <4>. QED  BY <1>2, <4>1 DEF Stores
      <3>. QED  BY <1>4, <3>1, <3>2 DEF write_to_file
    <2>2. <<>> \in Seq(BlockType)
      OBVIOUS
    <2>. QED  BY <1>1, <1>4, <2>1, <2>2 DEF write_to_file, Create, Fails, TInv
  <1>5. CASE CreateFails \/ WriteHeader \/ Flush \/ UNCHANGED vars
    BY <1>1, <1>5 DEF CreateFails, WriteHeader, Flush, Fails, vars, output, TInv
  <1>6. CASE NextChannel
    <2>1. at' = [channel |-> at.channel + 1, run |-> 1, written |-> 0]
      BY <1>6 DEF NextChannel
    <2>2. at' \in At
      BY <2>1 DEF TInv, At
    <2>. QED  BY <1>1, <1>6, <2>2 DEF NextChannel, TInv
  <1>7. CASE WriteBlock
    <2>1. /\ AtBlock /\ file' = Append(file, Block)
          /\ at' = IF Left > Chunk THEN [at EXCEPT !.written = @ + Chunk]
                                   ELSE [at EXCEPT !.run = @ + 1, !.written = 0]
          /\ UNCHANGED <<builder, phase, result, torn, told>>
      BY <1>7, BlockFits DEF WriteBlock, TInv, FInv
    <2>2. at' \in At
      <3>. DEFINE n == Chunk
      <3>1. at \in At /\ n \in Nat
        BY <2>1, PartLength DEF TInv, FInv
      <3>2. at' = [at EXCEPT !.written = @ + n] \/ at' = [at EXCEPT !.run = @ + 1, !.written = 0]
        BY <2>1
      <3>. HIDE DEF n
      <3>3. at.written + n \in Nat /\ at.run + 1 \in Nat \ {0}
        BY <3>1 DEF At
      <3>4. [at EXCEPT !.written = @ + n] \in At
        BY <3>1, <3>3 DEF At
      <3>5. [at EXCEPT !.run = @ + 1, !.written = 0] \in At
        BY <3>1, <3>3 DEF At
      <3>. QED  BY <3>2, <3>4, <3>5
    <2>3. file' \in Seq(BlockType)
      <3>. DEFINE B == BlockType
                  b == Block
      <3>1. file \in Seq(B) /\ b \in B /\ file' = Append(file, b)
        BY <2>1, BlockTyped DEF TInv
      <3>. HIDE DEF B, b
      <3>2. file' \in Seq(B)
        BY <3>1
      <3>. QED  BY <3>2 DEF B
    <2>. QED  BY <1>1, <2>1, <2>2, <2>3 DEF TInv
  <1>8. CASE IoFails
    <2>1. file' \in Seq(BlockType)
      <3>. DEFINE B == BlockType
      <3>1. file \in Seq(B) /\ <<>> \in Seq(B)
        BY DEF TInv
      <3>2. file' = <<>> \/ \E k \in 0..Len(file) : file' = SubSeq(file, 1, k)
        BY <1>8 DEF IoFails
      <3>. HIDE DEF B
      <3>3. file' \in Seq(B)
        <4>1. \A k \in 0..Len(file) : SubSeq(file, 1, k) \in Seq(B)
          BY <3>1
        <4>. QED  BY <3>1, <3>2, <4>1
      <3>. QED  BY <3>3 DEF B
    <2>. QED  BY <1>1, <1>8, <2>1 DEF IoFails, Fails, TInv
  <1>. QED  BY <1>3, <1>4, <1>5, <1>6, <1>7, <1>8 DEF Next, Writing

\* The builder and the file are well typed, whatever the calls and the failures: a
\* channel's storage is of the kind of its datatype and its arrays are parallel, and
\* each block in the file has a length, a width and stamps that can be written.
THEOREM TypesHold == Spec => []TypeOK
  <1>1. Init => TInv
    <2>. SUFFICES ASSUME Init
                  PROVE  TInv
      OBVIOUS
    <2>1. FInv
      BY FramedInit
    <2>2. Stores(builder)
      <3>1. <<>> \in Seq(StoreType) /\ Len(<<>>) = 0
        OBVIOUS
      <3>2. builder.channel_data = <<>> /\ builder.integrity = "none"
        BY DEF Init, NewBuilder
      <3>. QED  BY <3>1, <3>2 DEF Stores
    <2>3. file \in Seq(BlockType)
      <3>1. OldBlock \in BlockType
        <4>1. <<>> \in Seq(Int) /\ <<0>> \in Seq(Nat)
          OBVIOUS
        <4>. QED  BY <4>1 DEF OldBlock, BlockType, Widths
      <3>. DEFINE B == BlockType
                  b == OldBlock
      <3>2. b \in B /\ file \in {<<>>, <<b>>}
        BY <3>1 DEF Init
      <3>. HIDE DEF B, b
      <3>4. <<>> \in Seq(B)
        OBVIOUS
      <3>5. <<b>> \in Seq(B)
        BY <3>2
      <3>3. file \in Seq(B)
        BY <3>2, <3>4, <3>5
      <3>. QED  BY <3>3 DEF B
    <2>4. at \in At
      BY DEF Init, Nowhere, At
    <2>. QED  BY <2>1, <2>2, <2>3, <2>4, EmptySequence DEF Init, TInv
  <1>2. TInv /\ [Next]_vars => TInv'
    BY TypeStep
  <1>3. TInv => TypeOK
    BY TypesFollow
  <1>. QED  BY <1>1, <1>2, <1>3, PTL DEF Spec

---------------------------------------------------------------------------
(* The channels of a loaded file, in order. *)

\* The channels that the loader of the recording lists.
S_Supported == {i \in DOMAIN Recorded : S!FirstOf(i) /\ s_builders[Recorded[i].index].state # "Unsupported"}

LEMMA SourceFinalized ==
    ASSUME NEW m \in Nat, DOMAIN Recorded = 1..m, \A i \in 1..m : Recorded[i].index \in Int
    PROVE  FilterOf(S!Finalized, m, S_Supported, [i \in 1..m |-> Recorded[i].index], Int)
  <1>. DEFINE D == 1..m
              P == S_Supported
              x == [i \in D |-> Recorded[i].index]
              id == [i \in DOMAIN Recorded |-> i]
              pick == [u \in SUBSET D |-> S!Max(u)]
              t == CHOOSE it : it = [u \in SUBSET DOMAIN [i \in DOMAIN Recorded |-> i] |->
                      IF u = {} THEN <<>>
                      ELSE IF /\ S!FirstOf([i \in DOMAIN Recorded |-> i][S!Max(u)])
                              /\ s_builders[Recorded[[i \in DOMAIN Recorded |-> i][S!Max(u)]].index].state
                                    # "Unsupported"
                           THEN Append(it[u \ {S!Max(u)}],
                                       Recorded[[i \in DOMAIN Recorded |-> i][S!Max(u)]].index)
                           ELSE it[u \ {S!Max(u)}]]
  <1>1. S!Finalized = t[DOMAIN [i \in DOMAIN Recorded |-> i]]
    BY Zenon DEF S!Finalized, S!FoldLeft, S!MapThenFoldSet
  <1>2. ASSUME NEW u \in SUBSET D, u # {}
        PROVE  S!Max(u) \in u /\ \A y \in u : S!Max(u) >= y
    <2>1. \E z \in u : \A y \in u : z >= y
      BY <1>2, LargestOfRange
    <2>. QED  BY <2>1, Zenon DEF S!Max
  <1>3. Largest(pick, D) /\ Picks(pick, D)
    BY <1>2 DEF Largest, Picks
  <1>4. x \in [D -> Int] /\ IsFiniteSet(D)
    BY FS_Interval
  <1>5. \A u \in SUBSET D : u # {} =>
           /\ pick[u] = S!Max(u) /\ S!Max(u) \in D /\ u \ {S!Max(u)} \in SUBSET D
           /\ [i \in DOMAIN Recorded |-> i][S!Max(u)] = S!Max(u)
           /\ x[pick[u]] = Recorded[S!Max(u)].index
           /\ pick[u] \in P <=> /\ S!FirstOf(S!Max(u))
                                /\ s_builders[Recorded[S!Max(u)].index].state # "Unsupported"
    BY <1>2 DEF S_Supported
  <1>. HIDE DEF pick, x, D, P
  <1>6. PICK w \in [SUBSET D -> Seq(Int)] : Filters(w, D, P, x, pick)
    BY <1>3, <1>4, FilterExists
  <1>7. w = [u \in SUBSET DOMAIN [i \in DOMAIN Recorded |-> i] |->
                      IF u = {} THEN <<>>
                      ELSE IF /\ S!FirstOf([i \in DOMAIN Recorded |-> i][S!Max(u)])
                              /\ s_builders[Recorded[[i \in DOMAIN Recorded |-> i][S!Max(u)]].index].state
                                    # "Unsupported"
                           THEN Append(w[u \ {S!Max(u)}],
                                       Recorded[[i \in DOMAIN Recorded |-> i][S!Max(u)]].index)
                           ELSE w[u \ {S!Max(u)}]]
    <2>. DEFINE e(u) == IF u = {} THEN <<>>
                      ELSE IF /\ S!FirstOf([i \in DOMAIN Recorded |-> i][S!Max(u)])
                              /\ s_builders[Recorded[[i \in DOMAIN Recorded |-> i][S!Max(u)]].index].state
                                    # "Unsupported"
                           THEN Append(w[u \ {S!Max(u)}],
                                       Recorded[[i \in DOMAIN Recorded |-> i][S!Max(u)]].index)
                           ELSE w[u \ {S!Max(u)}]
    <2>1. w = [u \in SUBSET D |-> w[u]] /\ DOMAIN [i \in DOMAIN Recorded |-> i] = D
      BY <1>6 DEF D
    <2>2. ASSUME NEW u \in SUBSET D
          PROVE  w[u] = e(u)
      <3>1. CASE u = {}
        BY <1>6, <2>1, <3>1 DEF Filters
      <3>2. CASE u # {}
        <4>1. w[u] = IF pick[u] \in P THEN Append(w[u \ {pick[u]}], x[pick[u]])
                     ELSE w[u \ {pick[u]}]
          BY <1>6, <3>2 DEF Filters
        <4>. QED  BY <1>5, <2>1, <3>2, <4>1
      <3>. QED  BY <3>1, <3>2
    <2>3. w = [u \in SUBSET DOMAIN [i \in DOMAIN Recorded |-> i] |-> e(u)]
      <3>. HIDE DEF e
      <3>. QED  BY <2>1, <2>2
    <2>. QED  BY <2>3, Zenon
  <1>8. t = [u \in SUBSET DOMAIN [i \in DOMAIN Recorded |-> i] |->
                      IF u = {} THEN <<>>
                      ELSE IF /\ S!FirstOf([i \in DOMAIN Recorded |-> i][S!Max(u)])
                              /\ s_builders[Recorded[[i \in DOMAIN Recorded |-> i][S!Max(u)]].index].state
                                    # "Unsupported"
                           THEN Append(t[u \ {S!Max(u)}],
                                       Recorded[[i \in DOMAIN Recorded |-> i][S!Max(u)]].index)
                           ELSE t[u \ {S!Max(u)}]]
    BY <1>7, Zenon
  <1>. HIDE DEF t
  <1>9. Filters(t, D, P, x, pick)
    <2>. SUFFICES ASSUME NEW u \in SUBSET D
                  PROVE  t[u] = IF u = {} THEN <<>>
                                ELSE IF pick[u] \in P THEN Append(t[u \ {pick[u]}], x[pick[u]])
                                ELSE t[u \ {pick[u]}]
      BY DEF Filters
    <2>1. DOMAIN [i \in DOMAIN Recorded |-> i] = D
      BY DEF D
    <2>2. CASE u = {}
      BY <1>8, <2>1, <2>2
    <2>3. CASE u # {}
      <3>1. t[u] = IF /\ S!FirstOf([i \in DOMAIN Recorded |-> i][S!Max(u)])
                      /\ s_builders[Recorded[[i \in DOMAIN Recorded |-> i][S!Max(u)]].index].state
                            # "Unsupported"
                   THEN Append(t[u \ {S!Max(u)}],
                               Recorded[[i \in DOMAIN Recorded |-> i][S!Max(u)]].index)
                   ELSE t[u \ {S!Max(u)}]
        BY <1>8, <2>1, <2>3
      <3>. QED  BY <1>5, <2>3, <3>1
    <2>. QED  BY <2>2, <2>3
  <1>10. FilterOf(t[D], m, P, x, Int)
    BY <1>3, <1>4, <1>9, Filtered DEF D
  <1>11. S!Finalized = t[D]
    BY <1>1 DEF D
  <1>. QED  BY <1>10, <1>11 DEF x, P, D

\* The channels that the loader of the new file lists.
T_Supported == {i \in DOMAIN Target : T!FirstOf(i) /\ t_builders[Target[i].index].state # "Unsupported"}

LEMMA TargetFinalized ==
    ASSUME NEW m \in Nat, DOMAIN Target = 1..m, \A i \in 1..m : Target[i].index \in Int
    PROVE  FilterOf(T!Finalized, m, T_Supported, [i \in 1..m |-> Target[i].index], Int)
  <1>. DEFINE D == 1..m
              P == T_Supported
              x == [i \in D |-> Target[i].index]
              id == [i \in DOMAIN Target |-> i]
              pick == [u \in SUBSET D |-> T!Max(u)]
              t == CHOOSE it : it = [u \in SUBSET DOMAIN [i \in DOMAIN Target |-> i] |->
                      IF u = {} THEN <<>>
                      ELSE IF /\ T!FirstOf([i \in DOMAIN Target |-> i][T!Max(u)])
                              /\ t_builders[Target[[i \in DOMAIN Target |-> i][T!Max(u)]].index].state
                                    # "Unsupported"
                           THEN Append(it[u \ {T!Max(u)}],
                                       Target[[i \in DOMAIN Target |-> i][T!Max(u)]].index)
                           ELSE it[u \ {T!Max(u)}]]
  <1>1. T!Finalized = t[DOMAIN [i \in DOMAIN Target |-> i]]
    BY Zenon DEF T!Finalized, T!FoldLeft, T!MapThenFoldSet
  <1>2. ASSUME NEW u \in SUBSET D, u # {}
        PROVE  T!Max(u) \in u /\ \A y \in u : T!Max(u) >= y
    <2>1. \E z \in u : \A y \in u : z >= y
      BY <1>2, LargestOfRange
    <2>. QED  BY <2>1, Zenon DEF T!Max
  <1>3. Largest(pick, D) /\ Picks(pick, D)
    BY <1>2 DEF Largest, Picks
  <1>4. x \in [D -> Int] /\ IsFiniteSet(D)
    BY FS_Interval
  <1>5. \A u \in SUBSET D : u # {} =>
           /\ pick[u] = T!Max(u) /\ T!Max(u) \in D /\ u \ {T!Max(u)} \in SUBSET D
           /\ [i \in DOMAIN Target |-> i][T!Max(u)] = T!Max(u)
           /\ x[pick[u]] = Target[T!Max(u)].index
           /\ pick[u] \in P <=> /\ T!FirstOf(T!Max(u))
                                /\ t_builders[Target[T!Max(u)].index].state # "Unsupported"
    BY <1>2 DEF T_Supported
  <1>. HIDE DEF pick, x, D, P
  <1>6. PICK w \in [SUBSET D -> Seq(Int)] : Filters(w, D, P, x, pick)
    BY <1>3, <1>4, FilterExists
  <1>7. w = [u \in SUBSET DOMAIN [i \in DOMAIN Target |-> i] |->
                      IF u = {} THEN <<>>
                      ELSE IF /\ T!FirstOf([i \in DOMAIN Target |-> i][T!Max(u)])
                              /\ t_builders[Target[[i \in DOMAIN Target |-> i][T!Max(u)]].index].state
                                    # "Unsupported"
                           THEN Append(w[u \ {T!Max(u)}],
                                       Target[[i \in DOMAIN Target |-> i][T!Max(u)]].index)
                           ELSE w[u \ {T!Max(u)}]]
    <2>. DEFINE e(u) == IF u = {} THEN <<>>
                      ELSE IF /\ T!FirstOf([i \in DOMAIN Target |-> i][T!Max(u)])
                              /\ t_builders[Target[[i \in DOMAIN Target |-> i][T!Max(u)]].index].state
                                    # "Unsupported"
                           THEN Append(w[u \ {T!Max(u)}],
                                       Target[[i \in DOMAIN Target |-> i][T!Max(u)]].index)
                           ELSE w[u \ {T!Max(u)}]
    <2>1. w = [u \in SUBSET D |-> w[u]] /\ DOMAIN [i \in DOMAIN Target |-> i] = D
      BY <1>6 DEF D
    <2>2. ASSUME NEW u \in SUBSET D
          PROVE  w[u] = e(u)
      <3>1. CASE u = {}
        BY <1>6, <2>1, <3>1 DEF Filters
      <3>2. CASE u # {}
        <4>1. w[u] = IF pick[u] \in P THEN Append(w[u \ {pick[u]}], x[pick[u]])
                     ELSE w[u \ {pick[u]}]
          BY <1>6, <3>2 DEF Filters
        <4>. QED  BY <1>5, <2>1, <3>2, <4>1
      <3>. QED  BY <3>1, <3>2
    <2>3. w = [u \in SUBSET DOMAIN [i \in DOMAIN Target |-> i] |-> e(u)]
      <3>. HIDE DEF e
      <3>. QED  BY <2>1, <2>2
    <2>. QED  BY <2>3, Zenon
  <1>8. t = [u \in SUBSET DOMAIN [i \in DOMAIN Target |-> i] |->
                      IF u = {} THEN <<>>
                      ELSE IF /\ T!FirstOf([i \in DOMAIN Target |-> i][T!Max(u)])
                              /\ t_builders[Target[[i \in DOMAIN Target |-> i][T!Max(u)]].index].state
                                    # "Unsupported"
                           THEN Append(t[u \ {T!Max(u)}],
                                       Target[[i \in DOMAIN Target |-> i][T!Max(u)]].index)
                           ELSE t[u \ {T!Max(u)}]]
    BY <1>7, Zenon
  <1>. HIDE DEF t
  <1>9. Filters(t, D, P, x, pick)
    <2>. SUFFICES ASSUME NEW u \in SUBSET D
                  PROVE  t[u] = IF u = {} THEN <<>>
                                ELSE IF pick[u] \in P THEN Append(t[u \ {pick[u]}], x[pick[u]])
                                ELSE t[u \ {pick[u]}]
      BY DEF Filters
    <2>1. DOMAIN [i \in DOMAIN Target |-> i] = D
      BY DEF D
    <2>2. CASE u = {}
      BY <1>8, <2>1, <2>2
    <2>3. CASE u # {}
      <3>1. t[u] = IF /\ T!FirstOf([i \in DOMAIN Target |-> i][T!Max(u)])
                      /\ t_builders[Target[[i \in DOMAIN Target |-> i][T!Max(u)]].index].state
                            # "Unsupported"
                   THEN Append(t[u \ {T!Max(u)}],
                               Target[[i \in DOMAIN Target |-> i][T!Max(u)]].index)
                   ELSE t[u \ {T!Max(u)}]
        BY <1>8, <2>1, <2>3
      <3>. QED  BY <1>5, <2>3, <3>1
    <2>. QED  BY <2>2, <2>3
  <1>10. FilterOf(t[D], m, P, x, Int)
    BY <1>3, <1>4, <1>9, Filtered DEF D
  <1>11. T!Finalized = t[D]
    BY <1>1 DEF D
  <1>. QED  BY <1>10, <1>11 DEF x, P, D

---------------------------------------------------------------------------
(* The loops of from_manager, step by step. *)

LEMMA LargestIs ==
    ASSUME NEW k \in Nat
    PROVE  /\ \A u \in SUBSET (1..(k + 1)) : u # {} => Max(u) \in u /\ u \ {Max(u)} \in SUBSET (1..k)
           /\ Max(1..(k + 1)) = k + 1 /\ (1..(k + 1)) \ {k + 1} = 1..k
  <1>1. ASSUME NEW u \in SUBSET (1..(k + 1)), u # {}
        PROVE  Max(u) \in u /\ \A y \in u : Max(u) >= y
    <2>1. \E z \in u : \A y \in u : z >= y
      <3>1. k + 1 \in Nat
        OBVIOUS
      <3>. QED  BY <1>1, <3>1, LargestOfRange
    <2>. QED  BY <2>1, Zenon DEF Max
  <1>2. ASSUME NEW u \in SUBSET (1..(k + 1)), u # {}
        PROVE  u \ {Max(u)} \in SUBSET (1..k)
    <2>. SUFFICES ASSUME NEW y \in u, y # Max(u)
                  PROVE  y \in 1..k
      OBVIOUS
    <2>1. Max(u) \in 1..(k + 1) /\ y \in 1..(k + 1) /\ Max(u) >= y
      BY <1>1, <1>2
    <2>. QED  BY <2>1
  <1>3. Max(1..(k + 1)) = k + 1
    <2>. DEFINE u == 1..(k + 1)
    <2>1. u \in SUBSET (1..(k + 1)) /\ u # {} /\ k + 1 \in u
      OBVIOUS
    <2>. HIDE DEF u
    <2>2. Max(u) \in u /\ Max(u) >= k + 1
      BY <1>1, <2>1
    <2>3. Max(u) \in 1..(k + 1)
      BY <2>1, <2>2
    <2>4. Max(u) = k + 1
      BY <2>2, <2>3
    <2>. QED  BY <2>4 DEF u
  <1>. QED  BY <1>1, <1>2, <1>3

CopiedChannels(a, list) == FoldLeft(CopyChannel, a, list)

LEMMA CopyUnfolds ==
    ASSUME NEW a, NEW list, NEW n \in Nat, DOMAIN list = 1..n
    PROVE  \E f : /\ f[0] = a
                  /\ \A i \in 1..n : f[i] = CopyChannel(f[i - 1], list[i])
                  /\ CopiedChannels(a, list) = f[n]
  <1>. DEFINE Value(t, u) == IF u = {} THEN a ELSE CopyChannel(t[u \ {Max(u)}], list[Max(u)])
              Up(t, k) == t = [u \in SUBSET (1..k) |-> Value(t, u)]
              K == {k \in Nat : \E t : Up(t, k)}
  <1>1. 0 \in K
    <2>. DEFINE t == [u \in SUBSET (1..0) |-> a]
    <2>1. \A u \in SUBSET (1..0) : u = {}
      OBVIOUS
    <2>2. Up(t, 0)
      BY <2>1
    <2>. QED  BY <2>2
  <1>2. ASSUME NEW k \in Nat, k \in K
        PROVE  k + 1 \in K
    <2>1. PICK t : Up(t, k)
      BY <1>2
    <2>. DEFINE r == [u \in SUBSET (1..(k + 1)) |-> Value(t, u)]
    <2>2. ASSUME NEW u \in SUBSET (1..k)
          PROVE  r[u] = t[u]
      <3>1. u \in SUBSET (1..(k + 1))
        OBVIOUS
      <3>. HIDE DEF Value
      <3>. QED  BY <2>1, <3>1
    <2>3. ASSUME NEW u \in SUBSET (1..(k + 1))
          PROVE  Value(t, u) = Value(r, u)
      <3>1. u # {} => r[u \ {Max(u)}] = t[u \ {Max(u)}]
        BY <2>2, LargestIs
      <3>. HIDE DEF r
      <3>. QED  BY <3>1
    <2>4. Up(r, k + 1)
      <3>. HIDE DEF Value
      <3>. QED  BY <2>3
    <2>. HIDE DEF Up, r
    <2>. QED  BY <2>4
  <1>3. n \in K
    <2>. HIDE DEF K
    <2>. QED  BY <1>1, <1>2, Induction
  <1>. DEFINE t == CHOOSE it : it = [u \in SUBSET DOMAIN list |-> Value(it, u)]
  <1>4. CopiedChannels(a, list) = t[DOMAIN list]
    BY Zenon DEF CopiedChannels, FoldLeft, MapThenFoldSet
  <1>5. t = [u \in SUBSET (1..n) |-> Value(t, u)]
    <2>1. PICK w : Up(w, n)
      BY <1>3
    <2>2. w = [u \in SUBSET DOMAIN list |-> Value(w, u)]
      BY <2>1
    <2>. HIDE DEF Value
    <2>3. t = [u \in SUBSET DOMAIN list |-> Value(t, u)]
      BY <2>2, Zenon
    <2>. QED  BY <2>3
  <1>. HIDE DEF t
  <1>6. t[{}] = a
    BY <1>5
  <1>7. ASSUME NEW i \in 1..n
        PROVE  t[1..i] = CopyChannel(t[1..(i - 1)], list[i])
    <2>1. i - 1 \in Nat /\ (i - 1) + 1 = i
      OBVIOUS
    <2>2. Max(1..i) = i /\ (1..i) \ {i} = 1..(i - 1)
      BY <2>1, LargestIs
    <2>3. 1..i \in SUBSET (1..n) /\ 1..i # {}
      OBVIOUS
    <2>4. t[1..i] = Value(t, 1..i)
      <3>. HIDE DEF Value
      <3>. QED  BY <1>5, <2>3
    <2>. QED  BY <2>2, <2>3, <2>4
  <1>. DEFINE f == [i \in 0..n |-> t[1..i]]
  <1>8. f[0] = a /\ f[n] = t[DOMAIN list]
    <2>1. 1..0 = {} /\ 0 \in 0..n /\ n \in 0..n
      OBVIOUS
    <2>. QED  BY <1>6, <2>1
  <1>9. ASSUME NEW i \in 1..n
        PROVE  f[i] = CopyChannel(f[i - 1], list[i])
    <2>1. i \in 0..n /\ i - 1 \in 0..n
      OBVIOUS
    <2>. QED  BY <1>7, <2>1
  <1>. HIDE DEF f
  <1>. QED  BY <1>4, <1>8, <1>9

CopiedSegments(a, to, list, c) ==
    FoldLeft(LAMBDA e, seg : copy_equidistant_segment(e, to, seg, c), a, list)

LEMMA SegmentsUnfold ==
    ASSUME NEW a, NEW to, NEW c, NEW list, NEW n \in Nat, DOMAIN list = 1..n
    PROVE  \E f : /\ f[0] = a
                  /\ \A i \in 1..n : f[i] = copy_equidistant_segment(f[i - 1], to, list[i], c)
                  /\ CopiedSegments(a, to, list, c) = f[n]
  <1>. DEFINE Value(t, u) == IF u = {} THEN a ELSE copy_equidistant_segment(t[u \ {Max(u)}], to, list[Max(u)], c)
              Up(t, k) == t = [u \in SUBSET (1..k) |-> Value(t, u)]
              K == {k \in Nat : \E t : Up(t, k)}
  <1>1. 0 \in K
    <2>. DEFINE t == [u \in SUBSET (1..0) |-> a]
    <2>1. \A u \in SUBSET (1..0) : u = {}
      OBVIOUS
    <2>2. Up(t, 0)
      BY <2>1
    <2>. QED  BY <2>2
  <1>2. ASSUME NEW k \in Nat, k \in K
        PROVE  k + 1 \in K
    <2>1. PICK t : Up(t, k)
      BY <1>2
    <2>. DEFINE r == [u \in SUBSET (1..(k + 1)) |-> Value(t, u)]
    <2>2. ASSUME NEW u \in SUBSET (1..k)
          PROVE  r[u] = t[u]
      <3>1. u \in SUBSET (1..(k + 1))
        OBVIOUS
      <3>. HIDE DEF Value
      <3>. QED  BY <2>1, <3>1
    <2>3. ASSUME NEW u \in SUBSET (1..(k + 1))
          PROVE  Value(t, u) = Value(r, u)
      <3>1. u # {} => r[u \ {Max(u)}] = t[u \ {Max(u)}]
        BY <2>2, LargestIs
      <3>. HIDE DEF r
      <3>. QED  BY <3>1
    <2>4. Up(r, k + 1)
      <3>. HIDE DEF Value
      <3>. QED  BY <2>3
    <2>. HIDE DEF Up, r
    <2>. QED  BY <2>4
  <1>3. n \in K
    <2>. HIDE DEF K
    <2>. QED  BY <1>1, <1>2, Induction
  <1>. DEFINE t == CHOOSE it : it = [u \in SUBSET DOMAIN list |-> Value(it, u)]
  <1>4. CopiedSegments(a, to, list, c) = t[DOMAIN list]
    BY Zenon DEF CopiedSegments, FoldLeft, MapThenFoldSet
  <1>5. t = [u \in SUBSET (1..n) |-> Value(t, u)]
    <2>1. PICK w : Up(w, n)
      BY <1>3
    <2>2. w = [u \in SUBSET DOMAIN list |-> Value(w, u)]
      BY <2>1
    <2>. HIDE DEF Value
    <2>3. t = [u \in SUBSET DOMAIN list |-> Value(t, u)]
      BY <2>2, Zenon
    <2>. QED  BY <2>3
  <1>. HIDE DEF t
  <1>6. t[{}] = a
    BY <1>5
  <1>7. ASSUME NEW i \in 1..n
        PROVE  t[1..i] = copy_equidistant_segment(t[1..(i - 1)], to, list[i], c)
    <2>1. i - 1 \in Nat /\ (i - 1) + 1 = i
      OBVIOUS
    <2>2. Max(1..i) = i /\ (1..i) \ {i} = 1..(i - 1)
      BY <2>1, LargestIs
    <2>3. 1..i \in SUBSET (1..n) /\ 1..i # {}
      OBVIOUS
    <2>4. t[1..i] = Value(t, 1..i)
      <3>. HIDE DEF Value
      <3>. QED  BY <1>5, <2>3
    <2>. QED  BY <2>2, <2>3, <2>4
  <1>. DEFINE f == [i \in 0..n |-> t[1..i]]
  <1>8. f[0] = a /\ f[n] = t[DOMAIN list]
    <2>1. 1..0 = {} /\ 0 \in 0..n /\ n \in 0..n
      OBVIOUS
    <2>. QED  BY <1>6, <2>1
  <1>9. ASSUME NEW i \in 1..n
        PROVE  f[i] = copy_equidistant_segment(f[i - 1], to, list[i], c)
    <2>1. i \in 0..n /\ i - 1 \in 0..n
      OBVIOUS
    <2>. QED  BY <1>7, <2>1
  <1>. HIDE DEF f
  <1>. QED  BY <1>4, <1>8, <1>9
---------------------------------------------------------------------------
(* The channels of the manager that is copied. *)

LoadedFields == {"data_type", "state", "samples", "segments", "timestamps_ns", "last_timestamp_ns"}

IsLoaded(c) == c = [x \in LoadedFields |-> c[x]]

HasRoom(v) == SizeOf(v) \in Nat /\ SizeOf(v) + 13 <= MaxPayload[4]

SegmentTo(seg) == seg.start_index + seg.sample_count

\* What from_manager relies on: the segments are inside the samples, the others have
\* their stamps, and each string has room in a block.
Copyable(c) ==
    /\ IsLoaded(c)
    /\ c.data_type \in S!DataTypes /\ c.state \in S!BuilderStates
    /\ c.state = "Unsupported" <=> c.data_type = "unsupported"
    /\ c.state = "Variable" <=> c.data_type \in VariableTypes
    /\ c.samples \in Seq(Nat) /\ IsSequence(c.timestamps_ns) /\ c.segments \in Seq(S!Segment)
    /\ \A i \in DOMAIN c.samples : HasRoom(c.samples[i])
    /\ \A k \in DOMAIN c.segments : SegmentTo(c.segments[k]) <= Len(c.samples)
    /\ c.state = "Equidistant" =>
          c.segments # <<>> /\ SegmentTo(c.segments[Len(c.segments)]) = Len(c.samples)
    /\ c.state # "Equidistant" => Len(c.timestamps_ns) = Len(c.samples)
    /\ c.state = "Pending" => c.samples = <<>>

LEMMA SourceBlockFields ==
    ASSUME NEW b \in SourceBlocks
    PROVE  /\ b.kind \in S!Kinds /\ b.data_type # "unsupported"
           /\ b.start \in Int /\ b.period \in Nat /\ b.times \in Seq(Int) /\ b.values \in Seq(Nat)
           /\ \A i \in DOMAIN b.values : HasRoom(b.values[i])
           /\ b.kind \in {"AbsTimestampData", "ContinuedRelStampData"} => Len(b.times) = Len(b.values)
  <1>1. b \in S!BlockType
    BY SourceAssumption
  <1>2. /\ b.kind \in S!Kinds /\ b.start \in Int /\ b.period \in Nat
        /\ b.times \in Seq(Int) /\ b.values \in Seq(Nat)
    BY <1>1 DEF S!BlockType
  <1>3. /\ b.data_type # "unsupported"
        /\ b.kind \in {"AbsTimestampData", "ContinuedRelStampData"} => Len(b.times) = Len(b.values)
        /\ \A i \in DOMAIN b.values : HasRoom(b.values[i])
    BY SourceAssumption DEF HasRoom
  <1>. QED  BY <1>2, <1>3

\* The samples of a block behind those of the channel.
LEMMA MoreSamples ==
    ASSUME NEW s \in Seq(Nat), NEW v \in Seq(Nat),
           \A i \in DOMAIN s : HasRoom(s[i]), \A i \in DOMAIN v : HasRoom(v[i])
    PROVE  /\ s \o v \in Seq(Nat) /\ Len(s \o v) = Len(s) + Len(v)
           /\ Len(s) \in Nat /\ Len(v) \in Nat
           /\ \A i \in DOMAIN (s \o v) : HasRoom((s \o v)[i])
  <1>1. s \o v \in Seq(Nat) /\ Len(s \o v) = Len(s) + Len(v)
    OBVIOUS
  <1>2. ASSUME NEW i \in DOMAIN (s \o v)
        PROVE  HasRoom((s \o v)[i])
    <2>1. CASE i <= Len(s)
      BY <2>1
    <2>2. CASE i > Len(s)
      <3>1. (s \o v)[i] = v[i - Len(s)] /\ i - Len(s) \in DOMAIN v
        BY <2>2
      <3>. QED  BY <3>1
    <2>. QED  BY <2>1, <2>2
  <1>. QED  BY <1>1, <1>2

LEMMA MoreThan == \A x, y, z \in Nat : x <= y => x <= y + z
  OBVIOUS

LEMMA StartCopyable ==
    ASSUME NEW c, NEW b \in SourceBlocks, Copyable(c), c.state \in {"Pending", "Equidistant"}
    PROVE  Copyable(S!apply_start(c, b))
  <1>. DEFINE d == S!apply_start(c, b)
              n == Len(c.segments)
              seg == [start |-> b.start, period |-> b.period,
                      start_index |-> Len(c.samples), sample_count |-> Len(b.values)]
  <1>1. /\ IsLoaded(d) /\ d.state = "Equidistant" /\ d.data_type = c.data_type
        /\ d.samples = c.samples \o b.values
        /\ d.segments = Append(c.segments, seg)
        /\ d.timestamps_ns = c.timestamps_ns
    <2>1. IsLoaded(c)
      BY DEF Copyable
    <2>. QED  BY <2>1 DEF S!apply_start, IsLoaded, LoadedFields
  <1>. HIDE DEF d
  <1>2. /\ d.samples \in Seq(Nat) /\ \A i \in DOMAIN d.samples : HasRoom(d.samples[i])
        /\ Len(d.samples) = Len(c.samples) + Len(b.values)
        /\ Len(c.samples) \in Nat /\ Len(b.values) \in Nat
    <2>1. /\ c.samples \in Seq(Nat) /\ b.values \in Seq(Nat)
          /\ \A i \in DOMAIN c.samples : HasRoom(c.samples[i])
          /\ \A i \in DOMAIN b.values : HasRoom(b.values[i])
      BY SourceBlockFields DEF Copyable
    <2>. QED  BY <1>1, <2>1, MoreSamples
  <1>3. /\ seg \in S!Segment /\ SegmentTo(seg) = Len(d.samples)
    BY <1>2, SourceBlockFields DEF S!Segment, SegmentTo
  <1>. HIDE DEF seg
  <1>4. /\ d.segments \in Seq(S!Segment) /\ d.segments # <<>>
        /\ d.segments[Len(d.segments)] = seg
        /\ \A k \in DOMAIN d.segments : d.segments[k] = seg \/ (k \in DOMAIN c.segments /\ d.segments[k] = c.segments[k])
    <2>. DEFINE G == S!Segment
    <2>1. c.segments \in Seq(G) /\ seg \in G
      BY <1>3 DEF Copyable
    <2>. HIDE DEF G
    <2>2. /\ Append(c.segments, seg) \in Seq(G) /\ Append(c.segments, seg) # <<>>
          /\ Len(Append(c.segments, seg)) = n + 1 /\ n \in Nat
          /\ DOMAIN Append(c.segments, seg) = 1..(n + 1) /\ DOMAIN c.segments = 1..n
          /\ Append(c.segments, seg)[n + 1] = seg
          /\ \A k \in 1..n : Append(c.segments, seg)[k] = c.segments[k]
      BY <2>1
    <2>3. \A k \in 1..(n + 1) : k = n + 1 \/ k \in 1..n
      BY <2>2
    <2>. QED  BY <1>1, <2>2, <2>3 DEF G
  <1>5. \A k \in DOMAIN d.segments : SegmentTo(d.segments[k]) <= Len(d.samples)
    <2>1. \A k \in DOMAIN c.segments : c.segments[k] \in S!Segment /\ SegmentTo(c.segments[k]) <= Len(c.samples)
      BY DEF Copyable
    <2>2. \A g \in S!Segment : SegmentTo(g) \in Nat
      BY DEF S!Segment, SegmentTo
    <2>3. \A k \in DOMAIN c.segments : SegmentTo(c.segments[k]) <= Len(d.samples)
      BY <1>2, <2>1, <2>2, MoreThan
    <2>4. SegmentTo(seg) <= Len(d.samples)
      BY <1>2, <1>3
    <2>. QED  BY <1>4, <2>3, <2>4
  <1>6. Copyable(d)
    BY <1>1, <1>2, <1>3, <1>4, <1>5 DEF Copyable, S!BuilderStates
  <1>. QED  BY <1>6 DEF d

LEMMA ContinuedCopyable ==
    ASSUME NEW c, NEW b \in SourceBlocks, Copyable(c), c.state = "Equidistant"
    PROVE  Copyable(S!apply_continued(c, b))
  <1>. DEFINE d == S!apply_continued(c, b)
              n == Len(c.segments)
              count == c.segments[n].sample_count + Len(b.values)
  <1>1. /\ IsLoaded(d) /\ d.state = "Equidistant" /\ d.data_type = c.data_type
        /\ d.samples = c.samples \o b.values
        /\ d.segments = [c.segments EXCEPT ![n].sample_count = count]
        /\ d.timestamps_ns = c.timestamps_ns
    <2>1. IsLoaded(c)
      BY DEF Copyable
    <2>. QED  BY <2>1 DEF S!apply_continued, IsLoaded, LoadedFields
  <1>. HIDE DEF d
  <1>2. /\ d.samples \in Seq(Nat) /\ \A i \in DOMAIN d.samples : HasRoom(d.samples[i])
        /\ Len(d.samples) = Len(c.samples) + Len(b.values)
        /\ Len(c.samples) \in Nat /\ Len(b.values) \in Nat
    <2>1. /\ c.samples \in Seq(Nat) /\ b.values \in Seq(Nat)
          /\ \A i \in DOMAIN c.samples : HasRoom(c.samples[i])
          /\ \A i \in DOMAIN b.values : HasRoom(b.values[i])
      BY SourceBlockFields DEF Copyable
    <2>. QED  BY <1>1, <2>1, MoreSamples
  <1>3. /\ c.segments \in Seq(S!Segment) /\ n \in Nat /\ n \in 1..n /\ DOMAIN c.segments = 1..n
        /\ c.segments[n] \in S!Segment
    <2>1. c.segments \in Seq(S!Segment) /\ c.segments # <<>>
      BY DEF Copyable
    <2>. DEFINE G == S!Segment
    <2>. HIDE DEF G
    <2>2. \A s \in Seq(G) : s # <<>> => Len(s) \in Nat /\ Len(s) \in 1..Len(s) /\ DOMAIN s = 1..Len(s) /\ s[Len(s)] \in G
      OBVIOUS
    <2>. QED  BY <2>1, <2>2 DEF G
  <1>4. count \in Nat
    <2>1. c.segments[n].sample_count \in Nat
      BY <1>3 DEF S!Segment
    <2>2. \A i, j \in Nat : i + j \in Nat
      OBVIOUS
    <2>. QED  BY <1>2, <2>1, <2>2
  <1>. HIDE DEF count
  <1>5. PICK seg \in S!Segment : /\ d.segments = [c.segments EXCEPT ![n] = seg]
                                 /\ seg.start_index = c.segments[n].start_index
                                 /\ seg.sample_count = count
    <2>1. [c.segments[n] EXCEPT !.sample_count = count] \in S!Segment
      BY <1>3, <1>4 DEF S!Segment
    <2>2. /\ [c.segments[n] EXCEPT !.sample_count = count].start_index
                = c.segments[n].start_index
          /\ [c.segments[n] EXCEPT !.sample_count = count].sample_count = count
      BY <1>3 DEF S!Segment
    <2>. QED  BY <1>1, <2>1, <2>2
  <1>. HIDE DEF n
  <1>6. /\ d.segments \in Seq(S!Segment) /\ Len(d.segments) = n /\ DOMAIN d.segments = 1..n
        /\ d.segments[n] = seg /\ d.segments # <<>>
        /\ \A k \in 1..n : k # n => d.segments[k] = c.segments[k]
    <2>. DEFINE G == S!Segment
    <2>1. c.segments \in Seq(G) /\ seg \in G /\ Len(c.segments) = n
      BY <1>3 DEF n
    <2>. HIDE DEF G
    <2>. QED  BY <1>3, <1>5, <2>1 DEF G
  <1>7. SegmentTo(seg) = Len(d.samples)
    <2>1. SegmentTo(c.segments[n]) = Len(c.samples)
      BY DEF Copyable, n
    <2>2. count = c.segments[n].sample_count + Len(b.values)
      BY DEF count, n
    <2>3. c.segments[n].start_index \in Nat /\ c.segments[n].sample_count \in Nat
      BY <1>3 DEF S!Segment
    <2>4. \A i, m, p, l \in Nat : i + m = l => i + (m + p) = l + p
      OBVIOUS
    <2>5. /\ SegmentTo(seg) = c.segments[n].start_index + count
          /\ SegmentTo(c.segments[n]) = c.segments[n].start_index + c.segments[n].sample_count
      BY <1>5 DEF SegmentTo
    <2>6. c.segments[n].start_index + (c.segments[n].sample_count + Len(b.values))
             = Len(c.samples) + Len(b.values)
      BY <1>2, <2>1, <2>3, <2>4, <2>5
    <2>. QED  BY <1>2, <2>2, <2>5, <2>6
  <1>8. \A k \in DOMAIN d.segments : SegmentTo(d.segments[k]) <= Len(d.samples)
    <2>1. \A k \in 1..n : c.segments[k] \in S!Segment /\ SegmentTo(c.segments[k]) <= Len(c.samples)
      BY <1>3 DEF Copyable
    <2>2. \A g \in S!Segment : SegmentTo(g) \in Nat
      BY DEF S!Segment, SegmentTo
    <2>3. \A k \in 1..n : SegmentTo(c.segments[k]) <= Len(d.samples)
      BY <1>2, <2>1, <2>2, MoreThan
    <2>4. SegmentTo(seg) <= Len(d.samples)
      BY <1>2, <1>7
    <2>. QED  BY <1>6, <2>3, <2>4
  <1>9. Copyable(d)
    BY <1>1, <1>2, <1>6, <1>7, <1>8 DEF Copyable
  <1>. QED  BY <1>9 DEF d

\* The values of a block and as many stamps behind those of the channel.
LEMMA StampedCopyable ==
    ASSUME NEW c, NEW b \in SourceBlocks, Copyable(c),
           c.state \in {"Pending", "Timestamped", "Variable"}, NEW d, NEW times,
           IsSequence(times), Len(times) = Len(b.values),
           IsLoaded(d), d.data_type = c.data_type,
           d.state = IF c.state = "Pending" THEN "Timestamped" ELSE c.state,
           d.samples = c.samples \o b.values, d.segments = c.segments,
           d.timestamps_ns = c.timestamps_ns \o times
    PROVE  Copyable(d)
  <1>1. /\ d.samples \in Seq(Nat) /\ \A i \in DOMAIN d.samples : HasRoom(d.samples[i])
        /\ Len(d.samples) = Len(c.samples) + Len(b.values)
        /\ Len(c.samples) \in Nat /\ Len(b.values) \in Nat
    <2>1. /\ c.samples \in Seq(Nat) /\ b.values \in Seq(Nat)
          /\ \A i \in DOMAIN c.samples : HasRoom(c.samples[i])
          /\ \A i \in DOMAIN b.values : HasRoom(b.values[i])
      BY SourceBlockFields DEF Copyable
    <2>. QED  BY <2>1, MoreSamples
  <1>2. /\ IsSequence(d.timestamps_ns)
        /\ Len(d.timestamps_ns) = Len(c.timestamps_ns) + Len(times)
    BY Concatenated DEF Copyable
  <1>3. Len(c.timestamps_ns) = Len(c.samples)
    BY DEF Copyable
  <1>4. d.segments \in Seq(S!Segment) /\ \A k \in DOMAIN d.segments : SegmentTo(d.segments[k]) <= Len(d.samples)
    <2>1. /\ c.segments \in Seq(S!Segment)
          /\ \A k \in DOMAIN c.segments : c.segments[k] \in S!Segment /\ SegmentTo(c.segments[k]) <= Len(c.samples)
      BY DEF Copyable
    <2>2. \A g \in S!Segment : SegmentTo(g) \in Nat
      BY DEF S!Segment, SegmentTo
    <2>. QED  BY <1>1, <2>1, <2>2, MoreThan
  <1>5. /\ d.state \in {"Timestamped", "Variable"}
        /\ d.state = "Variable" <=> d.data_type \in VariableTypes
        /\ d.data_type # "unsupported" /\ d.data_type \in S!DataTypes
    BY DEF Copyable
  <1>6. Len(d.timestamps_ns) = Len(d.samples)
    BY <1>1, <1>2, <1>3
  <1>. QED  BY <1>1, <1>2, <1>4, <1>5, <1>6 DEF Copyable, S!BuilderStates

LEMMA AccumulatedLength ==
    ASSUME NEW a, NEW deltas \in Seq(Int)
    PROVE  IsSequence(S!Accumulate(a, deltas)) /\ Len(S!Accumulate(a, deltas)) = Len(deltas)
  <1>. DEFINE t == CHOOSE u : u = [i \in 0..Len(deltas) |->
                      IF i = 0 THEN a ELSE S!saturating_add(u[i - 1], deltas[i])]
              r == [i \in 1..Len(deltas) |-> t[i]]
  <1>1. S!Accumulate(a, deltas) = [i \in DOMAIN deltas |-> t[i]]
    BY Zenon DEF S!Accumulate
  <1>. HIDE DEF t
  <1>2. S!Accumulate(a, deltas) = r /\ Len(deltas) \in Nat
    BY <1>1
  <1>3. r = [i \in 1..Len(deltas) |-> r[i]]
    OBVIOUS
  <1>4. Len(r) = Len(deltas)
    BY <1>2
  <1>. HIDE DEF r
  <1>5. IsSequence(r)
    BY <1>2, <1>3, Mapped
  <1>. QED  BY <1>2, <1>4, <1>5

\* A block that apply_block does not refuse.
LEMMA AppliedCopyable ==
    ASSUME NEW b \in SourceBlocks, S!Error(b) = "none", Copyable(s_builders[b.channel_index])
    PROVE  /\ Copyable(S!Applied(s_builders[b.channel_index], b))
           /\ S!Applied(s_builders[b.channel_index], b).data_type = s_builders[b.channel_index].data_type
  <1>. DEFINE c == s_builders[b.channel_index]
  <1>1. b.kind \in S!Kinds /\ IsLoaded(c)
    BY SourceBlockFields DEF Copyable
  <1>2. CASE b.kind = "Skipped"
    BY <1>2 DEF S!Applied
  <1>3. CASE b.kind # "Skipped"
    <2>1. b.channel_index \in S!Indices /\ b.data_type = c.data_type
      BY <1>3 DEF S!Error
    <2>2. c.state \in {"Pending", "Equidistant", "Timestamped", "Variable"}
      BY <2>1, SourceBlockFields DEF Copyable, S!BuilderStates
    <2>3. ~(b.kind = "ContinuedData" /\ c.state = "Pending") /\ ~S!Mixed(c, b)
      BY <1>3, <2>1 DEF S!Error
    <2>4. CASE b.kind = "StartData"
      <3>1. c.state \in {"Pending", "Equidistant"} /\ S!Applied(c, b) = S!apply_start(c, b)
        BY <2>2, <2>3, <2>4 DEF S!Mixed, S!Applied
      <3>2. S!apply_start(c, b).data_type = c.data_type
        BY <1>1 DEF S!apply_start, IsLoaded, LoadedFields
      <3>. QED  BY <3>1, <3>2, StartCopyable
    <2>5. CASE b.kind = "ContinuedData"
      <3>1. c.state = "Equidistant" /\ S!Applied(c, b) = S!apply_continued(c, b)
        BY <2>2, <2>3, <2>5 DEF S!Mixed, S!Applied
      <3>2. S!apply_continued(c, b).data_type = c.data_type
        BY <1>1 DEF S!apply_continued, IsLoaded, LoadedFields
      <3>. QED  BY <3>1, <3>2, ContinuedCopyable
    <2>6. CASE b.kind = "AbsTimestampData"
      <3>. DEFINE d == S!apply_abs_timestamped(c, b)
      <3>1. /\ c.state \in {"Pending", "Timestamped", "Variable"} /\ S!Applied(c, b) = d
        BY <2>2, <2>3, <2>6 DEF S!Mixed, S!Applied
      <3>2. /\ IsLoaded(d) /\ d.data_type = c.data_type
            /\ d.state = IF c.state = "Pending" THEN "Timestamped" ELSE c.state
            /\ d.samples = c.samples \o b.values /\ d.segments = c.segments
            /\ d.timestamps_ns = c.timestamps_ns \o b.times
        BY <1>1 DEF S!apply_abs_timestamped, IsLoaded, LoadedFields
      <3>3. IsSequence(b.times) /\ Len(b.times) = Len(b.values)
        BY <2>6, SourceBlockFields DEF IsSequence
      <3>. HIDE DEF d
      <3>4. Copyable(d)
        BY <3>1, <3>2, <3>3, StampedCopyable
      <3>. QED  BY <3>1, <3>2, <3>4
    <2>7. CASE b.kind = "ContinuedRelStampData"
      <3>. DEFINE d == S!apply_rel_timestamped(c, b)
                  times == S!Accumulate(c.last_timestamp_ns, b.times)
      <3>1. /\ c.state = "Timestamped" /\ S!Applied(c, b) = d
        BY <2>2, <2>3, <2>7 DEF S!Mixed, S!Applied
      <3>2. /\ IsLoaded(d) /\ d.data_type = c.data_type
            /\ d.state = c.state
            /\ d.samples = c.samples \o b.values /\ d.segments = c.segments
            /\ d.timestamps_ns = c.timestamps_ns \o times
        BY <1>1 DEF S!apply_rel_timestamped, IsLoaded, LoadedFields
      <3>3. IsSequence(times) /\ Len(times) = Len(b.values)
        BY <2>7, SourceBlockFields, AccumulatedLength
      <3>. HIDE DEF d, times
      <3>4. Copyable(d)
        BY <3>1, <3>2, <3>3, StampedCopyable
      <3>. QED  BY <3>1, <3>2, <3>4
    <2>. QED  BY <1>1, <1>3, <2>4, <2>5, <2>6, <2>7 DEF S!Kinds
  <1>. QED  BY <1>2, <1>3

---------------------------------------------------------------------------
(* The load of the recording. *)

SourceDefs == [index : 0..MaxIndex, name : STRING, data_type : S!DataTypes,
               channel_type : {"scalar", "unsupported"}, size_of_length_value : Widths]

LEMMA RecordedChannels ==
    /\ Len(Source) \in Nat /\ DOMAIN Source = 1..Len(Source) /\ DOMAIN Recorded = 1..Len(Source)
    /\ \A i \in 1..Len(Source) :
          /\ Source[i] \in SourceDefs
          /\ Recorded[i].index = Source[i].index /\ Recorded[i].data_type = Source[i].data_type
          /\ Recorded[i].name = Source[i].name
          /\ Source[i].index \in 0..MaxIndex /\ Source[i].index \in Int
  <1>1. Source \in Seq(SourceDefs)
    BY SourceAssumption DEF SourceDefs
  <1>2. \A s \in Seq(SourceDefs) : /\ Len(s) \in Nat /\ DOMAIN s = 1..Len(s)
                                   /\ \A i \in 1..Len(s) : s[i] \in SourceDefs
    OBVIOUS
  <1>3. ASSUME NEW i \in 1..Len(Source)
        PROVE  Source[i].index \in 0..MaxIndex /\ Source[i].index \in Int
    <2>1. Source[i].index \in 0..MaxIndex
      BY <1>1, <1>2 DEF SourceDefs
    <2>. QED  BY <2>1, LimitAssumption
  <1>. QED  BY <1>1, <1>2, <1>3 DEF Recorded, Loadable

\* The last definition of an index, for the manager and for the copy.
LEMMA LastDefinition ==
    ASSUME NEW ch \in S!Indices
    PROVE  \E l \in DOMAIN Source :
              /\ Source[l].index = ch
              /\ S!Definition(ch) = Recorded[l]
              /\ CopiedDef(ch) = [name |-> Source[l].name, data_type |-> Source[l].data_type,
                                  channel_type |-> Source[l].channel_type,
                                  size_of_length_value |-> Source[l].size_of_length_value]
  <1>. DEFINE D == {i \in DOMAIN Source : Source[i].index = ch}
  <1>1. D \in SUBSET (1..Len(Source)) /\ D # {} /\ Len(Source) \in Nat
    <2>1. \E i \in DOMAIN Recorded : Recorded[i].index = ch
      BY DEF S!Indices
    <2>. QED  BY <2>1, RecordedChannels
  <1>2. PICK l \in D : \A j \in D : l >= j
    <2>. HIDE DEF D
    <2>. QED  BY <1>1, LargestOfRange
  <1>3. /\ l \in DOMAIN Source /\ Source[l].index = ch
        /\ \A j \in DOMAIN Source : Source[j].index = ch => j <= l
    BY <1>1, <1>2
  <1>4. \A i \in DOMAIN Source :
           /\ Source[i].index = ch
           /\ \A j \in DOMAIN Source : Source[j].index = ch => j <= i
           => i = l
    BY <1>3, RecordedChannels
  <1>. HIDE DEF D
  <1>5. (CHOOSE i \in DOMAIN Source :
            /\ Source[i].index = ch
            /\ \A j \in DOMAIN Source : Source[j].index = ch => j <= i) = l
    BY <1>3, <1>4, Zenon
  <1>6. (CHOOSE i \in DOMAIN Recorded :
            /\ Recorded[i].index = ch
            /\ \A j \in DOMAIN Recorded : Recorded[j].index = ch => j <= i) = l
    <2>1. /\ l \in DOMAIN Recorded /\ Recorded[l].index = ch
          /\ \A j \in DOMAIN Recorded : Recorded[j].index = ch => j <= l
      BY <1>3, RecordedChannels
    <2>2. \A i \in DOMAIN Recorded :
             /\ Recorded[i].index = ch
             /\ \A j \in DOMAIN Recorded : Recorded[j].index = ch => j <= i
             => i = l
      BY <2>1, RecordedChannels
    <2>. QED  BY <2>1, <2>2, Zenon
  <1>. QED  BY <1>3, <1>5, <1>6, Zenon DEF CopiedDef, S!Definition

LEMMA NewCopyable ==
    ASSUME NEW ch \in S!Indices
    PROVE  Copyable(S!NewBuilder(ch)) /\ S!NewBuilder(ch).data_type = S!Definition(ch).data_type
  <1>. DEFINE c == S!NewBuilder(ch)
  <1>1. /\ c.samples = <<>> /\ c.segments = <<>> /\ c.timestamps_ns = <<>>
        /\ c.data_type = S!Definition(ch).data_type
        /\ c.state = S!initial_state_for(S!Definition(ch).data_type)
        /\ IsLoaded(c)
    BY DEF S!NewBuilder, IsLoaded, LoadedFields
  <1>2. /\ c.state \in {"Unsupported", "Variable", "Pending"}
        /\ c.state = "Unsupported" <=> c.data_type = "unsupported"
        /\ c.state = "Variable" <=> c.data_type \in VariableTypes
    BY <1>1 DEF S!initial_state_for, VariableTypes, S!VariableTypes
  <1>3. c.data_type \in S!DataTypes
    <2>1. PICK l \in DOMAIN Source : S!Definition(ch) = Recorded[l]
      BY LastDefinition
    <2>2. Recorded[l].data_type = Source[l].data_type /\ Source[l] \in SourceDefs
      BY <2>1, RecordedChannels
    <2>. QED  BY <1>1, <2>1, <2>2 DEF SourceDefs
  <1>. HIDE DEF c
  <1>4. /\ c.samples \in Seq(Nat) /\ c.segments \in Seq(S!Segment) /\ IsSequence(c.timestamps_ns)
        /\ \A i \in DOMAIN c.samples : HasRoom(c.samples[i])
        /\ \A k \in DOMAIN c.segments : SegmentTo(c.segments[k]) <= Len(c.samples)
        /\ Len(c.timestamps_ns) = Len(c.samples)
    <2>1. <<>> \in Seq(Nat) /\ <<>> \in Seq(S!Segment) /\ DOMAIN <<>> = {}
      OBVIOUS
    <2>. QED  BY <1>1, <2>1, EmptySequence
  <1>5. Copyable(c)
    BY <1>1, <1>2, <1>3, <1>4 DEF Copyable, S!BuilderStates
  <1>. QED  BY <1>1, <1>5 DEF c

\* The channels that the manager lists: each once, and supported.
ListedOnce ==
    /\ s_channels \in Seq(0..MaxIndex) /\ IsInjective(s_channels)
    /\ \A k \in DOMAIN s_channels : /\ s_channels[k] \in S!Indices
                                    /\ s_builders[s_channels[k]].state # "Unsupported"

SourceNamed ==
    s_by_name = [n \in {S!Definition(ch).name : ch \in S!ToSet(s_channels)} |->
                    S!SlotOfName(s_channels, n)]

SourceInv ==
    /\ DOMAIN s_builders = S!Indices
    /\ \A ch \in S!Indices : /\ Copyable(s_builders[ch])
                             /\ s_builders[ch].data_type = S!Definition(ch).data_type
    /\ s_outcome = "loaded" => ListedOnce /\ SourceNamed

LEMMA FinishLists ==
    ASSUME S!Finish
    PROVE  ListedOnce'
  <1>. DEFINE m == Len(Source)
              x == [i \in 1..m |-> Recorded[i].index]
              list == S!Finalized
  <1>1. m \in Nat /\ DOMAIN Recorded = 1..m /\ \A i \in 1..m : Recorded[i].index \in 0..MaxIndex /\ Recorded[i].index \in Int
    BY RecordedChannels
  <1>2. FilterOf(list, m, S_Supported, x, Int)
    <2>. HIDE DEF m
    <2>. QED  BY <1>1, SourceFinalized
  <1>. HIDE DEF list
  <1>3. \A i \in 1..m : x[i] = Recorded[i].index
    OBVIOUS
  <1>. HIDE DEF x, m
  <1>4. \A i, j \in {h \in 1..m : h \in S_Supported} : x[i] = x[j] => i = j
    <2>. SUFFICES ASSUME NEW i \in 1..m, NEW j \in 1..m, i < j, S!FirstOf(j)
                  PROVE  Recorded[i].index # Recorded[j].index
      <3>1. \A i, j \in 1..m : i = j \/ i < j \/ j < i
        BY <1>1
      <3>. QED  BY <1>3, <3>1 DEF S_Supported
    <2>1. i \in 1..(j - 1)
      BY <1>1
    <2>. QED  BY <2>1 DEF S!FirstOf
  <1>5. /\ list \in Seq(Int) /\ IsInjective(list)
        /\ ToSet(list) = {x[i] : i \in {j \in 1..m : j \in S_Supported}}
    BY <1>2, <1>4 DEF FilterOf
  <1>6. ASSUME NEW k \in DOMAIN list
        PROVE  /\ list[k] \in 0..MaxIndex /\ list[k] \in S!Indices
               /\ s_builders[list[k]].state # "Unsupported"
    <2>1. list[k] \in ToSet(list)
      BY DEF ToSet
    <2>2. PICK i \in 1..m : i \in S_Supported /\ list[k] = x[i]
      BY <1>5, <2>1
    <2>. QED  BY <1>1, <1>3, <2>2 DEF S_Supported, S!Indices
  <1>7. list \in Seq(0..MaxIndex)
    <2>. DEFINE X == 0..MaxIndex
    <2>1. \A k \in DOMAIN list : list[k] \in X
      BY <1>6
    <2>2. list \in Seq(Int)
      BY <1>5
    <2>. HIDE DEF X
    <2>3. list = [k \in 1..Len(list) |-> list[k]] /\ Len(list) \in Nat /\ DOMAIN list = 1..Len(list)
      BY <2>2
    <2>4. [k \in 1..Len(list) |-> list[k]] \in Seq(X)
      BY <2>1, <2>3
    <2>5. list \in Seq(X)
      BY <2>3, <2>4
    <2>. QED  BY <2>5 DEF X
  <1>8. s_channels' = list /\ UNCHANGED s_builders
    BY DEF S!Finish, list
  <1>. QED  BY <1>5, <1>6, <1>7, <1>8 DEF ListedOnce, S!Indices

LEMMA SourceInit == S!Init => SourceInv
  <1>. SUFFICES ASSUME S!Init
                PROVE  SourceInv
    OBVIOUS
  <1>1. s_builders = [ch \in S!Indices |-> S!NewBuilder(ch)] /\ s_outcome = "loading"
    BY DEF S!Init
  <1>. QED  BY <1>1, NewCopyable DEF SourceInv

LEMMA SourceStep ==
    ASSUME SourceInv, LoadSource \/ UNCHANGED source
    PROVE  SourceInv'
  <1>1. CASE UNCHANGED source
    BY <1>1 DEF source, SourceInv, ListedOnce, SourceNamed
  <1>2. ASSUME NEW b \in SourceBlocks, S!apply_block(b)
        PROVE  SourceInv'
    <2>1. /\ S!Error(b) = "none" /\ s_outcome = "loading" /\ s_outcome' = s_outcome
          /\ s_builders' = [s_builders EXCEPT ![b.channel_index] = S!Applied(@, b)]
      BY <1>2 DEF S!apply_block
    <2>2. b.channel_index \in S!Indices
      BY <2>1 DEF S!Error
    <2>3. /\ Copyable(S!Applied(s_builders[b.channel_index], b))
          /\ S!Applied(s_builders[b.channel_index], b).data_type = s_builders[b.channel_index].data_type
      BY <2>1, <2>2, AppliedCopyable DEF SourceInv
    <2>4. /\ DOMAIN s_builders' = S!Indices
          /\ \A ch \in S!Indices : s_builders'[ch] = IF ch = b.channel_index
                                                     THEN S!Applied(s_builders[b.channel_index], b)
                                                     ELSE s_builders[ch]
      BY <2>1, <2>2 DEF SourceInv
    <2>5. \A ch \in S!Indices : /\ Copyable(s_builders'[ch])
                                /\ s_builders'[ch].data_type = S!Definition(ch).data_type
      BY <2>3, <2>4 DEF SourceInv
    <2>. QED  BY <2>1, <2>4, <2>5 DEF SourceInv
  <1>3. CASE S!Finish
    <2>1. UNCHANGED s_builders /\ SourceNamed'
      BY <1>3, Zenon DEF S!Finish, SourceNamed
    <2>. QED  BY <1>3, <2>1, FinishLists DEF SourceInv
  <1>. QED  BY <1>1, <1>2, <1>3 DEF LoadSource

\* One sequence begins another.
Begins(s, t) == Len(s) <= Len(t) /\ \A i \in 1..Len(s) : s[i] = t[i]

LEMMA BeginsAll ==
    ASSUME NEW X, NEW s \in Seq(X), NEW t \in Seq(X), NEW u \in Seq(X), Begins(s, t), Begins(t, u)
    PROVE  Begins(s, u)
  BY DEF Begins

LEMMA BeginsItself ==
    ASSUME NEW X, NEW s \in Seq(X)
    PROVE  Begins(s, s)
  BY DEF Begins

LEMMA BeginsLonger ==
    ASSUME NEW X, NEW s \in Seq(X), NEW t \in Seq(X), NEW u \in Seq(X), Begins(t, u)
    PROVE  Begins(s \o t, s \o u) /\ Begins(s, s \o u)
  <1>1. /\ Len(s \o t) = Len(s) + Len(t) /\ Len(s \o u) = Len(s) + Len(u)
        /\ Len(s) \in Nat /\ Len(t) \in Nat /\ Len(u) \in Nat
    OBVIOUS
  <1>2. \A i \in 1..(Len(s) + Len(t)) : (s \o t)[i] = IF i <= Len(s) THEN s[i] ELSE t[i - Len(s)]
    OBVIOUS
  <1>3. \A i \in 1..(Len(s) + Len(u)) : (s \o u)[i] = IF i <= Len(s) THEN s[i] ELSE u[i - Len(s)]
    OBVIOUS
  <1>4. Len(t) <= Len(u) /\ \A i \in 1..Len(t) : t[i] = u[i]
    BY DEF Begins
  <1>. DEFINE f == s \o t
              g == s \o u
              l == Len(s)
              m == Len(t)
              n == Len(u)
  <1>. HIDE DEF f, g, l, m, n
  <1>5. \A i \in 1..(l + m) : f[i] = g[i]
    <2>. SUFFICES ASSUME NEW i \in 1..(l + m)
                  PROVE  f[i] = g[i]
      OBVIOUS
    <2>1. l \in Nat /\ m \in Nat /\ n \in Nat /\ m <= n
      BY <1>1, <1>4 DEF l, m, n
    <2>2. i \in 1..(l + n)
      BY <2>1
    <2>3. /\ f[i] = IF i <= l THEN s[i] ELSE t[i - l]
          /\ g[i] = IF i <= l THEN s[i] ELSE u[i - l]
      BY <1>2, <1>3, <2>2 DEF f, g, l, m, n
    <2>4. i > l => i - l \in 1..m
      BY <2>1
    <2>5. i > l => t[i - l] = u[i - l]
      BY <1>4, <2>4 DEF m
    <2>. QED  BY <2>1, <2>3, <2>5
  <1>6. \A i \in 1..l : s[i] = g[i]
    BY <1>1, <1>3 DEF g, l
  <1>7. l + m <= l + n /\ l <= l + n
    BY <1>1, <1>4 DEF l, m, n
  <1>8. Len(f) = l + m /\ Len(g) = l + n
    BY <1>1 DEF f, g, l, m, n
  <1>9. Begins(f, g) /\ Begins(s, g)
    BY <1>5, <1>6, <1>7, <1>8 DEF Begins, l
  <1>. QED  BY <1>9 DEF f, g

\* The first sequences of s, flattened, begin s.
LEMMA FlattenTake ==
    ASSUME NEW X, NEW s \in Seq(Seq(X)), NEW n \in 0..Len(s)
    PROVE  Begins(FlattenSeq(SubSeq(s, 1, n)), FlattenSeq(s))
  <1>. DEFINE L == Len(s)
              h(m) == FlattenSeq(SubSeq(s, 1, m))
              K == {d \in Nat : n + d \in 0..L => Begins(h(n), h(n + d))}
  <1>1. L \in Nat /\ n \in Nat
    OBVIOUS
  <1>2. \A m \in 0..L : h(m) \in Seq(X)
    <2>. SUFFICES ASSUME NEW m \in 0..L
                  PROVE  h(m) \in Seq(X)
      OBVIOUS
    <2>1. SubSeq(s, 1, m) \in Seq(Seq(X))
      BY <1>1
    <2>. QED  BY <2>1, FlattenType
  <1>3. 0 \in K
    <2>1. n + 0 = n /\ Begins(h(n), h(n))
      BY <1>1, <1>2, BeginsItself
    <2>. QED  BY <2>1
  <1>4. ASSUME NEW m \in Nat, m + 1 \in 1..L
        PROVE  h(m + 1) = h(m) \o s[m + 1] /\ s[m + 1] \in Seq(X)
    <2>1. s[m + 1] \in Seq(X) /\ SubSeq(s, 1, m) \in Seq(Seq(X))
      BY <1>1, <1>4
    <2>2. SubSeq(s, 1, m + 1) = Append(SubSeq(s, 1, m), s[m + 1])
      <3>. DEFINE q == SubSeq(s, 1, m + 1)
                  r == SubSeq(s, 1, m)
                  a == Append(r, s[m + 1])
      <3>1. q \in Seq(Seq(X)) /\ Len(q) = m + 1 /\ \A i \in 1..(m + 1) : q[i] = s[i]
        BY <1>1, <1>4
      <3>2. r \in Seq(Seq(X)) /\ Len(r) = m /\ \A i \in 1..m : r[i] = s[i]
        BY <1>1, <1>4
      <3>. HIDE DEF q, r
      <3>3. a \in Seq(Seq(X)) /\ Len(a) = m + 1 /\ \A i \in 1..(m + 1) : a[i] = s[i]
        BY <2>1, <3>2
      <3>. HIDE DEF a
      <3>4. q = [i \in 1..(m + 1) |-> q[i]] /\ a = [i \in 1..(m + 1) |-> a[i]]
        BY <3>1, <3>3
      <3>5. q = a
        BY <3>1, <3>3, <3>4
      <3>. QED  BY <3>5 DEF q, r, a
    <2>. QED  BY <2>1, <2>2, FlattenAppend
  <1>. HIDE DEF h
  <1>5. ASSUME NEW d \in Nat, d \in K
        PROVE  d + 1 \in K
    <2>. SUFFICES ASSUME n + (d + 1) \in 0..L
                  PROVE  Begins(h(n), h(n + (d + 1)))
      OBVIOUS
    <2>. DEFINE m == n + d
    <2>1. m \in Nat /\ m \in 0..L /\ m + 1 \in 1..L /\ n + (d + 1) = m + 1
      BY <1>1
    <2>2. Begins(h(n), h(m))
      BY <1>5, <2>1
    <2>. HIDE DEF m
    <2>3. h(m + 1) = h(m) \o s[m + 1] /\ s[m + 1] \in Seq(X) /\ h(m) \in Seq(X)
      BY <1>2, <1>4, <2>1
    <2>4. Begins(h(m), h(m + 1))
      <3>. DEFINE e == s[m + 1]
                  a == h(m)
      <3>1. e \in Seq(X) /\ a \in Seq(X) /\ h(m + 1) = a \o e
        BY <2>3
      <3>. HIDE DEF e, a
      <3>2. Begins(e, e)
        BY <3>1, BeginsItself
      <3>3. Begins(a, a \o e)
        BY <3>1, <3>2, BeginsLonger
      <3>. QED  BY <3>1, <3>3 DEF a
    <2>5. h(n) \in Seq(X) /\ h(m + 1) \in Seq(X)
      BY <1>1, <1>2, <2>1
    <2>6. Begins(h(n), h(m + 1))
      BY <2>2, <2>3, <2>4, <2>5, BeginsAll
    <2>. QED  BY <2>1, <2>6
  <1>. HIDE DEF K
  <1>6. L - n \in Nat /\ L - n \in K
    <2>1. L - n \in Nat
      BY <1>1
    <2>2. \A d \in Nat : d \in K => d + 1 \in K
      BY <1>5
    <2>3. \A d \in Nat : d \in K
      BY <1>3, <2>2, Induction
    <2>. QED  BY <2>1, <2>3
  <1>7. n + (L - n) = L /\ L \in 0..L
    BY <1>1
  <1>8. Begins(h(n), h(L))
    BY <1>6, <1>7 DEF K
  <1>9. SubSeq(s, 1, L) = s
    OBVIOUS
  <1>. QED  BY <1>8, <1>9 DEF h

\* So do the first of them with a beginning of the next.
LEMMA FlattenBegins ==
    ASSUME NEW X, NEW s \in Seq(Seq(X)), NEW t \in Seq(Seq(X)), Len(s) <= Len(t),
           \A k \in 1..Len(s) : k < Len(s) => s[k] = t[k],
           \A k \in 1..Len(s) : k = Len(s) => Begins(s[k], t[k])
    PROVE  Begins(FlattenSeq(s), FlattenSeq(t))
  <1>. DEFINE n == Len(s)
              f == SubSeq(t, 1, n - 1)
              g == SubSeq(t, 1, n)
  <1>1. n \in Nat /\ Len(t) \in Nat
    OBVIOUS
  <1>2. CASE n = 0
    <2>1. s = <<>> /\ FlattenSeq(s) = <<>>
      BY <1>2, FlattenNothing
    <2>2. Len(<<>>) = 0 /\ FlattenSeq(t) \in Seq(X)
      BY FlattenType
    <2>3. Begins(<<>>, FlattenSeq(t))
      BY <2>2 DEF Begins
    <2>. QED  BY <2>1, <2>3
  <1>3. CASE n # 0
    <2>1. n \in 1..n /\ n \in 1..Len(t) /\ n - 1 \in Nat /\ n \in 0..Len(t)
      BY <1>1, <1>3
    <2>2. f \in Seq(Seq(X)) /\ Len(f) = n - 1 /\ \A i \in 1..(n - 1) : f[i] = t[i]
      <3>. DEFINE l == n - 1
      <3>1. l \in Nat /\ l \in 0..Len(t) /\ f = SubSeq(t, 1, l)
        BY <1>1, <2>1
      <3>. HIDE DEF l, f
      <3>2. f \in Seq(Seq(X)) /\ Len(f) = l /\ \A i \in 1..l : f[i] = t[i]
        BY <3>1
      <3>. QED  BY <3>2 DEF l
    <2>3. g \in Seq(Seq(X)) /\ Len(g) = n /\ \A i \in 1..n : g[i] = t[i]
      BY <2>1
    <2>4. s[n] \in Seq(X) /\ t[n] \in Seq(X) /\ Begins(s[n], t[n])
      BY <2>1
    <2>. HIDE DEF f, g
    <2>5. \A i \in 1..n : i # n => i \in 1..(n - 1)
      BY <1>1
    <2>6. s = Append(f, s[n])
      <3>. DEFINE a == Append(f, s[n])
      <3>1. a \in Seq(Seq(X)) /\ Len(a) = n /\ \A i \in 1..(n - 1) : a[i] = f[i]
        BY <2>1, <2>2, <2>4
      <3>2. a[n] = s[n]
        BY <2>1, <2>2, <2>4
      <3>. HIDE DEF a
      <3>3. \A i \in 1..n : a[i] = s[i]
        <4>1. \A i \in 1..n : i # n => a[i] = f[i] /\ f[i] = t[i] /\ t[i] = s[i]
          <5>1. \A i \in 1..n : i # n => i < n
            BY <1>1
          <5>. QED  BY <2>2, <2>5, <3>1, <5>1
        <4>. QED  BY <3>2, <4>1
      <3>4. a = [i \in 1..n |-> a[i]] /\ s = [i \in 1..n |-> s[i]]
        BY <3>1
      <3>5. a = s
        BY <3>3, <3>4
      <3>. QED  BY <3>5 DEF a
    <2>7. g = Append(f, t[n])
      <3>. DEFINE a == Append(f, t[n])
      <3>1. a \in Seq(Seq(X)) /\ Len(a) = n /\ \A i \in 1..(n - 1) : a[i] = f[i]
        BY <2>1, <2>2, <2>4
      <3>2. a[n] = t[n]
        BY <2>1, <2>2, <2>4
      <3>. HIDE DEF a
      <3>3. \A i \in 1..n : a[i] = g[i]
        BY <1>1, <2>1, <2>2, <2>3, <2>5, <3>1, <3>2
      <3>4. a = [i \in 1..n |-> a[i]] /\ g = [i \in 1..n |-> g[i]]
        BY <2>3, <3>1
      <3>5. a = g
        BY <3>3, <3>4
      <3>. QED  BY <3>5 DEF a
    <2>8. FlattenSeq(s) = FlattenSeq(f) \o s[n] /\ FlattenSeq(g) = FlattenSeq(f) \o t[n]
      BY <2>2, <2>4, <2>6, <2>7, FlattenAppend
    <2>9. FlattenSeq(f) \in Seq(X) /\ FlattenSeq(g) \in Seq(X) /\ FlattenSeq(s) \in Seq(X)
          /\ FlattenSeq(t) \in Seq(X)
      BY <2>2, <2>3, FlattenType
    <2>10. Begins(FlattenSeq(s), FlattenSeq(g))
      BY <2>4, <2>8, <2>9, BeginsLonger
    <2>11. Begins(FlattenSeq(g), FlattenSeq(t))
      BY <2>1, FlattenTake DEF g
    <2>. QED  BY <2>9, <2>10, <2>11, BeginsAll
  <1>. QED  BY <1>2, <1>3

---------------------------------------------------------------------------
(* The samples of a channel, in the builder. *)

Sample == Int \X Nat

\* n samples of a segment or run, at their times.
Piece(run, n) == [i \in 1..n |-> <<T!segment_timestamp(run, i - 1), run.values[i]>>]

Pieces(d) == [k \in DOMAIN d.segments |-> Piece(d.segments[k], Len(d.segments[k].values))]

\* What was stored for a channel.
Holding(d) ==
    IF d.mode = "Equidistant" THEN FlattenSeq(Pieces(d))
    ELSE [i \in 1..Len(d.values) |-> <<d.timestamps_ns[i], d.values[i]>>]

Regular(run) == run.start \in Int /\ run.period \in Nat /\ run.values \in Seq(Nat)

\* Storage of one kind, and stamps that are parallel to the values.
Sound(d) ==
    /\ IsSequence(d.segments) /\ IsSequence(d.timestamps_ns) /\ IsSequence(d.values)
    /\ \A k \in DOMAIN d.segments : Regular(d.segments[k])
    /\ d.mode # "Equidistant" => d.segments = <<>> /\ Len(d.timestamps_ns) = Len(d.values)
    /\ d.mode \in {"Empty", "Equidistant"} => d.values = <<>> /\ d.timestamps_ns = <<>>

LEMMA Sequences ==
    ASSUME NEW s, IsSequence(s)
    PROVE  Len(s) \in Nat /\ DOMAIN s = 1..Len(s) /\ s = [i \in 1..Len(s) |-> s[i]]
  BY DEF IsSequence

LEMMA SameSequence ==
    ASSUME NEW s, NEW t, IsSequence(s), IsSequence(t), Len(s) = Len(t),
           \A i \in 1..Len(s) : s[i] = t[i]
    PROVE  s = t
  <1>1. s = [i \in 1..Len(s) |-> s[i]] /\ t = [i \in 1..Len(s) |-> t[i]]
    BY Sequences
  <1>. QED  BY <1>1

\* Two sequences, one behind the other.
Behind(r, s, t, l, m) ==
    /\ IsSequence(r) /\ l \in Nat /\ m \in Nat /\ Len(r) = l + m
    /\ DOMAIN s = 1..l /\ DOMAIN t = 1..m /\ DOMAIN r = 1..(l + m)
    /\ \A i \in 1..l : r[i] = s[i] /\ i \in 1..(l + m)
    /\ \A i \in 1..m : r[l + i] = t[i] /\ l + i \in 1..(l + m)
    /\ \A i \in 1..(l + m) : i \in 1..l \/ (i > l /\ i - l \in 1..m /\ i = l + (i - l))

LEMMA Joint ==
    ASSUME NEW s, NEW t, IsSequence(s), IsSequence(t),
           NEW l, l = Len(s), NEW m, m = Len(t), NEW r, r = s \o t
    PROVE  Behind(r, s, t, l, m)
  <1>1. PICK U : s \in Seq(U)
    BY DEF IsSequence
  <1>2. PICK V : t \in Seq(V)
    BY DEF IsSequence
  <1>. DEFINE W == U \cup V
  <1>3. s \in Seq(W) /\ t \in Seq(W)
    BY <1>1, <1>2
  <1>. HIDE DEF W
  <1>4. r \in Seq(W) /\ Len(r) = l + m /\ l \in Nat /\ m \in Nat
    BY <1>3
  <1>5. \A i \in 1..(l + m) : r[i] = IF i <= l THEN s[i] ELSE t[i - l]
    BY <1>3
  <1>6. DOMAIN r = 1..(l + m) /\ IsSequence(r) /\ DOMAIN s = 1..l /\ DOMAIN t = 1..m
    BY <1>3, <1>4 DEF IsSequence
  <1>7. \A i \in 1..l : i <= l /\ i \in 1..(l + m)
    BY <1>4
  <1>8. \A i \in 1..m : ~(l + i <= l) /\ l + i \in 1..(l + m) /\ (l + i) - l = i
    BY <1>4
  <1>9. \A i \in 1..(l + m) : i \in 1..l \/ (i > l /\ i - l \in 1..m /\ i = l + (i - l))
    BY <1>4
  <1>10. \A i \in 1..l : r[i] = s[i]
    BY <1>5, <1>7
  <1>11. \A i \in 1..m : r[l + i] = t[i]
    BY <1>5, <1>8
  <1>. QED  BY <1>4, <1>6, <1>7, <1>8, <1>9, <1>10, <1>11 DEF Behind

LEMMA MappedLength ==
    ASSUME NEW n \in Nat, NEW f, f = [i \in 1..n |-> f[i]]
    PROVE  IsSequence(f) /\ Len(f) = n
  <1>. DEFINE U == {f[i] : i \in 1..n}
  <1>1. f \in [1..n -> U]
    OBVIOUS
  <1>. HIDE DEF U
  <1>2. f \in Seq(U) /\ Len(f) = n
    BY <1>1
  <1>. QED  BY <1>2 DEF IsSequence

LEMMA TimeIsInteger ==
    ASSUME NEW run, run.start \in Int, run.period \in Nat, NEW i \in Nat
    PROVE  T!segment_timestamp(run, i) \in Int
  <1>1. i * run.period \in Int
    OBVIOUS
  <1>. DEFINE m == i * run.period
  <1>2. T!saturating_add(run.start, m) \in Int
    <2>1. m \in Int /\ run.start + m \in Int /\ MaxTime \in Int
      BY <1>1, SourceAssumption
    <2>. HIDE DEF m
    <2>. QED  BY <2>1 DEF T!saturating_add
  <1>. QED  BY <1>2 DEF T!segment_timestamp

LEMMA PieceType ==
    ASSUME NEW run, Regular(run), NEW n \in 0..Len(run.values)
    PROVE  Piece(run, n) \in Seq(Sample) /\ Len(Piece(run, n)) = n /\ n \in Nat
  <1>1. n \in Nat /\ run.values \in Seq(Nat) /\ n <= Len(run.values)
    BY DEF Regular
  <1>2. \A i \in 1..n : i - 1 \in Nat /\ run.values[i] \in Nat
    BY <1>1
  <1>3. \A i \in 1..n : <<T!segment_timestamp(run, i - 1), run.values[i]>> \in Sample
    BY <1>2, TimeIsInteger DEF Regular, Sample
  <1>4. Piece(run, n) \in [1..n -> Sample]
    BY <1>3 DEF Piece
  <1>. QED  BY <1>1, <1>4

LEMMA PiecesType ==
    ASSUME NEW d, IsSequence(d.segments), \A k \in DOMAIN d.segments : Regular(d.segments[k])
    PROVE  /\ Pieces(d) \in Seq(Seq(Sample)) /\ Len(Pieces(d)) = Len(d.segments)
           /\ DOMAIN d.segments = 1..Len(d.segments) /\ Len(d.segments) \in Nat
  <1>. DEFINE n == Len(d.segments)
  <1>1. n \in Nat /\ DOMAIN d.segments = 1..n
    BY Sequences
  <1>2. ASSUME NEW k \in 1..n
        PROVE  Piece(d.segments[k], Len(d.segments[k].values)) \in Seq(Sample)
    <2>1. Regular(d.segments[k])
      BY <1>1
    <2>2. Len(d.segments[k].values) \in 0..Len(d.segments[k].values)
      BY <2>1 DEF Regular
    <2>. QED  BY <2>1, <2>2, PieceType
  <1>3. Pieces(d) \in [1..n -> Seq(Sample)]
    BY <1>1, <1>2 DEF Pieces
  <1>. HIDE DEF n
  <1>4. Pieces(d) \in Seq(Seq(Sample)) /\ Len(Pieces(d)) = n
    BY <1>1, <1>3
  <1>. QED  BY <1>1, <1>4 DEF n

LEMMA HoldingSequence ==
    ASSUME NEW d, Sound(d)
    PROVE  IsSequence(Holding(d))
  <1>1. CASE d.mode = "Equidistant"
    <2>1. FlattenSeq(Pieces(d)) \in Seq(Sample)
      BY PiecesType, FlattenType DEF Sound
    <2>. QED  BY <1>1, <2>1 DEF Holding, IsSequence
  <1>2. CASE d.mode # "Equidistant"
    <2>1. Len(d.values) \in Nat
      BY Sequences DEF Sound
    <2>. DEFINE f == [i \in 1..Len(d.values) |-> <<d.timestamps_ns[i], d.values[i]>>]
    <2>2. f = [i \in 1..Len(d.values) |-> f[i]]
      OBVIOUS
    <2>. HIDE DEF f
    <2>3. IsSequence(f)
      BY <2>1, <2>2, Mapped
    <2>. QED  BY <1>2, <2>3 DEF Holding, f
  <1>. QED  BY <1>1, <1>2

\* Storage of segments, and none.
LEMMA HoldingPieces ==
    ASSUME NEW d, Sound(d), d.mode \in {"Empty", "Equidistant"}
    PROVE  Holding(d) = FlattenSeq(Pieces(d))
  <1>1. CASE d.mode = "Equidistant"
    BY <1>1 DEF Holding
  <1>2. CASE d.mode = "Empty"
    <2>1. d.segments = <<>> /\ d.values = <<>>
      BY <1>2 DEF Sound
    <2>2. Pieces(d) \in Seq(Seq(Sample)) /\ Len(Pieces(d)) = 0
      BY <2>1, PiecesType DEF Sound
    <2>3. Pieces(d) = <<>>
      BY <2>2
    <2>4. Holding(d) = <<>>
      <3>1. Len(<<>>) = 0 /\ 1..0 = {}
        OBVIOUS
      <3>2. IsSequence(Holding(d))
        BY HoldingSequence
      <3>3. DOMAIN Holding(d) = {}
        BY <1>2, <2>1, <3>1 DEF Holding
      <3>4. Len(Holding(d)) = 0
        BY <3>2, <3>3, Sequences
      <3>. QED  BY <3>2, <3>4, EmptySequence, SameSequence
    <2>. QED  BY <2>3, <2>4, FlattenNothing
  <1>. QED  BY <1>1, <1>2

\* A segment is added to them.
LEMMA SegmentHeld ==
    ASSUME NEW d, Sound(d), d.mode \in {"Empty", "Equidistant"}, NEW run, Regular(run),
           NEW e, e.mode = "Equidistant", e.segments = Append(d.segments, run),
           e.values = d.values, e.timestamps_ns = d.timestamps_ns
    PROVE  Sound(e) /\ Holding(e) = Holding(d) \o Piece(run, Len(run.values))
  <1>. DEFINE n == Len(d.segments)
              p == Piece(run, Len(run.values))
  <1>1. /\ IsSequence(e.segments) /\ n \in Nat /\ DOMAIN d.segments = 1..n
        /\ DOMAIN e.segments = 1..(n + 1) /\ e.segments[n + 1] = run
        /\ \A k \in 1..n : e.segments[k] = d.segments[k]
        /\ Len(e.segments) = n + 1
    BY Appended DEF Sound
  <1>2. \A k \in 1..(n + 1) : k \in 1..n \/ k = n + 1
    BY <1>1
  <1>3. \A k \in DOMAIN e.segments : Regular(e.segments[k])
    BY <1>1, <1>2 DEF Sound
  <1>4. Sound(e)
    BY <1>1, <1>3 DEF Sound
  <1>5. p \in Seq(Sample)
    <2>1. Len(run.values) \in 0..Len(run.values)
      BY DEF Regular
    <2>. QED  BY <2>1, PieceType
  <1>6. Pieces(d) \in Seq(Seq(Sample)) /\ Len(Pieces(d)) = n
    BY PiecesType DEF Sound
  <1>7. Pieces(e) \in Seq(Seq(Sample)) /\ Len(Pieces(e)) = n + 1
    BY <1>1, <1>3, PiecesType
  <1>8. Pieces(e) = Append(Pieces(d), p)
    <2>. DEFINE a == Append(Pieces(d), p)
                f == Pieces(e)
                g == Pieces(d)
    <2>1. \A k \in 1..n : f[k] = g[k]
      <3>1. \A k \in 1..n : k \in DOMAIN e.segments /\ k \in DOMAIN d.segments
        BY <1>1
      <3>. QED  BY <1>1, <3>1 DEF Pieces
    <2>2. f[n + 1] = p
      <3>1. n + 1 \in DOMAIN e.segments
        BY <1>1
      <3>. QED  BY <1>1, <3>1 DEF Pieces
    <2>3. IsSequence(g) /\ IsSequence(f) /\ Len(g) = n /\ Len(f) = n + 1
      BY <1>6, <1>7 DEF IsSequence
    <2>. HIDE DEF f, g, p
    <2>4. /\ IsSequence(a) /\ Len(a) = n + 1 /\ a[n + 1] = p
          /\ \A k \in 1..n : a[k] = g[k]
      BY <2>3, Appended DEF g
    <2>. HIDE DEF a
    <2>5. \A k \in 1..(n + 1) : f[k] = a[k]
      BY <1>2, <2>1, <2>2, <2>4
    <2>6. f = a
      BY <2>3, <2>4, <2>5, SameSequence
    <2>. QED  BY <2>6 DEF f, a, g, p
  <1>9. FlattenSeq(Append(Pieces(d), p)) = FlattenSeq(Pieces(d)) \o p
    <2>. HIDE DEF p
    <2>. QED  BY <1>5, <1>6, FlattenAppend
  <1>10. Holding(e) = FlattenSeq(Pieces(e)) /\ Holding(d) = FlattenSeq(Pieces(d))
    BY <1>4, HoldingPieces
  <1>. QED  BY <1>4, <1>8, <1>9, <1>10

\* Stamped samples are added.
Extended(e, d, times, values) ==
    /\ e.mode \in {"Timestamped", "Variable"} /\ e.segments = d.segments
    /\ e.values = d.values \o values /\ e.timestamps_ns = d.timestamps_ns \o times

\* Sequence p has pairs of the two.
Pairs(p, times, values) ==
    /\ IsSequence(p) /\ IsSequence(times) /\ IsSequence(values)
    /\ Len(p) = Len(values) /\ Len(times) = Len(values)
    /\ \A i \in 1..Len(values) : p[i] = <<times[i], values[i]>>

LEMMA StampedHeld ==
    ASSUME NEW d, Sound(d), d.mode # "Equidistant", NEW times, NEW values,
           NEW e, Extended(e, d, times, values), NEW p, Pairs(p, times, values)
    PROVE  Sound(e) /\ Holding(e) = Holding(d) \o p
  <1>. DEFINE l == Len(d.values)
              m == Len(values)
              h == Holding(d)
  <1>0. /\ e.mode \in {"Timestamped", "Variable"} /\ e.segments = d.segments
        /\ e.values = d.values \o values /\ e.timestamps_ns = d.timestamps_ns \o times
        /\ IsSequence(times) /\ IsSequence(values) /\ Len(times) = Len(values)
    BY DEF Extended, Pairs
  <1>1. /\ IsSequence(d.segments) /\ IsSequence(d.timestamps_ns) /\ IsSequence(d.values)
        /\ d.segments = <<>> /\ Len(d.timestamps_ns) = l
    BY DEF Sound
  <1>2. /\ IsSequence(e.values) /\ l \in Nat /\ m \in Nat /\ Len(e.values) = l + m
        /\ \A i \in 1..l : e.values[i] = d.values[i]
        /\ \A i \in 1..m : e.values[l + i] = values[i]
    <2>1. Behind(e.values, d.values, values, l, m)
      BY <1>0, <1>1, Joint
    <2>. QED  BY <2>1 DEF Behind
  <1>3. /\ IsSequence(e.timestamps_ns) /\ Len(e.timestamps_ns) = l + m
        /\ \A i \in 1..l : e.timestamps_ns[i] = d.timestamps_ns[i]
        /\ \A i \in 1..m : e.timestamps_ns[l + i] = times[i]
    <2>1. Behind(e.timestamps_ns, d.timestamps_ns, times, l, m)
      BY <1>0, <1>1, Joint
    <2>. QED  BY <2>1 DEF Behind
  <1>4. Sound(e)
    <2>1. DOMAIN e.segments = {}
      BY <1>0, <1>1
    <2>. QED  BY <1>0, <1>1, <1>2, <1>3, <2>1 DEF Sound
  <1>5. h = [i \in 1..l |-> <<d.timestamps_ns[i], d.values[i]>>]
    BY DEF Holding
  <1>6. Holding(e) = [i \in 1..(l + m) |-> <<e.timestamps_ns[i], e.values[i]>>]
    BY <1>0, <1>2 DEF Holding
  <1>7. h = [i \in 1..l |-> h[i]]
    BY <1>5
  <1>8. IsSequence(h) /\ Len(h) = l /\ \A i \in 1..l : h[i] = <<d.timestamps_ns[i], d.values[i]>>
    <2>1. \A i \in 1..l : h[i] = <<d.timestamps_ns[i], d.values[i]>>
      BY <1>5
    <2>. HIDE DEF h, l
    <2>. QED  BY <1>2, <1>7, <2>1, MappedLength
  <1>9. IsSequence(p) /\ Len(p) = m /\ \A i \in 1..m : p[i] = <<times[i], values[i]>>
    BY DEF Pairs
  <1>10. IsSequence(Holding(e)) /\ Len(Holding(e)) = l + m
    <2>. DEFINE g == Holding(e)
    <2>1. l + m \in Nat
      BY <1>2
    <2>3. g = [i \in 1..(l + m) |-> g[i]]
      BY <1>6, Zenon
    <2>. HIDE DEF g, l, m
    <2>2. IsSequence(g) /\ Len(g) = l + m
      BY <2>1, <2>3, MappedLength
    <2>. QED  BY <2>2 DEF g
  <1>. HIDE DEF h, l, m
  <1>11. /\ IsSequence(h \o p) /\ Len(h \o p) = l + m
         /\ \A i \in 1..l : (h \o p)[i] = h[i]
         /\ \A i \in 1..m : (h \o p)[l + i] = p[i]
         /\ \A i \in 1..(l + m) : i \in 1..l \/ (i - l \in 1..m /\ i = l + (i - l))
    <2>1. Behind(h \o p, h, p, l, m)
      BY <1>8, <1>9, Joint
    <2>. QED  BY <2>1 DEF Behind
  <1>12. ASSUME NEW i \in 1..(l + m)
         PROVE  Holding(e)[i] = (h \o p)[i]
    <2>1. Holding(e)[i] = <<e.timestamps_ns[i], e.values[i]>>
      BY <1>6
    <2>2. CASE i \in 1..l
      BY <1>2, <1>3, <1>8, <1>11, <2>1, <2>2
    <2>3. CASE i - l \in 1..m /\ i = l + (i - l)
      <3>. DEFINE j == i - l
      <3>1. j \in 1..m /\ i = l + j
        BY <2>3
      <3>. HIDE DEF j
      <3>2. Holding(e)[i] = <<times[j], values[j]>>
        BY <1>2, <1>3, <2>1, <3>1
      <3>. QED  BY <1>9, <1>11, <3>1, <3>2
    <2>. QED  BY <1>11, <2>2, <2>3
  <1>13. Holding(e) = h \o p
    <2>. DEFINE g == Holding(e)
                q == h \o p
    <2>1. IsSequence(g) /\ IsSequence(q) /\ Len(g) = Len(q) /\ Len(g) = l + m
      BY <1>10, <1>11
    <2>2. \A i \in 1..Len(g) : g[i] = q[i]
      BY <1>12, <2>1
    <2>. HIDE DEF g, q
    <2>3. g = q
      BY <2>1, <2>2, SameSequence
    <2>. QED  BY <2>3 DEF g, q
  <1>. QED  BY <1>4, <1>13 DEF h

---------------------------------------------------------------------------
(* The copy. *)

\* The channel that the builder finds by a name is the last of that name.
NameIndex(b) ==
    /\ DOMAIN b.name_to_index = {b.channels[i].name : i \in 1..Len(b.channels)}
    /\ \A n \in DOMAIN b.name_to_index :
          /\ b.name_to_index[n] + 1 \in 1..Len(b.channels)
          /\ b.channels[b.name_to_index[n] + 1].name = n
          /\ \A i \in 1..Len(b.channels) : b.channels[i].name = n => i <= b.name_to_index[n] + 1
          /\ b.name_to_index[n] \in Nat

LEMMA NewNameIndex == NameIndex(NewBuilder)
  <1>1. NewBuilder.channels = <<>> /\ NewBuilder.name_to_index = <<>>
    BY DEF NewBuilder
  <1>2. 1..Len(<<>>) = {} /\ DOMAIN <<>> = {}
    OBVIOUS
  <1>. QED  BY <1>1, <1>2 DEF NameIndex

LEMMA NameAdded ==
    ASSUME NEW b, Prepared(b), NameIndex(b), NEW def \in ChannelDef
    PROVE  NameIndex(AddChannel(b, def))
  <1>. DEFINE e == AddChannel(b, def)
              n == Len(b.channels)
  <1>1. /\ e.channels = Append(b.channels, def)
        /\ e.name_to_index = [x \in DOMAIN b.name_to_index \cup {def.name} |->
                                 IF x = def.name THEN n ELSE b.name_to_index[x]]
    <2>1. IsWriter(b)
      BY DEF Prepared
    <2>. QED  BY <2>1 DEF IsWriter, WriterFields, AddChannel
  <1>. HIDE DEF e
  <1>2. /\ n \in Nat /\ Len(e.channels) = n + 1 /\ e.channels[n + 1] = def
        /\ \A i \in 1..n : e.channels[i] = b.channels[i]
    <2>1. b.channels \in Seq(ChannelDef)
      BY DEF Prepared
    <2>2. \A s \in Seq(ChannelDef) : /\ Len(s) \in Nat /\ Len(Append(s, def)) = Len(s) + 1
                                     /\ Append(s, def)[Len(s) + 1] = def
                                     /\ \A i \in 1..Len(s) : Append(s, def)[i] = s[i]
      OBVIOUS
    <2>. QED  BY <1>1, <2>1, <2>2
  <1>3. \A i \in 1..(n + 1) : i \in 1..n \/ i = n + 1
    BY <1>2
  <1>4. n + 1 \in 1..(n + 1) /\ 1..n \subseteq 1..(n + 1)
    BY <1>2
  <1>5. /\ DOMAIN b.name_to_index = {b.channels[i].name : i \in 1..n}
        /\ \A x \in DOMAIN b.name_to_index :
              /\ b.name_to_index[x] + 1 \in 1..n /\ b.name_to_index[x] \in Nat
              /\ b.channels[b.name_to_index[x] + 1].name = x
              /\ \A i \in 1..n : b.channels[i].name = x => i <= b.name_to_index[x] + 1
    BY DEF NameIndex
  <1>. HIDE DEF n
  <1>6. DOMAIN e.name_to_index = {e.channels[i].name : i \in 1..(n + 1)}
    <2>1. DOMAIN e.name_to_index = DOMAIN b.name_to_index \cup {def.name}
      BY <1>1
    <2>. QED  BY <1>2, <1>3, <1>4, <1>5, <2>1
  <1>7. ASSUME NEW x \in DOMAIN e.name_to_index
        PROVE  /\ e.name_to_index[x] + 1 \in 1..(n + 1) /\ e.name_to_index[x] \in Nat
               /\ e.channels[e.name_to_index[x] + 1].name = x
               /\ \A i \in 1..(n + 1) : e.channels[i].name = x => i <= e.name_to_index[x] + 1
    <2>1. CASE x = def.name
      <3>1. e.name_to_index[x] = n
        BY <1>1, <2>1
      <3>2. \A i \in 1..(n + 1) : i <= n + 1
        BY <1>2
      <3>. QED  BY <1>2, <1>4, <2>1, <3>1, <3>2
    <2>2. CASE x # def.name
      <3>1. x \in DOMAIN b.name_to_index /\ e.name_to_index[x] = b.name_to_index[x]
        BY <1>1, <2>2
      <3>. QED  BY <1>2, <1>3, <1>4, <1>5, <2>2, <3>1
    <2>. QED  BY <2>1, <2>2
  <1>8. NameIndex(e)
    BY <1>2, <1>6, <1>7 DEF NameIndex
  <1>. QED  BY <1>8 DEF e

LEMMA DeclaredStore ==
    ASSUME NEW b, Prepared(b), NEW ch \in Nat, Declared(b, ch)
    PROVE  /\ IsWriter(b) /\ DOMAIN b.channel_data = 1..Len(b.channels)
           /\ ch + 1 \in 1..Len(b.channels) /\ IsStore(b.channel_data[ch + 1])
  <1>1. ch + 1 \in 1..Len(b.channels) /\ Len(b.channels) = Len(b.channel_data)
    BY DEF Declared, Prepared
  <1>2. DOMAIN b.channel_data = 1..Len(b.channel_data)
    BY DEF Prepared, IsSequence
  <1>. QED  BY <1>1, <1>2 DEF Prepared, Ready

\* Adding samples changes no declaration.
LEMMA DeclarationsStay ==
    ASSUME NEW b, Prepared(b), NEW ch \in Nat, Declared(b, ch), NEW start, NEW period, NEW times,
           NEW values, NEW sizes
    PROVE  /\ LET e == AddSegment(b, ch, start, period, values)
              IN  /\ e.channels = b.channels /\ e.name_to_index = b.name_to_index
                  /\ Mode(e, ch) = "Equidistant"
           /\ LET e == AddTimestamped(b, ch, times, values)
              IN  e.channels = b.channels /\ e.name_to_index = b.name_to_index
           /\ LET e == AddVariable(b, ch, times, values, sizes)
              IN  e.channels = b.channels /\ e.name_to_index = b.name_to_index
  <1>1. IsWriter(b)
    BY DEF Prepared
  <1>2. AddSegment(b, ch, start, period, values).channel_data =
           [b.channel_data EXCEPT ![ch + 1] =
              [b.channel_data[ch + 1] EXCEPT !.mode = "Equidistant",
                      !.segments = Append(b.channel_data[ch + 1].segments,
                          [start |-> start, period |-> period, times |-> <<>>,
                           values |-> values, sizes |-> <<>>])]]
    BY <1>1 DEF AddSegment, IsWriter, WriterFields
  <1>3. ch + 1 \in DOMAIN b.channel_data /\ IsStore(b.channel_data[ch + 1])
    <2>1. ch + 1 \in 1..Len(b.channels) /\ Len(b.channels) = Len(b.channel_data)
      BY DEF Declared, Prepared
    <2>2. DOMAIN b.channel_data = 1..Len(b.channel_data)
      BY DEF Prepared, IsSequence
    <2>. QED  BY <2>1, <2>2 DEF Prepared, Ready
  <1>4. Mode(AddSegment(b, ch, start, period, values), ch) = "Equidistant"
    <2>. DEFINE d == [b.channel_data[ch + 1] EXCEPT !.mode = "Equidistant",
                      !.segments = Append(b.channel_data[ch + 1].segments,
                          [start |-> start, period |-> period, times |-> <<>>,
                           values |-> values, sizes |-> <<>>])]
    <2>1. d.mode = "Equidistant"
      BY <1>3 DEF IsStore, StoreFields
    <2>. HIDE DEF d
    <2>2. [b.channel_data EXCEPT ![ch + 1] = d][ch + 1] = d
      BY <1>3
    <2>. QED  BY <1>2, <2>1, <2>2 DEF Mode, d
  <1>. QED  BY <1>1, <1>4 DEF AddSegment, AddTimestamped, AddVariable, IsWriter, WriterFields

\* What the storage is afterwards.
OthersStay(e, b, to) ==
    \A j \in 1..Len(b.channels) : j # to + 1 => e.channel_data[j] = b.channel_data[j]

HasSegment(e, b, to, run) ==
    /\ OthersStay(e, b, to)
    /\ e.channel_data[to + 1].mode = "Equidistant"
    /\ e.channel_data[to + 1].values = b.channel_data[to + 1].values
    /\ e.channel_data[to + 1].timestamps_ns = b.channel_data[to + 1].timestamps_ns
    /\ e.channel_data[to + 1].segments = Append(b.channel_data[to + 1].segments, run)

HasStamps(e, b, to, times, values) ==
    /\ OthersStay(e, b, to)
    /\ e.channel_data[to + 1].mode \in {"Timestamped", "Variable"}
    /\ e.channel_data[to + 1].segments = <<>>
    /\ e.channel_data[to + 1].values = values
    /\ e.channel_data[to + 1].timestamps_ns = times

LEMMA SegmentData ==
    ASSUME NEW b, Prepared(b), NEW ch \in Nat, Declared(b, ch), NEW start, NEW period, NEW values
    PROVE  HasSegment(AddSegment(b, ch, start, period, values), b, ch,
                      [start |-> start, period |-> period, times |-> <<>>,
                       values |-> values, sizes |-> <<>>])
  <1>. DEFINE run == [start |-> start, period |-> period, times |-> <<>>,
                      values |-> values, sizes |-> <<>>]
              e == AddSegment(b, ch, start, period, values)
              d == b.channel_data[ch + 1]
              f == [d EXCEPT !.mode = "Equidistant", !.segments = Append(d.segments, run)]
  <1>1. IsWriter(b) /\ DOMAIN b.channel_data = 1..Len(b.channels)
        /\ ch + 1 \in 1..Len(b.channels) /\ IsStore(d)
    BY DeclaredStore
  <1>2. e.channel_data = [b.channel_data EXCEPT ![ch + 1] = f]
    BY <1>1 DEF AddSegment, IsWriter, WriterFields
  <1>3. /\ f.mode = "Equidistant" /\ f.values = d.values /\ f.timestamps_ns = d.timestamps_ns
        /\ f.segments = Append(d.segments, run)
    BY <1>1 DEF IsStore, StoreFields
  <1>. HIDE DEF f, e, run
  <1>4. \A j \in 1..Len(b.channels) :
           [b.channel_data EXCEPT ![ch + 1] = f][j] = IF j = ch + 1 THEN f ELSE b.channel_data[j]
    BY <1>1
  <1>5. HasSegment(e, b, ch, run)
    BY <1>1, <1>2, <1>3, <1>4 DEF HasSegment, OthersStay
  <1>. QED  BY <1>5 DEF e, run

LEMMA StampedData ==
    ASSUME NEW b, Prepared(b), NEW ch \in Nat, Declared(b, ch), b.channel_data[ch + 1] = NoData,
           NEW times, IsSequence(times), NEW values, IsSequence(values), NEW sizes
    PROVE  /\ HasStamps(AddTimestamped(b, ch, times, values), b, ch, times, values)
           /\ HasStamps(AddVariable(b, ch, times, values, sizes), b, ch, times, values)
  <1>. DEFINE d == b.channel_data[ch + 1]
              g == [d EXCEPT !.mode = "Timestamped", !.timestamps_ns = d.timestamps_ns \o times,
                             !.values = d.values \o values]
              h == [d EXCEPT !.mode = "Variable", !.timestamps_ns = d.timestamps_ns \o times,
                             !.values = d.values \o values, !.sizes = d.sizes \o sizes]
  <1>1. IsWriter(b) /\ DOMAIN b.channel_data = 1..Len(b.channels)
        /\ ch + 1 \in 1..Len(b.channels) /\ IsStore(d)
    BY DeclaredStore
  <1>2. /\ AddTimestamped(b, ch, times, values).channel_data = [b.channel_data EXCEPT ![ch + 1] = g]
        /\ AddVariable(b, ch, times, values, sizes).channel_data = [b.channel_data EXCEPT ![ch + 1] = h]
    BY <1>1 DEF AddTimestamped, AddVariable, IsWriter, WriterFields
  <1>3. \A t : IsSequence(t) => <<>> \o t = t
    BY DEF IsSequence
  <1>4. d.segments = <<>> /\ d.timestamps_ns = <<>> /\ d.values = <<>>
    BY DEF NoData
  <1>5. /\ g.mode = "Timestamped" /\ g.segments = <<>>
        /\ g.values = values /\ g.timestamps_ns = times
    <2>1. /\ g.mode = "Timestamped" /\ g.segments = d.segments
          /\ g.values = d.values \o values /\ g.timestamps_ns = d.timestamps_ns \o times
      BY <1>1 DEF IsStore, StoreFields
    <2>. HIDE DEF g, d
    <2>. QED  BY <1>3, <1>4, <2>1
  <1>6. /\ h.mode = "Variable" /\ h.segments = <<>>
        /\ h.values = values /\ h.timestamps_ns = times
    <2>1. /\ h.mode = "Variable" /\ h.segments = d.segments
          /\ h.values = d.values \o values /\ h.timestamps_ns = d.timestamps_ns \o times
      BY <1>1 DEF IsStore, StoreFields
    <2>. HIDE DEF h, d
    <2>. QED  BY <1>3, <1>4, <2>1
  <1>. HIDE DEF g, h
  <1>7. ASSUME NEW e, NEW x \in {g, h}, e.channel_data = [b.channel_data EXCEPT ![ch + 1] = x]
        PROVE  HasStamps(e, b, ch, times, values)
    <2>1. \A j \in 1..Len(b.channels) :
             e.channel_data[j] = IF j = ch + 1 THEN x ELSE b.channel_data[j]
      BY <1>1, <1>7
    <2>. QED  BY <1>1, <1>5, <1>6, <1>7, <2>1 DEF OthersStay, HasStamps
  <1>. QED  BY <1>2, <1>7

\* The storage d has the samples of channel ch of the manager.
Presenting(d, ch) == Sound(d) /\ Holding(d) = S!samples_with_time(ch)

\* Channel i of the builder b is channel ch of the manager.
HoldsChannel(b, i, ch) ==
    b.channels[i].name = S!Definition(ch).name /\ Presenting(b.channel_data[i], ch)

\* The first k segments of a channel have been stored.
SegmentOf(run, c, seg) ==
    /\ run.start = seg.start /\ run.period = seg.period
    /\ run.values = SubSeq(c.samples, seg.start_index + 1, seg.start_index + seg.sample_count)

Segmental(d, c, k) ==
    /\ IsSequence(d.segments) /\ Len(d.segments) = k /\ d.values = <<>> /\ d.timestamps_ns = <<>>
    /\ d.mode = IF k = 0 THEN "Empty" ELSE "Equidistant"
    /\ \A i \in 1..k : SegmentOf(d.segments[i], c, c.segments[i])

LEMMA OneMore ==
    ASSUME NEW d, NEW c, NEW k \in Nat, Segmental(d, c, k), NEW f, NEW run,
           f.mode = "Equidistant", f.values = d.values, f.timestamps_ns = d.timestamps_ns,
           f.segments = Append(d.segments, run), SegmentOf(run, c, c.segments[k + 1])
    PROVE  Segmental(f, c, k + 1)
  <1>1. /\ IsSequence(d.segments) /\ Len(d.segments) = k
        /\ \A i \in 1..k : SegmentOf(d.segments[i], c, c.segments[i])
    BY DEF Segmental
  <1>2. /\ IsSequence(f.segments) /\ Len(f.segments) = k + 1 /\ f.segments[k + 1] = run
        /\ \A i \in 1..k : f.segments[i] = d.segments[i]
    BY <1>1, Appended
  <1>3. \A i \in 1..(k + 1) : i \in 1..k \/ i = k + 1
    OBVIOUS
  <1>4. \A i \in 1..(k + 1) : SegmentOf(f.segments[i], c, c.segments[i])
    BY <1>1, <1>2, <1>3
  <1>5. k + 1 # 0 /\ f.values = <<>> /\ f.timestamps_ns = <<>>
    BY DEF Segmental
  <1>. QED  BY <1>2, <1>4, <1>5 DEF Segmental

\* All of them: the channel presents what the manager does.
LEMMA SegmentsHold ==
    ASSUME NEW ch, Copyable(s_builders[ch]), s_builders[ch].state = "Equidistant",
           NEW d, Segmental(d, s_builders[ch], Len(s_builders[ch].segments))
    PROVE  Presenting(d, ch)
  <1>. DEFINE c == s_builders[ch]
              n == Len(c.segments)
  <1>1. /\ c.segments \in Seq(S!Segment) /\ c.samples \in Seq(Nat) /\ c.segments # <<>>
        /\ \A k \in DOMAIN c.segments : SegmentTo(c.segments[k]) <= Len(c.samples)
    BY DEF Copyable
  <1>2. /\ n \in Nat /\ n # 0 /\ DOMAIN c.segments = 1..n
        /\ \A k \in 1..n : c.segments[k] \in S!Segment
    <2>. DEFINE G == S!Segment
    <2>. HIDE DEF G
    <2>1. \A s \in Seq(G) : s # <<>> => /\ Len(s) \in Nat /\ Len(s) # 0 /\ DOMAIN s = 1..Len(s)
                                        /\ \A k \in 1..Len(s) : s[k] \in G
      OBVIOUS
    <2>. QED  BY <1>1, <2>1 DEF G
  <1>3. /\ IsSequence(d.segments) /\ Len(d.segments) = n /\ d.values = <<>> /\ d.timestamps_ns = <<>>
        /\ d.mode = "Equidistant" /\ DOMAIN d.segments = 1..n
        /\ \A k \in 1..n : SegmentOf(d.segments[k], c, c.segments[k])
    BY <1>2, Sequences DEF Segmental
  <1>. HIDE DEF c, n
  <1>4. ASSUME NEW k \in 1..n
        PROVE  /\ Regular(d.segments[k])
               /\ Piece(d.segments[k], Len(d.segments[k].values)) =
                     [i \in 1..c.segments[k].sample_count |->
                        <<S!segment_timestamp(c.segments[k], i - 1),
                          c.samples[c.segments[k].start_index + i]>>]
    <2>. DEFINE run == d.segments[k]
                seg == c.segments[k]
                a == seg.start_index
                m == seg.sample_count
    <2>1. /\ run.start = seg.start /\ run.period = seg.period
          /\ run.values = SubSeq(c.samples, a + 1, a + m)
      BY <1>3 DEF SegmentOf
    <2>2. /\ seg.start \in Int /\ seg.period \in Nat /\ a \in Nat /\ m \in Nat
          /\ a + m <= Len(c.samples)
      BY <1>1, <1>2 DEF S!Segment, SegmentTo
    <2>. HIDE DEF a, m, run, seg
    <2>3. /\ run.values \in Seq(Nat) /\ Len(run.values) = m
          /\ \A i \in 1..m : run.values[i] = c.samples[a + i]
      <3>1. /\ SubSeq(c.samples, a + 1, a + m) \in Seq(Nat)
            /\ Len(SubSeq(c.samples, a + 1, a + m)) = m
            /\ \A i \in 1..m : SubSeq(c.samples, a + 1, a + m)[i] = c.samples[a + i]
        BY <1>1, <2>2
      <3>. QED  BY <2>1, <3>1
    <2>4. \A i : T!segment_timestamp(run, i) = S!segment_timestamp(seg, i)
      BY <2>1, Zenon DEF T!segment_timestamp, S!segment_timestamp, T!saturating_add, S!saturating_add
    <2>5. Piece(run, m) = [i \in 1..m |-> <<S!segment_timestamp(seg, i - 1), c.samples[a + i]>>]
      BY <2>3, <2>4 DEF Piece
    <2>6. Regular(run)
      BY <2>1, <2>2, <2>3 DEF Regular
    <2>. QED  BY <2>3, <2>5, <2>6 DEF run, seg, a, m
  <1>5. Sound(d)
    BY <1>3, <1>4, EmptySequence DEF Sound
  <1>6. Pieces(d) = [k \in DOMAIN c.segments |->
                        [i \in 1..c.segments[k].sample_count |->
                           <<S!segment_timestamp(c.segments[k], i - 1),
                             c.samples[c.segments[k].start_index + i]>>]]
    BY <1>2, <1>3, <1>4 DEF Pieces, n
  <1>7. Holding(d) = FlattenSeq(Pieces(d))
    BY <1>3 DEF Holding
  <1>8. S!samples_with_time(ch) = S!FlattenSeq([k \in DOMAIN c.segments |->
                        [i \in 1..c.segments[k].sample_count |->
                           <<S!segment_timestamp(c.segments[k], i - 1),
                             c.samples[c.segments[k].start_index + i]>>]])
    BY Zenon DEF S!samples_with_time, c
  <1>9. ASSUME NEW x
        PROVE  S!FlattenSeq(x) = FlattenSeq(x)
    BY Zenon DEF S!FlattenSeq, FlattenSeq
  <1>. QED  BY <1>5, <1>6, <1>7, <1>8, <1>9 DEF Presenting

\* The samples of a channel that has stamps, or none.
LEMMA StampsHold ==
    ASSUME NEW ch, Copyable(s_builders[ch]), s_builders[ch].state # "Equidistant",
           NEW d, d.mode \in {"Empty", "Timestamped", "Variable"}, d.segments = <<>>,
           d.values = s_builders[ch].samples, d.timestamps_ns = s_builders[ch].timestamps_ns,
           d.mode = "Empty" => d.values = <<>>
    PROVE  Presenting(d, ch)
  <1>. DEFINE c == s_builders[ch]
  <1>1. /\ c.samples \in Seq(Nat) /\ IsSequence(c.timestamps_ns)
        /\ Len(c.timestamps_ns) = Len(c.samples)
    BY DEF Copyable
  <1>2. IsSequence(c.samples) /\ DOMAIN c.samples = 1..Len(c.samples)
    BY <1>1 DEF IsSequence
  <1>3. S!samples_with_time(ch) = [i \in DOMAIN c.samples |-> <<c.timestamps_ns[i], c.samples[i]>>]
    BY Zenon DEF S!samples_with_time
  <1>. HIDE DEF c
  <1>4. Holding(d) = [i \in 1..Len(d.values) |-> <<d.timestamps_ns[i], d.values[i]>>]
    BY DEF Holding
  <1>5. d.mode = "Empty" => d.timestamps_ns = <<>>
    <2>1. d.values = <<>> => Len(d.timestamps_ns) = 0
      BY <1>1 DEF c
    <2>2. IsSequence(d.timestamps_ns) /\ Len(d.timestamps_ns) = 0 => d.timestamps_ns = <<>>
      BY DEF IsSequence
    <2>. QED  BY <1>1, <2>1, <2>2 DEF c
  <1>6. DOMAIN <<>> = {}
    OBVIOUS
  <1>7. Sound(d)
    BY <1>1, <1>2, <1>5, <1>6, EmptySequence DEF Sound, c
  <1>. QED  BY <1>2, <1>3, <1>4, <1>7 DEF c, Presenting

\* from_manager refuses this channel for what the writer does not write.
Unwritable(ch) ==
    \/ CopiedDef(ch).channel_type = "unsupported"
    \/ \E j \in DOMAIN s_builders[ch].segments :
          s_builders[ch].data_type \notin EquidistantTypes \/ s_builders[ch].segments[j].period = 0

\* Where a copy stands: refused for one of the channels, or a builder of the first k.
Copying(acc, k) ==
    /\ acc = [builder |-> acc.builder, error |-> acc.error]
    /\ acc.error # "done"
    /\ acc.error # "none" => \E i \in DOMAIN s_channels : Unwritable(s_channels[i])
    /\ acc.error = "none" => /\ Prepared(acc.builder) /\ NameIndex(acc.builder)
                             /\ Len(acc.builder.channels) = k
                             /\ \A i \in 1..k : HoldsChannel(acc.builder, i, s_channels[i])

\* The same for the first k segments of channel ch, which is channel `to' of the copy.
Filling(acc, ch, to, b, k) ==
    /\ acc = [builder |-> acc.builder, error |-> acc.error]
    /\ acc.error # "done"
    /\ acc.error # "none" => Unwritable(ch)
    /\ acc.error = "none" => /\ Prepared(acc.builder)
                             /\ acc.builder.channels = b.channels
                             /\ acc.builder.name_to_index = b.name_to_index
                             /\ Segmental(acc.builder.channel_data[to + 1], s_builders[ch], k)
                             /\ OthersStay(acc.builder, b, to)

LEMMA SegmentCopied ==
    ASSUME NEW ch \in S!Indices, Copyable(s_builders[ch]), NEW b, NEW to \in Nat, Declared(b, to),
           b.channels[to + 1].data_type = s_builders[ch].data_type,
           NEW acc, NEW k \in Nat, Filling(acc, ch, to, b, k),
           k + 1 \in DOMAIN s_builders[ch].segments
    PROVE  Filling(copy_equidistant_segment(acc, to, s_builders[ch].segments[k + 1], s_builders[ch]),
                   ch, to, b, k + 1)
  <1>. DEFINE c == s_builders[ch]
              seg == c.segments[k + 1]
              dt == c.data_type
              refusal == SegmentRefusal(acc.builder, to, dt, seg.period)
              r == copy_equidistant_segment(acc, to, seg, c)
  <1>1. CASE acc.error # "none"
    BY <1>1 DEF copy_equidistant_segment, Filling
  <1>2. CASE acc.error = "none" /\ refusal # "none"
    <2>1. r = [acc EXCEPT !.error = refusal]
      BY <1>2 DEF copy_equidistant_segment
    <2>2. r.error = refusal /\ r.builder = acc.builder /\ r = [builder |-> r.builder, error |-> r.error]
      BY <2>1 DEF Filling
    <2>3. dt \notin EquidistantTypes \/ seg.period = 0
      <3>. SUFFICES ASSUME dt \in EquidistantTypes, seg.period # 0
                    PROVE  refusal = "none"
        BY <1>2
      <3>1. /\ acc.builder.channels = b.channels /\ Mode(acc.builder, to) \in {"Empty", "Equidistant"}
            /\ Declared(acc.builder, to)
        BY <1>2 DEF Filling, Declared, Segmental, Mode
      <3>2. acc.builder.channels[to + 1].data_type = dt
        BY <3>1
      <3>. QED  BY <3>1, <3>2 DEF SegmentRefusal
    <2>4. Unwritable(ch)
      BY <2>3 DEF Unwritable
    <2>5. refusal # "done"
      BY DEF SegmentRefusal
    <2>. QED  BY <1>2, <2>2, <2>4, <2>5 DEF Filling
  <1>3. CASE acc.error = "none" /\ refusal = "none"
    <2>. DEFINE values == SubSeq(c.samples, seg.start_index + 1, seg.start_index + seg.sample_count)
                e == AddSegment(acc.builder, to, seg.start, seg.period, values)
    <2>1. r = [acc EXCEPT !.builder = e]
      BY <1>3 DEF copy_equidistant_segment
    <2>2. r.error = "none" /\ r.builder = e /\ r = [builder |-> r.builder, error |-> r.error]
      BY <1>3, <2>1 DEF Filling
    <2>3. /\ Prepared(acc.builder) /\ acc.builder.channels = b.channels
          /\ acc.builder.name_to_index = b.name_to_index /\ Declared(acc.builder, to)
          /\ Segmental(acc.builder.channel_data[to + 1], c, k) /\ OthersStay(acc.builder, b, to)
      BY <1>3 DEF Filling, Declared
    <2>4. IsSequence(values)
      <3>1. seg \in S!Segment /\ SegmentTo(seg) <= Len(c.samples) /\ c.samples \in Seq(Nat)
        BY DEF Copyable
      <3>2. seg.start_index \in Nat /\ seg.sample_count \in Nat
            /\ seg.start_index + seg.sample_count <= Len(c.samples)
        BY <3>1 DEF S!Segment, SegmentTo
      <3>3. values \in Seq(Nat)
        BY <3>1, <3>2, Cut
      <3>. QED  BY <3>3 DEF IsSequence
    <2>5. dt \in EquidistantTypes
      <3>1. acc.builder.channels[to + 1].data_type = dt
        BY <2>3
      <3>. QED  BY <1>3, <2>3, <3>1 DEF SegmentRefusal
    <2>. DEFINE run == [start |-> seg.start, period |-> seg.period, times |-> <<>>,
                        values |-> values, sizes |-> <<>>]
    <2>6. SegmentOf(run, c, seg)
      BY DEF SegmentOf
    <2>. HIDE DEF values
    <2>7. Prepared(e)
      BY <1>3, <2>3, <2>4, <2>5, SegmentAdded
    <2>8. e.channels = b.channels /\ e.name_to_index = b.name_to_index
      BY <2>3, DeclarationsStay
    <2>9. HasSegment(e, acc.builder, to, run)
      BY <2>3, SegmentData
    <2>. HIDE DEF run, e, seg, c, r
    <2>10. Segmental(e.channel_data[to + 1], c, k + 1)
      BY <2>3, <2>6, <2>9, OneMore DEF seg, HasSegment
    <2>11. OthersStay(e, b, to)
      BY <2>3, <2>9 DEF OthersStay, HasSegment
    <2>12. Filling(r, ch, to, b, k + 1)
      BY <2>2, <2>7, <2>8, <2>10, <2>11 DEF Filling, c
    <2>. QED  BY <2>12 DEF r, seg, c
  <1>. QED  BY <1>1, <1>2, <1>3

LEMMA SegmentsCopied ==
    ASSUME NEW ch \in S!Indices, Copyable(s_builders[ch]), NEW b, NEW to \in Nat, Declared(b, to),
           b.channels[to + 1].data_type = s_builders[ch].data_type,
           NEW acc, Filling(acc, ch, to, b, 0)
    PROVE  Filling(CopiedSegments(acc, to, s_builders[ch].segments, s_builders[ch]), ch, to, b,
                   Len(s_builders[ch].segments))
  <1>. DEFINE c == s_builders[ch]
              list == c.segments
              n == Len(list)
  <1>1. n \in Nat /\ DOMAIN list = 1..n
    BY DEF Copyable
  <1>2. PICK f : /\ f[0] = acc
                 /\ \A i \in 1..n : f[i] = copy_equidistant_segment(f[i - 1], to, list[i], c)
                 /\ CopiedSegments(acc, to, list, c) = f[n]
    <2>. HIDE DEF n, list, c
    <2>. QED  BY <1>1, SegmentsUnfold
  <1>. DEFINE K == {k \in Nat : k <= n => Filling(f[k], ch, to, b, k)}
  <1>3. 0 \in K
    BY <1>2
  <1>4. ASSUME NEW k \in Nat, k \in K
        PROVE  k + 1 \in K
    <2>. SUFFICES ASSUME k + 1 <= n
                  PROVE  Filling(f[k + 1], ch, to, b, k + 1)
      BY <1>4
    <2>1. Filling(f[k], ch, to, b, k)
      BY <1>1, <1>4
    <2>2. k + 1 \in DOMAIN list /\ k + 1 \in 1..n /\ (k + 1) - 1 = k
      BY <1>1
    <2>3. f[k + 1] = copy_equidistant_segment(f[k], to, list[k + 1], c)
      BY <1>2, <2>2
    <2>. QED  BY <2>1, <2>2, <2>3, SegmentCopied
  <1>5. n \in K
    <2>. HIDE DEF K
    <2>. QED  BY <1>1, <1>3, <1>4, Induction
  <1>6. Filling(f[n], ch, to, b, n)
    BY <1>1, <1>5
  <1>. QED  BY <1>2, <1>6

\* The samples of a channel that was declared and has none yet.
LEMMA DataCopied ==
    ASSUME NEW ch \in S!Indices, Copyable(s_builders[ch]), s_builders[ch].state # "Unsupported",
           NEW to \in Nat, NEW acc, acc = [builder |-> acc.builder, error |-> acc.error],
           acc.error = "none", Prepared(acc.builder), Declared(acc.builder, to),
           acc.builder.channel_data[to + 1] = NoData,
           acc.builder.channels[to + 1].data_type = s_builders[ch].data_type
    PROVE  LET r == copy_channel_data(acc, to, s_builders[ch])
           IN  /\ r = [builder |-> r.builder, error |-> r.error] /\ r.error # "done"
               /\ r.error # "none" => Unwritable(ch)
               /\ r.error = "none" => /\ Prepared(r.builder)
                                      /\ r.builder.channels = acc.builder.channels
                                      /\ r.builder.name_to_index = acc.builder.name_to_index
                                      /\ OthersStay(r.builder, acc.builder, to)
                                      /\ Presenting(r.builder.channel_data[to + 1], ch)
  <1>. DEFINE c == s_builders[ch]
              b == acc.builder
              r == copy_channel_data(acc, to, c)
  <1>1. CASE c.state = "Equidistant"
    <2>1. r = CopiedSegments(acc, to, c.segments, c)
      BY <1>1, Zenon DEF copy_channel_data, CopiedSegments
    <2>2. Filling(acc, ch, to, b, 0)
      <3>1. Segmental(NoData, c, 0)
        <4>1. 1..0 = {}
          OBVIOUS
        <4>. QED  BY <4>1, EmptySequence DEF Segmental, NoData
      <3>. QED  BY <3>1 DEF Filling, OthersStay
    <2>3. Filling(r, ch, to, b, Len(c.segments))
      BY <2>1, <2>2, SegmentsCopied
    <2>. HIDE DEF r
    <2>4. /\ r = [builder |-> r.builder, error |-> r.error] /\ r.error # "done"
          /\ r.error # "none" => Unwritable(ch)
          /\ r.error = "none" => /\ Prepared(r.builder)
                                 /\ r.builder.channels = b.channels
                                 /\ r.builder.name_to_index = b.name_to_index
                                 /\ OthersStay(r.builder, b, to)
                                 /\ Presenting(r.builder.channel_data[to + 1], ch)
      BY <1>1, <2>3, SegmentsHold DEF Filling
    <2>. QED  BY <2>4 DEF r
  <1>2. CASE c.state = "Timestamped"
    <2>. DEFINE e == AddTimestamped(b, to, c.timestamps_ns, c.samples)
    <2>1. r = [acc EXCEPT !.builder = e]
      BY <1>2 DEF copy_channel_data
    <2>2. r.error = "none" /\ r.builder = e /\ r = [builder |-> r.builder, error |-> r.error]
      BY <2>1
    <2>3. c.data_type \in DOMAIN FixedSize
      BY <1>2 DEF Copyable, S!DataTypes, S!NumericTypes, S!VariableTypes, VariableTypes, FixedSize
    <2>4. StampedRefusal(b, to, c.data_type, 0, 0) = "none"
      BY DEF StampedRefusal, Mode, NoData
    <2>5. IsSequence(c.timestamps_ns) /\ IsSequence(c.samples)
      BY DEF Copyable, IsSequence
    <2>6. Prepared(e)
      BY <2>3, <2>4, <2>5, TimestampedAdded
    <2>7. e.channels = b.channels /\ e.name_to_index = b.name_to_index
      BY DeclarationsStay
    <2>8. OthersStay(e, b, to) /\ Presenting(e.channel_data[to + 1], ch)
      <3>1. HasStamps(e, b, to, c.timestamps_ns, c.samples)
        BY <2>5, StampedData
      <3>. HIDE DEF e
      <3>. QED  BY <1>2, <3>1, StampsHold DEF HasStamps
    <2>. QED  BY <2>2, <2>6, <2>7, <2>8
  <1>3. CASE c.state = "Variable"
    <2>. DEFINE sizes == [i \in DOMAIN c.samples |-> SizeOf(c.samples[i])]
                e == AddVariable(b, to, c.timestamps_ns, c.samples, sizes)
    <2>1. r = [acc EXCEPT !.builder = e]
      BY <1>3 DEF copy_channel_data
    <2>2. r.error = "none" /\ r.builder = e /\ r = [builder |-> r.builder, error |-> r.error]
      BY <2>1
    <2>3. c.data_type \in VariableTypes
      BY <1>3 DEF Copyable
    <2>4. StampedRefusal(b, to, c.data_type, 0, 0) = "none"
      BY DEF StampedRefusal, Mode, NoData
    <2>5. IsSequence(c.timestamps_ns) /\ IsSequence(c.samples)
      BY DEF Copyable, IsSequence
    <2>6. /\ sizes \in Seq(Nat) /\ Len(sizes) = Len(c.samples)
          /\ Len(c.timestamps_ns) = Len(sizes)
      <3>1. \A i \in DOMAIN c.samples : SizeOf(c.samples[i]) \in Nat
        BY DEF Copyable, HasRoom
      <3>2. Len(c.samples) \in Nat /\ DOMAIN c.samples = 1..Len(c.samples)
        BY DEF Copyable
      <3>3. sizes = [i \in 1..Len(c.samples) |-> sizes[i]] /\ \A i \in 1..Len(c.samples) : sizes[i] \in Nat
        BY <3>1, <3>2
      <3>. HIDE DEF sizes, c
      <3>6. \A f : \A n \in Nat : f = [i \in 1..n |-> f[i]] /\ (\A i \in 1..n : f[i] \in Nat)
                               => f \in Seq(Nat) /\ Len(f) = n
        OBVIOUS
      <3>4. sizes \in Seq(Nat) /\ Len(sizes) = Len(c.samples)
        BY <3>2, <3>3, <3>6
      <3>5. Len(c.timestamps_ns) = Len(c.samples)
        BY <1>3 DEF Copyable, c
      <3>. QED  BY <3>4, <3>5
    <2>. HIDE DEF sizes
    <2>7. Prepared(e)
      BY <2>3, <2>4, <2>5, <2>6, VariableAdded
    <2>8. e.channels = b.channels /\ e.name_to_index = b.name_to_index
      BY DeclarationsStay
    <2>9. OthersStay(e, b, to) /\ Presenting(e.channel_data[to + 1], ch)
      <3>1. HasStamps(e, b, to, c.timestamps_ns, c.samples)
        BY <2>5, StampedData
      <3>. HIDE DEF e
      <3>. QED  BY <1>3, <3>1, StampsHold DEF HasStamps
    <2>. QED  BY <2>2, <2>7, <2>8, <2>9 DEF sizes
  <1>4. CASE c.state = "Pending"
    <2>1. r = acc
      BY <1>4 DEF copy_channel_data
    <2>2. c.samples = <<>> /\ c.timestamps_ns = <<>>
      <3>1. c.samples = <<>> /\ Len(c.timestamps_ns) = Len(c.samples) /\ IsSequence(c.timestamps_ns)
        BY <1>4 DEF Copyable
      <3>2. Len(c.timestamps_ns) = 0
        BY <3>1
      <3>. QED  BY <3>1, <3>2 DEF IsSequence
    <2>3. Presenting(NoData, ch)
      BY <1>4, <2>2, StampsHold DEF NoData
    <2>. QED  BY <2>1, <2>3 DEF OthersStay
  <1>. QED  BY <1>1, <1>2, <1>3, <1>4 DEF Copyable, S!BuilderStates

\* A list without repetitions is no longer than what it is taken from.
LEMMA AtMostAll ==
    ASSUME NEW m \in Nat, NEW s \in Seq(0..m), IsInjective(s)
    PROVE  Len(s) <= m + 1
  <1>1. Len(s) \in Nat /\ DOMAIN s = 1..Len(s) /\ s \in [1..Len(s) -> 0..m]
    <2>. DEFINE X == 0..m
    <2>. HIDE DEF X
    <2>1. \A t \in Seq(X) : Len(t) \in Nat /\ DOMAIN t = 1..Len(t) /\ t \in [1..Len(t) -> X]
      OBVIOUS
    <2>. QED  BY <2>1 DEF X
  <1>. SUFFICES ASSUME Len(s) > m + 1
                PROVE  FALSE
    BY <1>1
  <1>2. IsFiniteSet(0..m) /\ Cardinality(0..m) = m + 1
    BY FS_Interval
  <1>3. IsFiniteSet(1..Len(s)) /\ Cardinality(1..Len(s)) = Len(s)
    <2>1. 1 \in Int /\ Len(s) \in Int /\ ~(1 > Len(s)) /\ Len(s) - 1 + 1 = Len(s)
      BY <1>1
    <2>. QED  BY <2>1, FS_Interval
  <1>4. PICK x, y \in 1..Len(s) : x # y /\ s[x] = s[y]
    <2>1. Cardinality(0..m) < Cardinality(1..Len(s))
      BY <1>1, <1>2, <1>3
    <2>. QED  BY <1>1, <1>2, <1>3, <2>1, FS_PigeonHole
  <1>. QED  BY <1>1, <1>4 DEF IsInjective

LEMMA SameIndex ==
    ASSUME NEW b, NEW e, NameIndex(b), e.channels = b.channels, e.name_to_index = b.name_to_index
    PROVE  NameIndex(e)
  <1>1. /\ DOMAIN e.name_to_index = {e.channels[i].name : i \in 1..Len(e.channels)}
        /\ \A n \in DOMAIN e.name_to_index :
              /\ e.name_to_index[n] + 1 \in 1..Len(e.channels)
              /\ e.channels[e.name_to_index[n] + 1].name = n
              /\ \A i \in 1..Len(e.channels) :
                    e.channels[i].name = n => i <= e.name_to_index[n] + 1
              /\ e.name_to_index[n] \in Nat
    BY DEF NameIndex
  <1>. QED  BY <1>1 DEF NameIndex

LEMMA ChannelCopied ==
    ASSUME SourceInv, ListedOnce, NEW k \in Nat, k + 1 \in DOMAIN s_channels, NEW acc, Copying(acc, k)
    PROVE  Copying(CopyChannel(acc, s_channels[k + 1]), k + 1)
  <1>. DEFINE ch == s_channels[k + 1]
              def == CopiedDef(ch)
              r == CopyChannel(acc, ch)
  <1>1. /\ ch \in S!Indices /\ Copyable(s_builders[ch]) /\ s_builders[ch].state # "Unsupported"
        /\ s_builders[ch].data_type = S!Definition(ch).data_type
    BY DEF SourceInv, ListedOnce
  <1>2. /\ def \in ChannelDef /\ def.size_of_length_value \in Widths
        /\ def.name = S!Definition(ch).name
        /\ def.data_type = s_builders[ch].data_type /\ def.data_type \in WritableTypes
        /\ def.channel_type # "unsupported" \/ Unwritable(ch)
    <2>1. PICK l \in DOMAIN Source :
             /\ S!Definition(ch) = Recorded[l]
             /\ def = [name |-> Source[l].name, data_type |-> Source[l].data_type,
                       channel_type |-> Source[l].channel_type,
                       size_of_length_value |-> Source[l].size_of_length_value]
      BY <1>1, LastDefinition
    <2>2. /\ Source[l] \in SourceDefs /\ Recorded[l].data_type = Source[l].data_type
          /\ Recorded[l].name = Source[l].name
      BY RecordedChannels
    <2>. HIDE DEF def, ch
    <2>3. /\ Source[l].name \in STRING /\ Source[l].data_type \in S!DataTypes
          /\ Source[l].channel_type \in {"scalar", "unsupported"}
          /\ Source[l].size_of_length_value \in Widths
      BY <2>2 DEF SourceDefs
    <2>4. Source[l].data_type \in WritableTypes
      <3>1. Source[l].data_type # "unsupported"
        BY <1>1, <2>1, <2>2 DEF Copyable
      <3>. QED  BY <2>3, <3>1 DEF S!DataTypes, S!NumericTypes, S!VariableTypes, WritableTypes,
                                  VariableTypes, FixedSize
    <2>5. WritableTypes \subseteq DataTypes /\ Widths \subseteq Nat
      BY DEF DataTypes, Widths
    <2>6. def \in ChannelDef
      BY <2>1, <2>3, <2>4, <2>5 DEF ChannelDef
    <2>7. /\ def.size_of_length_value \in Widths /\ def.data_type = Source[l].data_type
          /\ def.data_type \in WritableTypes
      BY <2>1, <2>3, <2>4
    <2>8. def.channel_type # "unsupported" \/ Unwritable(ch)
      BY DEF Unwritable, def
    <2>. QED  BY <1>1, <2>1, <2>2, <2>6, <2>7, <2>8
  <1>3. k <= MaxIndex
    <2>1. Len(s_channels) <= MaxIndex + 1 /\ MaxIndex \in Nat
      BY LimitAssumption, AtMostAll DEF ListedOnce
    <2>2. DOMAIN s_channels = 1..Len(s_channels) /\ Len(s_channels) \in Nat
      <3>. DEFINE X == 0..MaxIndex
      <3>1. s_channels \in Seq(X)
        BY DEF ListedOnce
      <3>. HIDE DEF X
      <3>. QED  BY <3>1
    <2>. QED  BY <2>1, <2>2
  <1>. HIDE DEF def
  <1>4. CASE acc.error # "none"
    BY <1>4 DEF CopyChannel, Copying
  <1>5. CASE acc.error = "none" /\ ~Declarable(acc.builder, def)
    <2>1. r = [acc EXCEPT !.error = "InvalidMetablock"]
      BY <1>5 DEF CopyChannel, def
    <2>2. /\ r.error \notin {"none", "done"}
          /\ r = [builder |-> r.builder, error |-> r.error]
      BY <2>1 DEF Copying
    <2>3. Unwritable(ch)
      <3>1. Len(acc.builder.channels) <= MaxIndex
        BY <1>3, <1>5 DEF Copying
      <3>. QED  BY <1>2, <1>5, <3>1 DEF Declarable
    <2>. QED  BY <2>2, <2>3 DEF Copying
  <1>6. CASE acc.error = "none" /\ Declarable(acc.builder, def)
    <2>. DEFINE b == AddChannel(acc.builder, def)
                next == [acc EXCEPT !.builder = b]
    <2>1. Prepared(acc.builder) /\ NameIndex(acc.builder) /\ Len(acc.builder.channels) = k
      BY <1>6 DEF Copying
    <2>2. r = copy_channel_data(next, k, s_builders[ch])
      BY <1>6, <2>1, Zenon DEF CopyChannel, def
    <2>3. Prepared(b) /\ NameIndex(b)
      BY <1>2, <1>6, <2>1, ChannelAdded, NameAdded
    <2>4. /\ Len(b.channels) = k + 1 /\ b.channels[k + 1] = def /\ b.channel_data[k + 1] = NoData
          /\ Declared(b, k)
          /\ \A i \in 1..k : HoldsChannel(b, i, s_channels[i])
      <3>1. /\ b.channels = Append(acc.builder.channels, def)
            /\ b.channel_data = Append(acc.builder.channel_data, NoData)
        <4>1. IsWriter(acc.builder)
          BY <2>1 DEF Prepared
        <4>. QED  BY <4>1 DEF IsWriter, WriterFields, AddChannel
      <3>2. /\ acc.builder.channels \in Seq(ChannelDef) /\ IsSequence(acc.builder.channel_data)
            /\ Len(acc.builder.channel_data) = k
        BY <2>1 DEF Prepared
      <3>. HIDE DEF b
      <3>3. Len(b.channels) = k + 1 /\ b.channels[k + 1] = def
        <4>1. IsSequence(acc.builder.channels)
          BY <3>2 DEF IsSequence
        <4>. QED  BY <2>1, <3>1, <4>1, Appended
      <3>4. b.channel_data[k + 1] = NoData
        BY <3>1, <3>2, Appended
      <3>5. k < k + 1
        OBVIOUS
      <3>6. ASSUME NEW i \in 1..k
            PROVE  HoldsChannel(b, i, s_channels[i])
        <4>1. b.channels[i] = acc.builder.channels[i] /\ b.channel_data[i] = acc.builder.channel_data[i]
          <5>1. IsSequence(acc.builder.channels)
            BY <3>2 DEF IsSequence
          <5>. QED  BY <2>1, <3>1, <3>2, <5>1, Appended
        <4>2. HoldsChannel(acc.builder, i, s_channels[i])
          BY <1>6 DEF Copying
        <4>. QED  BY <4>1, <4>2 DEF HoldsChannel
      <3>. QED  BY <3>3, <3>4, <3>5, <3>6 DEF Declared
    <2>5. next.error = "none" /\ next.builder = b /\ next = [builder |-> next.builder, error |-> next.error]
      BY <1>6 DEF Copying
    <2>6. next.builder.channels[k + 1].data_type = s_builders[ch].data_type
      BY <1>2, <2>4, <2>5
    <2>. HIDE DEF next, b
    <2>7. /\ r = [builder |-> r.builder, error |-> r.error] /\ r.error # "done"
          /\ r.error # "none" => Unwritable(ch)
          /\ r.error = "none" => /\ Prepared(r.builder)
                                 /\ r.builder.channels = b.channels
                                 /\ r.builder.name_to_index = b.name_to_index
                                 /\ OthersStay(r.builder, b, k)
                                 /\ Presenting(r.builder.channel_data[k + 1], ch)
      <3>. HIDE DEF r, ch
      <3>1. LET x == copy_channel_data(next, k, s_builders[ch])
            IN  /\ x = [builder |-> x.builder, error |-> x.error] /\ x.error # "done"
                /\ x.error # "none" => Unwritable(ch)
                /\ x.error = "none" => /\ Prepared(x.builder)
                                       /\ x.builder.channels = next.builder.channels
                                       /\ x.builder.name_to_index = next.builder.name_to_index
                                       /\ OthersStay(x.builder, next.builder, k)
                                       /\ Presenting(x.builder.channel_data[k + 1], ch)
        BY <1>1, <2>3, <2>4, <2>5, <2>6, DataCopied
      <3>. QED  BY <2>2, <2>5, <3>1
    <2>9. ASSUME r.error = "none", NEW i \in 1..(k + 1)
          PROVE  HoldsChannel(r.builder, i, s_channels[i])
      <3>. HIDE DEF r
      <3>1. CASE i = k + 1
        <4>1. r.builder.channels[i].name = S!Definition(ch).name
          BY <1>2, <2>4, <2>7, <2>9, <3>1
        <4>. QED  BY <2>7, <2>9, <3>1, <4>1 DEF HoldsChannel
      <3>2. CASE i # k + 1
        <4>1. i \in 1..k /\ i \in 1..Len(b.channels)
          BY <2>4, <3>2
        <4>2. HoldsChannel(b, i, s_channels[i])
          BY <2>4, <4>1
        <4>3. r.builder.channels = b.channels /\ r.builder.channel_data[i] = b.channel_data[i]
          BY <2>7, <2>9, <3>2, <4>1 DEF OthersStay
        <4>. QED  BY <4>2, <4>3 DEF HoldsChannel
      <3>. QED  BY <3>1, <3>2
    <2>8. r.error = "none" => NameIndex(r.builder) /\ Len(r.builder.channels) = k + 1
      <3>. HIDE DEF r
      <3>. QED  BY <2>3, <2>4, <2>7, SameIndex
    <2>. HIDE DEF r
    <2>. QED  BY <2>7, <2>8, <2>9 DEF Copying, r
  <1>. QED  BY <1>4, <1>5, <1>6

LEMMA CopyEnds ==
    ASSUME SourceInv, s_outcome = "loaded"
    PROVE  Copying(CopiedChannels([builder |-> NewBuilder, error |-> "none"], s_channels),
                   Len(s_channels))
  <1>. DEFINE a == [builder |-> NewBuilder, error |-> "none"]
              n == Len(s_channels)
  <1>1. ListedOnce
    BY DEF SourceInv
  <1>2. n \in Nat /\ DOMAIN s_channels = 1..n
    <2>. DEFINE X == 0..MaxIndex
    <2>1. s_channels \in Seq(X)
      BY <1>1 DEF ListedOnce
    <2>. HIDE DEF X
    <2>. QED  BY <2>1
  <1>3. Copying(a, 0)
    <2>1. /\ IsWriter(NewBuilder) /\ NewBuilder.channels = <<>>
          /\ NewBuilder.channel_data = <<>>
      BY DEF NewBuilder, IsWriter, WriterFields
    <2>2. <<>> \in Seq(ChannelDef) /\ Len(<<>>) = 0
      OBVIOUS
    <2>3. Prepared(NewBuilder) /\ Len(NewBuilder.channels) = 0
      BY <2>1, <2>2, EmptySequence DEF Prepared
    <2>4. 1..0 = {}
      OBVIOUS
    <2>. QED  BY <2>3, <2>4, NewNameIndex DEF Copying
  <1>. HIDE DEF a, n
  <1>4. PICK f : /\ f[0] = a
                 /\ \A i \in 1..n : f[i] = CopyChannel(f[i - 1], s_channels[i])
                 /\ CopiedChannels(a, s_channels) = f[n]
    BY <1>2, CopyUnfolds
  <1>. DEFINE K == {k \in Nat : k <= n => Copying(f[k], k)}
  <1>5. 0 \in K
    BY <1>3, <1>4
  <1>6. ASSUME NEW k \in Nat, k \in K
        PROVE  k + 1 \in K
    <2>. SUFFICES ASSUME k + 1 <= n
                  PROVE  Copying(f[k + 1], k + 1)
      BY <1>6
    <2>1. Copying(f[k], k)
      BY <1>2, <1>6
    <2>2. k + 1 \in DOMAIN s_channels /\ k + 1 \in 1..n /\ (k + 1) - 1 = k
      BY <1>2
    <2>3. f[k + 1] = CopyChannel(f[k], s_channels[k + 1])
      BY <1>4, <2>2
    <2>. QED  BY <1>1, <2>1, <2>2, <2>3, ChannelCopied
  <1>7. n \in K
    <2>. HIDE DEF K
    <2>. QED  BY <1>2, <1>5, <1>6, Induction
  <1>8. Copying(f[n], n)
    BY <1>2, <1>7
  <1>. QED  BY <1>4, <1>8 DEF a, n

\* The builder names its channels, whatever is called.
LEMMA NamesStay ==
    ASSUME Prepared(builder), NameIndex(builder), [Next]_vars
    PROVE  NameIndex(builder')
  <1>1. CASE with_integrity
    <2>1. PICK profile \in Profiles : builder' = [builder EXCEPT !.integrity = profile]
      BY <1>1 DEF with_integrity
    <2>2. builder'.channels = builder.channels /\ builder'.name_to_index = builder.name_to_index
      BY <2>1 DEF Prepared, IsWriter, WriterFields
    <2>. QED  BY <2>2, SameIndex
  <1>2. CASE add_channel
    BY <1>2, NameAdded, DefAssumption DEF add_channel
  <1>3. CASE add_equidistant_segment
    <2>1. PICK ch \in 0..MaxChannels, expected \in EquidistantTypes, start \in Starts,
               period \in Periods, n \in 0..MaxCall :
             /\ SegmentRefusal(builder, ch, expected, period) = "none"
             /\ builder' = AddSegment(builder, ch, start, period, Fresh(n))
      BY <1>3 DEF add_equidistant_segment
    <2>2. ch \in Nat /\ Declared(builder, ch)
      BY <2>1, LimitAssumption DEF SegmentRefusal
    <2>3. builder'.channels = builder.channels /\ builder'.name_to_index = builder.name_to_index
      BY <2>1, <2>2, DeclarationsStay
    <2>. QED  BY <2>3, SameIndex
  <1>4. CASE add_timestamped_samples
    <2>1. PICK ch \in 0..MaxChannels, expected \in DOMAIN FixedSize, t \in Times,
               stamps, n \in 0..MaxCall :
             /\ StampedRefusal(builder, ch, expected, stamps, n) = "none"
             /\ builder' = AddTimestamped(builder, ch, [i \in 1..stamps |-> t + i], Fresh(n))
      BY <1>4 DEF add_timestamped_samples
    <2>2. ch \in Nat /\ Declared(builder, ch)
      BY <2>1, LimitAssumption DEF StampedRefusal
    <2>3. builder'.channels = builder.channels /\ builder'.name_to_index = builder.name_to_index
      BY <2>1, <2>2, DeclarationsStay
    <2>. QED  BY <2>3, SameIndex
  <1>5. CASE add_variable_samples
    <2>1. PICK ch \in 0..MaxChannels, expected \in VariableTypes, t \in Times,
               stamps \in 0..MaxCall, sizes \in UNION {[1..n -> Sizes] : n \in 0..MaxCall} :
             /\ StampedRefusal(builder, ch, expected, stamps, Len(sizes)) = "none"
             /\ builder' = AddVariable(builder, ch, [i \in 1..stamps |-> t + i],
                                       Fresh(Len(sizes)), sizes)
      BY <1>5 DEF add_variable_samples
    <2>2. ch \in Nat /\ Declared(builder, ch)
      BY <2>1, LimitAssumption DEF StampedRefusal
    <2>3. builder'.channels = builder.channels /\ builder'.name_to_index = builder.name_to_index
      BY <2>1, <2>2, DeclarationsStay
    <2>. QED  BY <2>3, SameIndex
  <1>6. CASE builder' = [builder EXCEPT !.channels = autobump(builder)]
    <2>1. builder'.channels = autobump(builder) /\ builder'.name_to_index = builder.name_to_index
      BY <1>6 DEF Prepared, IsWriter, WriterFields
    <2>. DEFINE n == Len(builder.channels)
    <2>2. n \in Nat /\ DOMAIN builder.channels = 1..n /\ \A i \in 1..n : builder.channels[i] \in ChannelDef
      BY DEF Prepared
    <2>3. \A i \in 1..n : autobump(builder)[i].name = builder.channels[i].name
      <3>1. \A c \in ChannelDef : [c EXCEPT !.size_of_length_value = 4].name = c.name
        BY DEF ChannelDef
      <3>. QED  BY <2>2, <3>1 DEF autobump
    <2>4. Len(autobump(builder)) = n
      <3>1. DOMAIN autobump(builder) = 1..n
        BY <2>2 DEF autobump
      <3>2. autobump(builder) = [i \in 1..n |-> autobump(builder)[i]]
        BY <2>2 DEF autobump
      <3>. HIDE DEF n
      <3>. QED  BY <2>2, <3>2
    <2>5. {autobump(builder)[i].name : i \in 1..n} = {builder.channels[i].name : i \in 1..n}
      BY <2>3
    <2>. QED  BY <2>1, <2>3, <2>4, <2>5 DEF NameIndex
  <1>7. CASE UNCHANGED builder
    BY <1>7, SameIndex
  <1>. QED  BY <1>1, <1>2, <1>3, <1>4, <1>5, <1>6, <1>7
            DEF Next, Building, Writing, CreateFails, write_to_file, WriteHeader, WriteBlock,
                NextChannel, Flush, IoFails, vars

CopyInv ==
    /\ FInv /\ SourceInv /\ NameIndex(builder)
    /\ made \in {"calls", "copy"}
    /\ copied # "no" => s_outcome = "loaded"
    /\ made = "copy" /\ copied # "done" => phase = "building"
    /\ RefusedCopies

LEMMA RefusedIs ==
    RefusedCopies <=>
        (copied \notin {"no", "done"} => \E k \in DOMAIN s_channels : Unwritable(s_channels[k]))
  BY DEF RefusedCopies, Unwritable

LEMMA Copied ==
    ASSUME CopyInv, from_manager
    PROVE  CopyInv'
  <1>. DEFINE copy == CopiedChannels([builder |-> NewBuilder, error |-> "none"], s_channels)
  <1>1. /\ made = "copy" /\ s_outcome = "loaded" /\ copied = "no" /\ phase = "building"
        /\ UNCHANGED <<phase, result, output, told, made, source, target>>
    BY DEF from_manager, CopyInv
  <1>2. IF copy.error = "none" THEN builder' = copy.builder /\ copied' = "done"
                               ELSE builder' = builder /\ copied' = copy.error
    BY Zenon DEF from_manager, CopiedChannels
  <1>3. Copying(copy, Len(s_channels))
    BY <1>1, CopyEnds DEF CopyInv
  <1>. HIDE DEF copy
  <1>4. Prepared(builder') /\ NameIndex(builder')
    BY <1>2, <1>3 DEF Copying, CopyInv, FInv, WInv
  <1>5. FInv'
    <2>1. WInv'
      BY <1>1, <1>4 DEF CopyInv, FInv, WInv, output, OnlyIoFails
    <2>2. header' = NoHeader /\ UNCHANGED <<header, phase, file>> /\ IsSequence(file)
      BY <1>1 DEF CopyInv, FInv, HeaderKept, output
    <2>. QED  BY <1>1, <2>1, <2>2 DEF FInv, Inside, AtBlock, HeaderKept, Framed
  <1>6. SourceInv'
    BY <1>1, SourceStep DEF CopyInv
  <1>7. RefusedCopies'
    <2>1. copied' \notin {"no", "done"} => \E k \in DOMAIN s_channels : Unwritable(s_channels[k])
      BY <1>2, <1>3 DEF Copying
    <2>2. UNCHANGED <<s_channels, s_builders>>
      BY <1>1 DEF source
    <2>. QED  BY <2>1, <2>2 DEF RefusedCopies, Unwritable
  <1>8. s_outcome' = "loaded" /\ made' = "copy" /\ phase' = "building"
    BY <1>1 DEF source
  <1>. QED  BY <1>4, <1>5, <1>6, <1>7, <1>8 DEF CopyInv

LEMMA CopyStep ==
    ASSUME CopyInv, [Step]_all
    PROVE  CopyInv'
  <1>1. CASE Call
    <2>1. Next /\ UNCHANGED <<made, copied, source>> /\ made = "calls"
      BY <1>1 DEF Call, Next
    <2>2. FInv' /\ SourceInv' /\ NameIndex(builder')
      BY <2>1, FrameStep, SourceStep, NamesStay DEF CopyInv, FInv, WInv
    <2>. QED  BY <2>1, <2>2 DEF CopyInv, RefusedCopies, source
  <1>2. CASE LoadSource
    <2>1. /\ UNCHANGED <<vars, made, copied>> /\ s_outcome = "loading"
      BY <1>2 DEF LoadSource, S!apply_block, S!Finish
    <2>2. FInv' /\ SourceInv' /\ NameIndex(builder')
      BY <1>2, <2>1, FrameStep, SourceStep, NamesStay DEF CopyInv, FInv, WInv
    <2>3. /\ copied' = "no" /\ UNCHANGED <<phase, made, copied>>
          /\ made \in {"calls", "copy"}
          /\ made = "copy" /\ copied # "done" => phase = "building"
      BY <2>1 DEF CopyInv, vars
    <2>4. RefusedCopies'
      BY <2>3 DEF RefusedCopies
    <2>5. /\ made' \in {"calls", "copy"}
          /\ copied' # "no" => s_outcome' = "loaded"
          /\ made' = "copy" /\ copied' # "done" => phase' = "building"
      BY <2>3
    <2>. QED  BY <2>2, <2>4, <2>5 DEF CopyInv
  <1>3. CASE from_manager
    BY <1>3, Copied
  <1>4. CASE Write
    <2>1. Next /\ UNCHANGED <<made, copied, source>> /\ (made = "calls" \/ copied = "done")
      BY <1>4 DEF Write, Next
    <2>2. FInv' /\ SourceInv' /\ NameIndex(builder')
      BY <2>1, FrameStep, SourceStep, NamesStay DEF CopyInv, FInv, WInv
    <2>. QED  BY <2>1, <2>2 DEF CopyInv, RefusedCopies, source
  <1>5. CASE Load \/ UNCHANGED all
    <2>1. UNCHANGED <<vars, made, copied, source>>
      BY <1>5 DEF Load, all
    <2>2. FInv' /\ SourceInv' /\ NameIndex(builder')
      BY <2>1, FrameStep, SourceStep, NamesStay DEF CopyInv, FInv, WInv
    <2>. QED  BY <2>1, <2>2 DEF CopyInv, RefusedCopies, source, vars
  <1>. QED  BY <1>1, <1>2, <1>3, <1>4, <1>5 DEF Step

LEMMA CopyInit == AllInit => CopyInv
  <1>. SUFFICES ASSUME AllInit
                PROVE  CopyInv
    OBVIOUS
  <1>1. FInv /\ SourceInv
    BY FramedInit, SourceInit DEF AllInit
  <1>2. NameIndex(builder) /\ phase = "building"
    BY NewNameIndex DEF AllInit, Init
  <1>. QED  BY <1>1, <1>2 DEF AllInit, CopyInv, RefusedCopies

---------------------------------------------------------------------------
(* The theorems about copies. *)

\* from_manager refuses a loaded recording only for an unknown channel type, or for a
\* segment of another type than float or double or without a positive rate: the calls
\* it makes on its builder are otherwise within every limit those calls check.
THEOREM OnlyUnwritable == RoundTripSpec => []RefusedCopies
  <1>1. CopyInv => RefusedCopies
    BY DEF CopyInv
  <1>. QED  BY <1>1, CopyInit, CopyStep, PTL DEF RoundTripSpec

\* What from_manager returns, write_to can write, as what an application has put
\* together: only the output fails, or there is no channel or a profile with signatures.
THEOREM CopyIsWritten == RoundTripSpec => []OnlyIoFails
  <1>1. CopyInv => OnlyIoFails
    BY DEF CopyInv, FInv, WInv
  <1>. QED  BY <1>1, CopyInit, CopyStep, PTL DEF RoundTripSpec

\* The blocks of a copy have the sizes that the reader computes for them.
THEOREM CopyIsFramed == RoundTripSpec => []Framed
  <1>1. CopyInv => Framed
    BY DEF CopyInv, FInv
  <1>. QED  BY <1>1, CopyInit, CopyStep, PTL DEF RoundTripSpec

---------------------------------------------------------------------------
(* The load of the new file. *)

\* The blocks that this writer writes.
OwnKinds == {"StartData", "ContinuedData", "AbsTimestampData"}

TargetInv ==
    /\ \A k \in DOMAIN file : file[k].kind \in OwnKinds
    /\ IsSequence(t_fed)
    /\ DOMAIN t_builders = T!Indices
    /\ \A ch \in T!Indices :
          /\ "state" \in DOMAIN t_builders[ch]
          /\ t_builders[ch].state = "Unsupported" => T!Definition(ch).data_type = "unsupported"
    /\ t_outcome = "loaded" => phase \in {"written", "failed"}
    /\ NamesAgree

LEMMA TargetInit == Init /\ T!Init => TargetInv
  <1>. SUFFICES ASSUME Init, T!Init
                PROVE  TargetInv
    OBVIOUS
  <1>1. /\ t_builders = [ch \in T!Indices |-> T!NewBuilder(ch)] /\ t_outcome = "loading"
        /\ IsSequence(t_fed)
    BY EmptySequence DEF T!Init
  <1>3. \A k \in DOMAIN file : file[k].kind \in OwnKinds
    <2>1. DOMAIN <<>> = {} /\ DOMAIN <<OldBlock>> = {1} /\ <<OldBlock>>[1] = OldBlock
      OBVIOUS
    <2>2. OldBlock.kind = "StartData"
      BY DEF OldBlock
    <2>. QED  BY <2>1, <2>2 DEF Init, OwnKinds
  <1>2. ASSUME NEW ch \in T!Indices
        PROVE  /\ "state" \in DOMAIN T!NewBuilder(ch)
               /\ T!NewBuilder(ch).state = "Unsupported" => T!Definition(ch).data_type = "unsupported"
    BY DEF T!NewBuilder, T!initial_state_for
  <1>. QED  BY <1>1, <1>2, <1>3 DEF TargetInv, NamesAgree

LEMMA KindsStay ==
    ASSUME CopyInv, TargetInv, Write
    PROVE  \A k \in DOMAIN file' : file'[k].kind \in OwnKinds
  <1>1. IsSequence(file) /\ \A k \in DOMAIN file : file[k].kind \in OwnKinds
    BY DEF CopyInv, FInv, TargetInv
  <1>2. CASE file' = file
    BY <1>1, <1>2
  <1>3. CASE file' = <<>>
    BY <1>3
  <1>4. CASE file' = Append(file, Block)
    <2>1. Block.kind \in OwnKinds
      BY DEF Block, Kind, OwnKinds
    <2>2. /\ DOMAIN file = 1..Len(file) /\ DOMAIN file' = 1..(Len(file) + 1)
          /\ Len(file) \in Nat /\ file'[Len(file) + 1] = Block
          /\ \A i \in 1..Len(file) : file'[i] = file[i]
      BY <1>1, <1>4, Appended
    <2>3. \A i \in 1..(Len(file) + 1) : i \in 1..Len(file) \/ i = Len(file) + 1
      BY <2>2
    <2>. QED  BY <1>1, <2>1, <2>2, <2>3
  <1>5. ASSUME NEW k \in 0..Len(file), file' = SubSeq(file, 1, k)
        PROVE  \A i \in DOMAIN file' : file'[i].kind \in OwnKinds
    <2>1. PICK X : file \in Seq(X)
      BY <1>1 DEF IsSequence
    <2>2. DOMAIN file' = 1..k /\ \A i \in 1..k : file'[i] = file[i] /\ i \in DOMAIN file
      BY <1>5, <2>1
    <2>. QED  BY <1>1, <2>2
  <1>6. \/ file' = file \/ file' = <<>> \/ file' = Append(file, Block)
        \/ \E k \in 0..Len(file) : file' = SubSeq(file, 1, k)
    BY DEF Write, Writing, CreateFails, write_to_file, Create, WriteHeader, WriteBlock, NextChannel,
           Flush, IoFails, output
  <1>. QED  BY <1>2, <1>3, <1>4, <1>5, <1>6

LEMMA StateStays ==
    ASSUME NEW c, NEW b, b.kind \in OwnKinds, "state" \in DOMAIN c
    PROVE  /\ "state" \in DOMAIN T!Applied(c, b)
           /\ T!Applied(c, b).state = "Unsupported" => c.state = "Unsupported"
  <1>1. CASE b.kind = "StartData"
    BY <1>1 DEF T!Applied, T!apply_start
  <1>2. CASE b.kind = "ContinuedData"
    BY <1>2 DEF T!Applied, T!apply_continued
  <1>3. CASE b.kind = "AbsTimestampData"
    BY <1>3 DEF T!Applied, T!apply_abs_timestamped
  <1>. QED  BY <1>1, <1>2, <1>3 DEF OwnKinds

\* The definitions of the new file: an index is the position of its channel.
LEMMA Positions ==
    ASSUME NEW m \in Nat, DOMAIN Target = 1..m, \A i \in 1..m : Target[i].index = i - 1
    PROVE  \A i \in 1..m : /\ T!FirstOf(i) /\ i - 1 \in T!Indices
                           /\ T!Definition(i - 1) = Target[i]
  <1>. SUFFICES ASSUME NEW i \in 1..m
                PROVE  /\ T!FirstOf(i) /\ i - 1 \in T!Indices
                       /\ T!Definition(i - 1) = Target[i]
    OBVIOUS
  <1>1. T!FirstOf(i)
    <2>. SUFFICES ASSUME NEW j \in 1..(i - 1)
                  PROVE  Target[j].index # Target[i].index
      BY DEF T!FirstOf
    <2>1. j \in 1..m /\ j # i
      OBVIOUS
    <2>. QED  BY <2>1
  <1>2. i - 1 \in T!Indices
    BY DEF T!Indices
  <1>3. /\ i \in DOMAIN Target /\ Target[i].index = i - 1
        /\ \A j \in DOMAIN Target : Target[j].index = i - 1 => j <= i
    OBVIOUS
  <1>4. \A h \in DOMAIN Target :
           /\ Target[h].index = i - 1
           /\ \A j \in DOMAIN Target : Target[j].index = i - 1 => j <= h
           => h = i
    OBVIOUS
  <1>5. (CHOOSE h \in DOMAIN Target :
            /\ Target[h].index = i - 1
            /\ \A j \in DOMAIN Target : Target[j].index = i - 1 => j <= h) = i
    BY <1>3, <1>4, Zenon
  <1>6. T!Definition(i - 1) = Target[i]
    BY <1>5, Zenon DEF T!Definition
  <1>. QED  BY <1>1, <1>2, <1>6

\* The loader of a file of this writer lists all of its channels, each at its slot.
LEMMA AllListed ==
    ASSUME CopyInv, TargetInv, Load, T!Finish
    PROVE  /\ Len(builder.channels) \in Nat
           /\ t_channels' \in Seq(Int) /\ Len(t_channels') = Len(builder.channels)
           /\ DOMAIN t_channels' = 1..Len(builder.channels)
           /\ \A i \in 1..Len(builder.channels) :
                 /\ t_channels'[i] = i - 1
                 /\ T!Definition(i - 1).name = builder.channels[i].name
  <1>. DEFINE m == Len(builder.channels)
  <1>1. /\ header = builder.channels /\ Prepared(builder)
        /\ [i \in DOMAIN header |-> Loadable(header[i], i - 1)] = Target
    BY DEF Load, CopyInv, FInv, WInv, HeaderKept
  <1>2. /\ m \in Nat /\ DOMAIN builder.channels = 1..m
        /\ \A i \in 1..m : builder.channels[i].data_type \in WritableTypes
    BY <1>1 DEF Prepared, Ready
  <1>. HIDE DEF m
  <1>3. /\ DOMAIN Target = 1..m
        /\ \A i \in 1..m : /\ Target[i].index = i - 1
                           /\ Target[i].name = builder.channels[i].name
                           /\ Target[i].data_type = builder.channels[i].data_type
    BY <1>1, <1>2 DEF Loadable
  <1>4. \A i \in 1..m : /\ T!FirstOf(i) /\ i - 1 \in T!Indices
                        /\ T!Definition(i - 1) = Target[i]
    BY <1>2, <1>3, Positions
  <1>5. "unsupported" \notin WritableTypes
    BY DEF WritableTypes, FixedSize, VariableTypes
  <1>6. 1..m \subseteq T_Supported
    <2>. SUFFICES ASSUME NEW i \in 1..m
                  PROVE  i \in T_Supported
      OBVIOUS
    <2>1. T!Definition(i - 1).data_type # "unsupported"
      BY <1>2, <1>3, <1>4, <1>5
    <2>2. t_builders[i - 1].state # "Unsupported"
      BY <1>4, <2>1 DEF TargetInv
    <2>3. Target[i].index = i - 1 /\ i \in DOMAIN Target /\ T!FirstOf(i)
      BY <1>3, <1>4
    <2>. QED  BY <2>2, <2>3 DEF T_Supported
  <1>7. FilterOf(T!Finalized, m, T_Supported, [i \in 1..m |-> Target[i].index], Int)
    <2>1. \A i \in 1..m : Target[i].index \in Int
      BY <1>2, <1>3
    <2>. QED  BY <1>2, <1>3, <2>1, TargetFinalized
  <1>8. /\ T!Finalized \in Seq(Int) /\ Len(T!Finalized) = m
        /\ \A i \in 1..m : T!Finalized[i] = Target[i].index
    <2>. DEFINE x == [i \in 1..m |-> Target[i].index]
    <2>1. \A i \in 1..m : x[i] = Target[i].index
      OBVIOUS
    <2>2. FilterOf(T!Finalized, m, T_Supported, x, Int)
      BY <1>7
    <2>. HIDE DEF x
    <2>. QED  BY <1>6, <2>1, <2>2 DEF FilterOf
  <1>9. t_channels' = T!Finalized
    BY DEF T!Finish
  <1>10. DOMAIN T!Finalized = 1..m
    BY <1>8
  <1>. QED  BY <1>2, <1>3, <1>4, <1>8, <1>9, <1>10 DEF m

LEMMA SlotsAgree ==
    ASSUME CopyInv, TargetInv, Load, T!Finish
    PROVE  NamesAgree'
  <1>. DEFINE m == Len(builder.channels)
              list == t_channels'
  <1>1. /\ m \in Nat /\ DOMAIN list = 1..m
        /\ \A i \in 1..m : /\ list[i] = i - 1
                           /\ T!Definition(list[i]).name = builder.channels[i].name
    BY AllListed
  <1>2. NameIndex(builder) /\ builder' = builder
    BY DEF CopyInv, Load, vars
  <1>3. t_by_name' = [n \in {T!Definition(ch).name : ch \in T!ToSet(list)} |-> T!SlotOfName(list, n)]
    BY DEF T!Finish
  <1>. HIDE DEF m, list
  <1>. SUFFICES ASSUME NEW n \in DOMAIN t_by_name'
                PROVE  builder.name_to_index[n] = list[t_by_name'[n]]
    BY <1>2 DEF NamesAgree, list
  <1>4. t_by_name'[n] = T!SlotOfName(list, n) /\ n \in {T!Definition(ch).name : ch \in T!ToSet(list)}
    BY <1>3
  <1>5. PICK i \in 1..m : n = builder.channels[i].name
    BY <1>1, <1>4 DEF T!ToSet
  <1>. DEFINE k == builder.name_to_index[n] + 1
  <1>6. /\ n \in DOMAIN builder.name_to_index /\ k \in 1..m /\ builder.name_to_index[n] \in Nat
        /\ builder.channels[k].name = n
        /\ \A j \in 1..m : builder.channels[j].name = n => j <= k
    BY <1>2, <1>5 DEF NameIndex, m
  <1>7. /\ k \in DOMAIN list /\ T!Definition(list[k]).name = n
        /\ \A j \in DOMAIN list : T!Definition(list[j]).name = n => j <= k
    BY <1>1, <1>6
  <1>. HIDE DEF k
  <1>8. \A h \in DOMAIN list :
           /\ T!Definition(list[h]).name = n
           /\ \A j \in DOMAIN list : T!Definition(list[j]).name = n => j <= h
           => h = k
    BY <1>1, <1>7
  <1>9. T!SlotOfName(list, n) = k
    BY <1>7, <1>8, Zenon DEF T!SlotOfName
  <1>10. list[k] = builder.name_to_index[n]
    <2>1. list[k] = k - 1
      BY <1>1, <1>7
    <2>. QED  BY <1>6, <2>1 DEF k
  <1>. QED  BY <1>4, <1>9, <1>10

LEMMA TargetStep ==
    ASSUME CopyInv, TargetInv, [Step]_all
    PROVE  TargetInv'
  <1>1. CASE /\ UNCHANGED target /\ (t_outcome = "loaded" => UNCHANGED <<builder, phase>>)
             /\ \A k \in DOMAIN file' : file'[k].kind \in OwnKinds
    <2>1. NamesAgree'
      BY <1>1 DEF target, TargetInv, NamesAgree
    <2>2. UNCHANGED <<t_builders, t_outcome, t_fed>>
      BY <1>1 DEF target
    <2>. QED  BY <1>1, <2>1, <2>2 DEF TargetInv
  <1>2. CASE Call
    <2>1. UNCHANGED <<target, file>> /\ phase = "building"
      BY <1>2 DEF Call, Building, output, with_integrity, add_channel, add_equidistant_segment,
                  add_timestamped_samples, add_variable_samples
    <2>. QED  BY <1>1, <2>1 DEF TargetInv
  <1>3. CASE LoadSource \/ UNCHANGED all
    <2>1. UNCHANGED <<target, vars>>
      BY <1>3 DEF LoadSource, all
    <2>. QED  BY <1>1, <2>1 DEF vars, output, TargetInv
  <1>4. CASE from_manager
    <2>1. UNCHANGED <<target, file>> /\ phase = "building"
      BY <1>4 DEF from_manager, CopyInv, output
    <2>. QED  BY <1>1, <2>1 DEF TargetInv
  <1>5. CASE Write
    <2>1. UNCHANGED target /\ phase \notin {"written", "failed"}
      BY <1>5 DEF Write, Writing, CreateFails, write_to_file, WriteHeader, WriteBlock, AtBlock,
                  NextChannel, Flush, IoFails
    <2>. QED  BY <1>1, <1>5, <2>1, KindsStay DEF TargetInv
  <1>6. CASE Load
    <2>1. UNCHANGED <<builder, phase, file>> /\ phase \in {"written", "failed"} /\ t_outcome = "loading"
      BY <1>6 DEF Load, vars, output
    <2>2. CASE T!Finish
      <3>1. UNCHANGED <<t_builders, t_fed>>
        BY <2>2 DEF T!Finish
      <3>. QED  BY <1>6, <2>1, <2>2, <3>1, SlotsAgree DEF TargetInv
    <2>3. ASSUME NEW b, b.kind \in OwnKinds, T!apply_block(b)
          PROVE  TargetInv'
      <3>1. /\ t_fed' = Append(t_fed, b)
            /\ T!Error(b) = "none" /\ t_outcome' = t_outcome
            /\ t_builders' = [t_builders EXCEPT ![b.channel_index] = T!Applied(@, b)]
        BY <2>3 DEF T!apply_block
      <3>2. \A ch \in T!Indices :
               t_builders'[ch] = IF ch = b.channel_index THEN T!Applied(t_builders[ch], b)
                                                         ELSE t_builders[ch]
        BY <3>1 DEF TargetInv
      <3>3. DOMAIN t_builders' = T!Indices
        BY <3>1 DEF TargetInv
      <3>4. ASSUME NEW ch \in T!Indices
            PROVE  /\ "state" \in DOMAIN t_builders'[ch]
                   /\ t_builders'[ch].state = "Unsupported" =>
                         T!Definition(ch).data_type = "unsupported"
        BY <2>3, <3>2, StateStays DEF TargetInv
      <3>5. IsSequence(t_fed')
        BY <3>1, Appended DEF TargetInv
      <3>. QED  BY <2>1, <3>1, <3>3, <3>4, <3>5 DEF TargetInv, NamesAgree
    <2>4. ASSUME NEW b, T!RejectBlock(b)
          PROVE  TargetInv'
      <3>1. t_outcome' = T!Error(b) /\ UNCHANGED <<t_builders, t_fed>>
        BY <2>4 DEF T!RejectBlock, T!Fail
      <3>2. T!Error(b) # "loaded"
        BY DEF T!Error
      <3>. QED  BY <2>1, <3>1, <3>2 DEF TargetInv, NamesAgree
    <2>5. CASE Len(t_fed) < Len(file)
      <3>. DEFINE b == Decoded(file[Len(t_fed) + 1])
      <3>1. T!apply_block(b) \/ T!RejectBlock(b)
        BY <1>6, <2>5 DEF Load
      <3>2. Len(t_fed) + 1 \in DOMAIN file
        <4>1. IsSequence(t_fed) /\ IsSequence(file)
          BY DEF TargetInv, CopyInv, FInv
        <4>2. Len(t_fed) \in Nat /\ Len(file) \in Nat /\ DOMAIN file = 1..Len(file)
          BY <4>1, Appended
        <4>. QED  BY <2>5, <4>2
      <3>3. b.kind \in OwnKinds
        BY <3>2 DEF TargetInv, Decoded
      <3>. HIDE DEF b
      <3>. QED  BY <2>3, <2>4, <3>1, <3>3
    <2>6. CASE ~(Len(t_fed) < Len(file))
      BY <1>6, <2>2, <2>6 DEF Load
    <2>. QED  BY <2>5, <2>6
  <1>. QED  BY <1>2, <1>3, <1>4, <1>5, <1>6 DEF Step

\* The channel that the builder finds by a name is the one that the loader of its file
\* finds, whatever names the channels share and however the file was made.
THEOREM SameByName == RoundTripSpec => []NamesAgree
  <1>. DEFINE Inv == CopyInv /\ TargetInv
  <1>1. AllInit => Inv
    BY CopyInit, TargetInit DEF AllInit
  <1>2. Inv /\ [Step]_all => Inv'
    BY CopyStep, TargetStep
  <1>3. Inv => NamesAgree
    BY DEF TargetInv
  <1>. QED  BY <1>1, <1>2, <1>3, PTL DEF RoundTripSpec

---------------------------------------------------------------------------
(* The calls: what is stored is what was added. *)

\* Sequence s presents the samples of history l that are for channel ch, and no other.
Account(s, ch, l) ==
    /\ IsSequence(s) /\ IsSequence(l)
    /\ \A k \in 1..Len(s) :
          /\ s[k][2] \in 1..Len(l) /\ l[s[k][2]].channel_index = ch
          /\ s[k] = <<T!saturating_add(l[s[k][2]].time, 0), s[k][2]>>
    /\ \A k \in 1..Len(s), j \in 1..Len(s) : j < k => s[j][2] < s[k][2]
    /\ \A v \in 1..Len(l) : l[v].channel_index = ch => \E k \in 1..Len(s) : s[k][2] = v

LEMMA AccountGrows ==
    ASSUME NEW s, NEW ch, NEW l, Account(s, ch, l), NEW p, NEW g, IsSequence(p), IsSequence(g),
           Len(p) = Len(g),
           \A k \in 1..Len(g) : /\ g[k].channel_index = ch
                                /\ p[k] = <<T!saturating_add(g[k].time, 0), Len(l) + k>>
    PROVE  Account(s \o p, ch, l \o g)
  <1>. DEFINE a == Len(s)
              b == Len(l)
              n == Len(g)
              r == s \o p
              h == l \o g
  <1>1. Behind(r, s, p, a, n) /\ Behind(h, l, g, b, n)
    <2>1. IsSequence(s) /\ IsSequence(l)
      BY DEF Account
    <2>. QED  BY <2>1, Joint
  <1>2. /\ \A k \in 1..a : /\ s[k][2] \in 1..b /\ l[s[k][2]].channel_index = ch
                           /\ s[k] = <<T!saturating_add(l[s[k][2]].time, 0), s[k][2]>>
        /\ \A k \in 1..a, j \in 1..a : j < k => s[j][2] < s[k][2]
        /\ \A v \in 1..b : l[v].channel_index = ch => \E k \in 1..a : s[k][2] = v
    BY DEF Account
  <1>3. \A k \in 1..n : /\ g[k].channel_index = ch
                        /\ p[k] = <<T!saturating_add(g[k].time, 0), b + k>>
    OBVIOUS
  <1>. HIDE DEF a, b, n, r, h
  <1>4. a \in Nat /\ b \in Nat /\ n \in Nat /\ Len(r) = a + n /\ Len(h) = b + n
    BY <1>1 DEF Behind
  <1>5. ASSUME NEW k \in 1..a
        PROVE  /\ r[k] = s[k] /\ r[k][2] \in 1..b /\ r[k][2] \in 1..(b + n) /\ h[r[k][2]].channel_index = ch
               /\ r[k] = <<T!saturating_add(h[r[k][2]].time, 0), r[k][2]>>
    <2>1. r[k] = s[k] /\ s[k][2] \in 1..b
      BY <1>1, <1>2 DEF Behind
    <2>2. h[s[k][2]] = l[s[k][2]] /\ s[k][2] \in 1..(b + n)
      BY <1>1, <2>1 DEF Behind
    <2>. QED  BY <1>2, <2>1, <2>2
  <1>6. ASSUME NEW k \in 1..n
        PROVE  /\ r[a + k] = p[k] /\ r[a + k][2] = b + k /\ b + k \in 1..(b + n)
               /\ h[b + k].channel_index = ch
               /\ r[a + k] = <<T!saturating_add(h[b + k].time, 0), b + k>>
    <2>1. r[a + k] = p[k] /\ h[b + k] = g[k] /\ b + k \in 1..(b + n)
      BY <1>1 DEF Behind
    <2>2. p[k][2] = b + k
      BY <1>3
    <2>. QED  BY <1>3, <2>1, <2>2
  <1>7. \A k \in 1..(a + n) : k \in 1..a \/ (k > a /\ k - a \in 1..n /\ k = a + (k - a))
    BY <1>1 DEF Behind
  <1>8. ASSUME NEW k \in 1..(a + n)
        PROVE  /\ r[k][2] \in 1..(b + n) /\ h[r[k][2]].channel_index = ch
               /\ r[k] = <<T!saturating_add(h[r[k][2]].time, 0), r[k][2]>>
    <2>1. CASE k \in 1..a
      BY <1>5, <2>1
    <2>2. CASE k - a \in 1..n /\ k = a + (k - a)
      <3>. DEFINE i == k - a
      <3>1. i \in 1..n /\ k = a + i
        BY <2>2
      <3>. HIDE DEF i
      <3>. QED  BY <1>6, <3>1
    <2>. QED  BY <1>7, <2>1, <2>2
  <1>9. ASSUME NEW k \in 1..(a + n), NEW j \in 1..(a + n), j < k
        PROVE  r[j][2] < r[k][2]
    <2>1. CASE k \in 1..a
      <3>1. j \in 1..a
        BY <1>4, <1>9, <2>1
      <3>. QED  BY <1>2, <1>5, <1>9, <2>1, <3>1
    <2>2. CASE k - a \in 1..n /\ k = a + (k - a)
      <3>. DEFINE i == k - a
      <3>1. i \in 1..n /\ k = a + i
        BY <2>2
      <3>. HIDE DEF i
      <3>2. r[k][2] = b + i
        BY <1>6, <3>1
      <3>3. CASE j \in 1..a
        <4>1. r[j][2] \in 1..b
          BY <1>5, <3>3
        <4>2. \A x \in 1..b : x < b + i
          BY <1>4, <3>1
        <4>. QED  BY <3>2, <4>1, <4>2
      <3>4. CASE j - a \in 1..n /\ j = a + (j - a)
        <4>. DEFINE f == j - a
        <4>1. f \in 1..n /\ j = a + f
          BY <3>4
        <4>. HIDE DEF f
        <4>2. r[j][2] = b + f
          BY <1>6, <4>1
        <4>3. f < i
          BY <1>4, <1>9, <3>1, <4>1
        <4>. QED  BY <1>4, <3>1, <3>2, <4>1, <4>2, <4>3
      <3>. QED  BY <1>7, <3>3, <3>4
    <2>. QED  BY <1>7, <2>1, <2>2
  <1>10. ASSUME NEW v \in 1..(b + n), h[v].channel_index = ch
         PROVE  \E k \in 1..(a + n) : r[k][2] = v
    <2>1. CASE v \in 1..b
      <3>1. h[v] = l[v]
        BY <1>1, <2>1 DEF Behind
      <3>2. PICK k \in 1..a : s[k][2] = v
        BY <1>2, <1>10, <2>1, <3>1
      <3>3. k \in 1..(a + n)
        BY <1>1, <3>2 DEF Behind
      <3>. QED  BY <1>5, <3>2, <3>3
    <2>2. CASE v - b \in 1..n /\ v = b + (v - b)
      <3>. DEFINE i == v - b
      <3>1. i \in 1..n /\ v = b + i
        BY <2>2
      <3>. HIDE DEF i
      <3>2. r[a + i][2] = v
        BY <1>6, <3>1
      <3>3. a + i \in 1..(a + n)
        BY <1>1, <3>1 DEF Behind
      <3>. QED  BY <3>2, <3>3
    <2>3. v \in 1..b \/ (v - b \in 1..n /\ v = b + (v - b))
      BY <1>1 DEF Behind
    <2>. QED  BY <2>1, <2>2, <2>3
  <1>11. IsSequence(r) /\ IsSequence(h)
    BY <1>1 DEF Behind
  <1>12. Account(r, ch, h)
    BY <1>4, <1>8, <1>9, <1>10, <1>11 DEF Account
  <1>. QED  BY <1>12 DEF r, h

LEMMA AccountStays ==
    ASSUME NEW s, NEW ch, NEW l, Account(s, ch, l), NEW g, IsSequence(g),
           \A k \in 1..Len(g) : g[k].channel_index # ch
    PROVE  Account(s, ch, l \o g)
  <1>. DEFINE a == Len(s)
              b == Len(l)
              n == Len(g)
              h == l \o g
  <1>1. Behind(h, l, g, b, n)
    <2>1. IsSequence(l)
      BY DEF Account
    <2>. QED  BY <2>1, Joint
  <1>2. /\ IsSequence(s)
        /\ \A k \in 1..a : /\ s[k][2] \in 1..b /\ l[s[k][2]].channel_index = ch
                           /\ s[k] = <<T!saturating_add(l[s[k][2]].time, 0), s[k][2]>>
        /\ \A k \in 1..a, j \in 1..a : j < k => s[j][2] < s[k][2]
        /\ \A v \in 1..b : l[v].channel_index = ch => \E k \in 1..a : s[k][2] = v
    BY DEF Account
  <1>3. \A k \in 1..n : g[k].channel_index # ch
    OBVIOUS
  <1>. HIDE DEF a, b, n, h
  <1>4. Len(h) = b + n /\ IsSequence(h)
    BY <1>1 DEF Behind
  <1>5. ASSUME NEW k \in 1..a
        PROVE  /\ s[k][2] \in 1..(b + n) /\ h[s[k][2]].channel_index = ch
               /\ s[k] = <<T!saturating_add(h[s[k][2]].time, 0), s[k][2]>>
    <2>1. s[k][2] \in 1..b
      BY <1>2
    <2>2. h[s[k][2]] = l[s[k][2]] /\ s[k][2] \in 1..(b + n)
      BY <1>1, <2>1 DEF Behind
    <2>. QED  BY <1>2, <2>2
  <1>6. ASSUME NEW v \in 1..(b + n), h[v].channel_index = ch
        PROVE  \E k \in 1..a : s[k][2] = v
    <2>1. CASE v \in 1..b
      <3>1. h[v] = l[v]
        BY <1>1, <2>1 DEF Behind
      <3>. QED  BY <1>2, <1>6, <2>1, <3>1
    <2>2. CASE v - b \in 1..n /\ v = b + (v - b)
      <3>. DEFINE i == v - b
      <3>1. i \in 1..n /\ v = b + i
        BY <2>2
      <3>. HIDE DEF i
      <3>2. h[v] = g[i]
        BY <1>1, <3>1 DEF Behind
      <3>. QED  BY <1>3, <1>6, <3>1, <3>2
    <2>3. v \in 1..b \/ (v - b \in 1..n /\ v = b + (v - b))
      BY <1>1 DEF Behind
    <2>. QED  BY <2>1, <2>2, <2>3
  <1>7. Account(s, ch, h)
    BY <1>2, <1>4, <1>5, <1>6 DEF Account, a
  <1>. QED  BY <1>7 DEF h

\* The builder b holds what the history l tells.
Accounts(b, l) ==
    /\ IsSequence(l)
    /\ \A v \in 1..Len(l) : l[v].channel_index + 1 \in 1..Len(b.channels)
    /\ \A i \in 1..Len(b.channels) : /\ Sound(b.channel_data[i])
                                     /\ Account(Holding(b.channel_data[i]), i - 1, l)

\* Samples for one channel.
LEMMA Stored ==
    ASSUME NEW b, Prepared(b), NEW l, Accounts(b, l), NEW i \in 1..Len(b.channels),
           NEW d, Sound(d), NEW p, IsSequence(p), Holding(d) = Holding(b.channel_data[i]) \o p,
           NEW g, IsSequence(g), Len(p) = Len(g),
           \A k \in 1..Len(g) : /\ g[k].channel_index = i - 1
                                /\ p[k] = <<T!saturating_add(g[k].time, 0), Len(l) + k>>
    PROVE  Accounts([b EXCEPT !.channel_data[i] = d], l \o g)
  <1>. DEFINE e == [b EXCEPT !.channel_data[i] = d]
              n == Len(b.channels)
              m == Len(g)
              q == Len(l)
  <1>1. /\ e.channels = b.channels
        /\ \A k \in 1..n : e.channel_data[k] = IF k = i THEN d ELSE b.channel_data[k]
    <2>1. IsWriter(b) /\ IsSequence(b.channel_data) /\ Len(b.channel_data) = n
      BY DEF Prepared
    <2>2. e.channels = b.channels /\ e.channel_data = [b.channel_data EXCEPT ![i] = d]
      BY <2>1 DEF IsWriter, WriterFields
    <2>3. DOMAIN b.channel_data = 1..n
      BY <2>1, Sequences
    <2>. HIDE DEF e
    <2>. QED  BY <2>2, <2>3
  <1>. HIDE DEF e
  <1>2. ASSUME NEW k \in 1..n
        PROVE  Sound(e.channel_data[k]) /\ Account(Holding(e.channel_data[k]), k - 1, l \o g)
    <2>1. Sound(b.channel_data[k]) /\ Account(Holding(b.channel_data[k]), k - 1, l)
      BY DEF Accounts
    <2>2. CASE k = i
      <3>1. Account(Holding(b.channel_data[i]), i - 1, l)
        BY <2>1, <2>2
      <3>2. Account(Holding(b.channel_data[i]) \o p, i - 1, l \o g)
        BY <3>1, AccountGrows
      <3>. QED  BY <1>1, <2>2, <3>2
    <2>3. CASE k # i
      <3>1. k - 1 # i - 1
        <4>1. k \in Int /\ i \in Int
          BY DEF Prepared
        <4>. QED  BY <2>3, <4>1
      <3>. HIDE DEF n
      <3>2. Account(Holding(b.channel_data[k]), k - 1, l \o g)
        <4>1. \A j \in 1..Len(g) : g[j].channel_index # k - 1
          BY <3>1
        <4>. QED  BY <2>1, <4>1, AccountStays
      <3>. QED  BY <1>1, <2>1, <2>3, <3>2
    <2>. QED  BY <2>2, <2>3
  <1>3. IsSequence(l) /\ IsSequence(g) /\ Behind(l \o g, l, g, q, m)
    BY Joint DEF Accounts
  <1>4. ASSUME NEW v \in 1..Len(l \o g)
        PROVE  (l \o g)[v].channel_index + 1 \in 1..n
    <2>. DEFINE h == l \o g
    <2>1. \A x \in 1..q : l[x].channel_index + 1 \in 1..n
      BY DEF Accounts
    <2>2. \A x \in 1..m : g[x].channel_index + 1 \in 1..n
      <3>1. (i - 1) + 1 = i
        BY DEF Prepared
      <3>. QED  BY <3>1
    <2>3. v \in 1..(q + m) /\ Behind(h, l, g, q, m)
      BY <1>3 DEF Behind
    <2>. HIDE DEF h, q, m, n
    <2>5. CASE v - q \in 1..m /\ v = q + (v - q)
      <3>. DEFINE x == v - q
      <3>1. x \in 1..m /\ v = q + x
        BY <2>5
      <3>. HIDE DEF x
      <3>2. h[v] = g[x]
        BY <2>3, <3>1 DEF Behind
      <3>3. h[v].channel_index + 1 \in 1..n
        BY <2>2, <3>1, <3>2
      <3>. QED  BY <3>3 DEF h
    <2>6. v \in 1..q \/ (v - q \in 1..m /\ v = q + (v - q))
      BY <2>3 DEF Behind
    <2>7. CASE v \in 1..q
      <3>1. h[v] = l[v]
        BY <2>3, <2>7 DEF Behind
      <3>. QED  BY <2>1, <2>7, <3>1 DEF h
    <2>. QED  BY <2>5, <2>6, <2>7
  <1>5. IsSequence(l \o g)
    BY <1>3 DEF Behind
  <1>. QED  BY <1>1, <1>2, <1>4, <1>5 DEF Accounts, e

\* The numbers and the times of a call.
LEMMA Numbers ==
    ASSUME NEW l, IsSequence(l), NEW n \in Nat, NEW values, values = [i \in 1..n |-> Len(l) + i]
    PROVE  values \in Seq(Nat) /\ Len(values) = n /\ \A i \in 1..n : values[i] = Len(l) + i
  <1>1. Len(l) \in Nat
    BY Sequences
  <1>2. values \in [1..n -> Nat]
    BY <1>1
  <1>. QED  BY <1>2

LEMMA SegmentTimes ==
    ASSUME NEW start \in Int, start <= MaxTime, NEW period \in Nat, period # 0, NEW run,
           run.start = start, run.period = period, NEW i \in Nat
    PROVE  T!segment_timestamp(run, i) = T!saturating_add(start + i * period, 0)
  <1>. DEFINE m == i * period
  <1>1. m \in Int /\ MaxTime \in Int /\ period > 0 /\ (i = 0 => m = 0)
    BY SourceAssumption
  <1>2. T!segment_timestamp(run, i) = IF i > 0 THEN T!saturating_add(start, m) ELSE start
    BY <1>1 DEF T!segment_timestamp
  <1>. HIDE DEF m
  <1>3. T!segment_timestamp(run, i) = T!saturating_add(start + m, 0)
    BY <1>1, <1>2 DEF T!saturating_add
  <1>. QED  BY <1>3 DEF m

LEMMA StampTimes ==
    ASSUME NEW t \in Int, NEW n \in Nat, t + n <= MaxTime, NEW i \in 1..n
    PROVE  T!saturating_add(t + i, 0) = t + i
  <1>1. MaxTime \in Int
    BY SourceAssumption
  <1>. QED  BY <1>1 DEF T!saturating_add

LEMMA SegmentAccounted ==
    ASSUME NEW b, Prepared(b), NEW l, Accounts(b, l), NEW ch \in Nat,
           NEW expected \in EquidistantTypes, NEW start \in Int, start <= MaxTime,
           NEW period \in Nat, SegmentRefusal(b, ch, expected, period) = "none",
           NEW n \in Nat, NEW values, values = [i \in 1..n |-> Len(l) + i],
           NEW g, g = [i \in 1..n |-> [channel_index |-> ch, time |-> start + (i - 1) * period]]
    PROVE  Accounts(AddSegment(b, ch, start, period, values), l \o g)
  <1>. DEFINE d == b.channel_data[ch + 1]
              run == [start |-> start, period |-> period, times |-> <<>>, values |-> values,
                      sizes |-> <<>>]
              e == [d EXCEPT !.mode = "Equidistant", !.segments = Append(d.segments, run)]
              p == Piece(run, Len(run.values))
  <1>1. /\ ch + 1 \in 1..Len(b.channels) /\ d.mode \notin {"Timestamped", "Variable"} /\ period # 0
    <2>1. Declared(b, ch) /\ Len(b.channels) \in Nat
      BY DEF SegmentRefusal, Prepared
    <2>2. period # 0 /\ Mode(b, ch) \notin {"Timestamped", "Variable"}
      BY <2>1 DEF SegmentRefusal
    <2>. QED  BY <2>1, <2>2 DEF Declared, Mode
  <1>2. Ready(b.channels[ch + 1], d) /\ Sound(d)
    BY <1>1 DEF Prepared, Accounts
  <1>3. IsStore(d) /\ d.mode \in {"Empty", "Equidistant"}
    BY <1>1, <1>2 DEF Ready
  <1>4. /\ e.mode = "Equidistant" /\ e.segments = Append(d.segments, run)
        /\ e.values = d.values /\ e.timestamps_ns = d.timestamps_ns
    BY <1>3 DEF IsStore, StoreFields
  <1>5. /\ values \in Seq(Nat) /\ Len(values) = n /\ \A i \in 1..n : values[i] = Len(l) + i
    BY Numbers DEF Accounts
  <1>6. /\ run.start = start /\ run.period = period /\ run.values = values
    OBVIOUS
  <1>7. AddSegment(b, ch, start, period, values) = [b EXCEPT !.channel_data[ch + 1] = e]
    BY DEF AddSegment
  <1>. HIDE DEF e, run
  <1>8. Regular(run)
    BY <1>5, <1>6 DEF Regular
  <1>9. Sound(e) /\ Holding(e) = Holding(d) \o p
    BY <1>2, <1>3, <1>4, <1>8, SegmentHeld
  <1>10. /\ IsSequence(p) /\ Len(p) = n
         /\ \A k \in 1..n : p[k] = <<T!segment_timestamp(run, k - 1), values[k]>>
    <2>1. n \in 0..Len(run.values) /\ p = Piece(run, n)
      BY <1>5, <1>6
    <2>2. Piece(run, n) \in Seq(Sample) /\ Len(Piece(run, n)) = n
      BY <1>8, <2>1, PieceType
    <2>3. \A k \in 1..n : Piece(run, n)[k] = <<T!segment_timestamp(run, k - 1), values[k]>>
      BY <1>6 DEF Piece
    <2>. QED  BY <2>1, <2>2, <2>3 DEF IsSequence
  <1>. HIDE DEF p
  <1>11. IsSequence(g) /\ Len(g) = n /\ \A k \in 1..n : /\ g[k].channel_index = ch
                                                       /\ g[k].time = start + (k - 1) * period
    <2>1. g = [i \in 1..n |-> g[i]]
      BY Zenon
    <2>2. \A k \in 1..n : /\ g[k].channel_index = ch
                          /\ g[k].time = start + (k - 1) * period
      OBVIOUS
    <2>. QED  BY <2>1, <2>2, MappedLength
  <1>12. ASSUME NEW k \in 1..n
         PROVE  p[k] = <<T!saturating_add(g[k].time, 0), Len(l) + k>>
    <2>1. k - 1 \in Nat
      OBVIOUS
    <2>2. T!segment_timestamp(run, k - 1) = T!saturating_add(start + (k - 1) * period, 0)
      BY <1>1, <1>6, <2>1, SegmentTimes
    <2>. QED  BY <1>5, <1>10, <1>11, <2>2
  <1>13. (ch + 1) - 1 = ch
    OBVIOUS
  <1>14. \A k \in 1..Len(g) : /\ g[k].channel_index = (ch + 1) - 1
                              /\ p[k] = <<T!saturating_add(g[k].time, 0), Len(l) + k>>
    BY <1>11, <1>12, <1>13
  <1>15. Len(p) = Len(g) /\ IsSequence(p) /\ IsSequence(g)
    BY <1>10, <1>11
  <1>16. Prepared(b) /\ Accounts(b, l)
    OBVIOUS
  <1>17. Accounts([b EXCEPT !.channel_data[ch + 1] = e], l \o g)
    BY ONLY <1>1, <1>9, <1>14, <1>15, <1>16, Stored
  <1>. QED  BY <1>7, <1>17

\* Stamped samples of either family: what is passed, and what is told.
Passed(times, values, g, l, ch, n, t) ==
    /\ times = [i \in 1..n |-> t + i]
    /\ values = [i \in 1..n |-> Len(l) + i]
    /\ g = [i \in 1..n |-> [channel_index |-> ch, time |-> t + i]]

LEMMA StampedAccounted ==
    ASSUME NEW b, Prepared(b), NEW l, Accounts(b, l), NEW ch \in Nat, NEW expected, NEW n \in Nat,
           expected \in DOMAIN FixedSize \cup VariableTypes,
           StampedRefusal(b, ch, expected, n, n) = "none",
           NEW t \in Int, t + n <= MaxTime, NEW times, NEW values, NEW g,
           Passed(times, values, g, l, ch, n, t),
           NEW e, e.mode = Family(expected), Extended(e, b.channel_data[ch + 1], times, values)
    PROVE  Accounts([b EXCEPT !.channel_data[ch + 1] = e], l \o g)
  <1>. DEFINE d == b.channel_data[ch + 1]
              p == [i \in 1..Len(values) |-> <<times[i], values[i]>>]
  <1>0. /\ times = [i \in 1..n |-> t + i] /\ values = [i \in 1..n |-> Len(l) + i]
        /\ g = [i \in 1..n |-> [channel_index |-> ch, time |-> t + i]]
    BY DEF Passed
  <1>1. ch + 1 \in 1..Len(b.channels) /\ d.mode \in {"Empty", Family(expected)}
    <2>1. Declared(b, ch) /\ Len(b.channels) \in Nat
      BY DEF StampedRefusal, Prepared
    <2>2. Mode(b, ch) \in {"Empty", Family(expected)}
      BY <2>1 DEF StampedRefusal
    <2>. QED  BY <2>1, <2>2 DEF Declared, Mode
  <1>2. Sound(d)
    BY <1>1 DEF Accounts
  <1>3. d.mode # "Equidistant" /\ e.mode \in {"Timestamped", "Variable"}
    BY <1>1 DEF Family
  <1>4. values \in Seq(Nat) /\ Len(values) = n /\ \A i \in 1..n : values[i] = Len(l) + i
    BY <1>0, Numbers DEF Accounts
  <1>5. IsSequence(times) /\ Len(times) = n /\ \A i \in 1..n : times[i] = t + i
    BY <1>0, Counted
  <1>6. IsSequence(values)
    BY <1>4 DEF IsSequence
  <1>7. IsSequence(p) /\ Len(p) = n /\ \A k \in 1..n : p[k] = <<times[k], values[k]>>
    <2>1. p = [i \in 1..n |-> p[i]]
      BY <1>4, Zenon
    <2>2. \A k \in 1..n : p[k] = <<times[k], values[k]>>
      BY <1>4
    <2>. QED  BY <2>1, <2>2, MappedLength
  <1>. HIDE DEF p
  <1>8. Sound(e) /\ Holding(e) = Holding(d) \o p
    <2>1. Extended(e, d, times, values)
      OBVIOUS
    <2>2. Pairs(p, times, values)
      BY <1>4, <1>5, <1>6, <1>7 DEF Pairs
    <2>. HIDE DEF d
    <2>. QED  BY <1>2, <1>3, <2>1, <2>2, StampedHeld
  <1>9. IsSequence(g) /\ Len(g) = n /\ \A k \in 1..n : /\ g[k].channel_index = ch
                                                      /\ g[k].time = t + k
    <2>1. g = [i \in 1..n |-> g[i]]
      BY <1>0, Zenon
    <2>2. \A k \in 1..n : g[k].channel_index = ch /\ g[k].time = t + k
      BY <1>0
    <2>. QED  BY <2>1, <2>2, MappedLength
  <1>10. \A k \in 1..Len(g) : /\ g[k].channel_index = (ch + 1) - 1
                              /\ p[k] = <<T!saturating_add(g[k].time, 0), Len(l) + k>>
    <2>1. (ch + 1) - 1 = ch
      OBVIOUS
    <2>2. \A k \in 1..n : T!saturating_add(t + k, 0) = t + k
      BY StampTimes
    <2>. QED  BY <1>4, <1>5, <1>7, <1>9, <2>1, <2>2
  <1>11. Len(p) = Len(g)
    BY <1>7, <1>9
  <1>12. Prepared(b) /\ Accounts(b, l)
    OBVIOUS
  <1>. QED  BY ONLY <1>1, <1>7, <1>8, <1>9, <1>10, <1>11, <1>12, Stored

LEMMA NothingHeld == Sound(NoData) /\ Holding(NoData) = <<>>
  <1>1. /\ NoData.mode = "Empty" /\ NoData.segments = <<>> /\ NoData.timestamps_ns = <<>>
        /\ NoData.values = <<>>
    BY DEF NoData
  <1>2. Sound(NoData)
    <2>1. DOMAIN <<>> = {}
      OBVIOUS
    <2>. QED  BY <1>1, <2>1, EmptySequence DEF Sound
  <1>3. Holding(NoData) = FlattenSeq(Pieces(NoData))
    BY <1>1, <1>2, HoldingPieces
  <1>4. Pieces(NoData) = <<>>
    <2>1. Pieces(NoData) \in Seq(Seq(Sample)) /\ Len(Pieces(NoData)) = 0
      BY <1>1, <1>2, PiecesType DEF Sound
    <2>. QED  BY <2>1
  <1>. QED  BY <1>2, <1>3, <1>4, FlattenNothing

LEMMA ChannelAccounted ==
    ASSUME NEW b, Prepared(b), NEW l, Accounts(b, l), NEW def
    PROVE  Accounts(AddChannel(b, def), l)
  <1>. DEFINE e == AddChannel(b, def)
              n == Len(b.channels)
  <1>1. /\ IsWriter(b) /\ IsSequence(b.channels) /\ IsSequence(b.channel_data)
        /\ Len(b.channel_data) = n
    BY DEF Prepared, IsSequence
  <1>2. e.channels = Append(b.channels, def) /\ e.channel_data = Append(b.channel_data, NoData)
    BY <1>1 DEF IsWriter, WriterFields, AddChannel
  <1>. HIDE DEF e
  <1>3. Len(e.channels) = n + 1 /\ n \in Nat
    BY <1>1, <1>2, Appended
  <1>4. /\ e.channel_data[n + 1] = NoData /\ \A k \in 1..n : e.channel_data[k] = b.channel_data[k]
    BY <1>1, <1>2, Appended
  <1>5. Account(<<>>, (n + 1) - 1, l)
    <2>1. \A v \in 1..Len(l) : l[v].channel_index + 1 \in 1..n
      BY DEF Accounts
    <2>2. \A v \in 1..Len(l) : l[v].channel_index # (n + 1) - 1
      <3>1. (n + 1) - 1 = n /\ n + 1 \notin 1..n
        BY <1>3
      <3>. QED  BY <2>1, <3>1
    <2>3. IsSequence(<<>>) /\ 1..Len(<<>>) = {} /\ IsSequence(l)
      BY EmptySequence DEF Accounts
    <2>. QED  BY <2>2, <2>3 DEF Account
  <1>6. ASSUME NEW k \in 1..(n + 1)
        PROVE  Sound(e.channel_data[k]) /\ Account(Holding(e.channel_data[k]), k - 1, l)
    <2>1. CASE k \in 1..n
      BY <1>4, <2>1 DEF Accounts
    <2>2. CASE k = n + 1
      BY <1>4, <1>5, <2>2, NothingHeld
    <2>. QED  BY <1>3, <2>1, <2>2
  <1>7. ASSUME NEW v \in 1..Len(l)
        PROVE  l[v].channel_index + 1 \in 1..(n + 1)
    <2>1. l[v].channel_index + 1 \in 1..n
      BY DEF Accounts
    <2>. QED  BY <1>3, <2>1
  <1>. QED  BY <1>3, <1>6, <1>7 DEF Accounts, e

\* What an application stored through the builder is what it told.
LEMMA TimestampedAccounted ==
    ASSUME NEW b, Prepared(b), NEW l, Accounts(b, l), NEW ch \in Nat,
           NEW expected \in DOMAIN FixedSize, NEW n \in Nat,
           StampedRefusal(b, ch, expected, n, n) = "none", NEW t \in Int, t + n <= MaxTime,
           NEW times, NEW values, NEW g, Passed(times, values, g, l, ch, n, t)
    PROVE  Accounts(AddTimestamped(b, ch, times, values), l \o g)
  <1>. DEFINE d == b.channel_data[ch + 1]
              e == [d EXCEPT !.mode = "Timestamped", !.timestamps_ns = d.timestamps_ns \o times,
                             !.values = d.values \o values]
  <1>1. IsStore(d)
    <2>1. Declared(b, ch) /\ Len(b.channels) \in Nat
      BY DEF StampedRefusal, Prepared
    <2>2. ch + 1 \in 1..Len(b.channels)
      BY <2>1 DEF Declared
    <2>. QED  BY <2>2 DEF Prepared, Ready
  <1>2. /\ e.mode = "Timestamped" /\ e.segments = d.segments
        /\ e.timestamps_ns = d.timestamps_ns \o times /\ e.values = d.values \o values
    BY <1>1 DEF IsStore, StoreFields
  <1>3. AddTimestamped(b, ch, times, values) = [b EXCEPT !.channel_data[ch + 1] = e]
    BY DEF AddTimestamped
  <1>. HIDE DEF e
  <1>4. Family(expected) = "Timestamped" /\ expected \in DOMAIN FixedSize \cup VariableTypes
    BY DEF Family, VariableTypes, FixedSize
  <1>5. e.mode = Family(expected) /\ Extended(e, d, times, values)
    BY <1>2, <1>4 DEF Extended
  <1>6. Accounts([b EXCEPT !.channel_data[ch + 1] = e], l \o g)
    BY <1>4, <1>5, StampedAccounted
  <1>. QED  BY <1>3, <1>6

LEMMA VariableAccounted ==
    ASSUME NEW b, Prepared(b), NEW l, Accounts(b, l), NEW ch \in Nat,
           NEW expected \in VariableTypes, NEW n \in Nat,
           StampedRefusal(b, ch, expected, n, n) = "none", NEW t \in Int, t + n <= MaxTime,
           NEW times, NEW values, NEW g, Passed(times, values, g, l, ch, n, t), NEW sizes
    PROVE  Accounts(AddVariable(b, ch, times, values, sizes), l \o g)
  <1>. DEFINE d == b.channel_data[ch + 1]
              e == [d EXCEPT !.mode = "Variable", !.timestamps_ns = d.timestamps_ns \o times,
                             !.values = d.values \o values, !.sizes = d.sizes \o sizes]
  <1>1. IsStore(d)
    <2>1. Declared(b, ch) /\ Len(b.channels) \in Nat
      BY DEF StampedRefusal, Prepared
    <2>2. ch + 1 \in 1..Len(b.channels)
      BY <2>1 DEF Declared
    <2>. QED  BY <2>2 DEF Prepared, Ready
  <1>2. /\ e.mode = "Variable" /\ e.segments = d.segments
        /\ e.timestamps_ns = d.timestamps_ns \o times /\ e.values = d.values \o values
    BY <1>1 DEF IsStore, StoreFields
  <1>3. AddVariable(b, ch, times, values, sizes) = [b EXCEPT !.channel_data[ch + 1] = e]
    BY DEF AddVariable
  <1>. HIDE DEF e
  <1>4. Family(expected) = "Variable" /\ expected \in DOMAIN FixedSize \cup VariableTypes
    BY DEF Family
  <1>5. e.mode = Family(expected) /\ Extended(e, d, times, values)
    BY <1>2, <1>4 DEF Extended
  <1>6. Accounts([b EXCEPT !.channel_data[ch + 1] = e], l \o g)
    BY <1>4, <1>5, StampedAccounted
  <1>. QED  BY <1>3, <1>6

LEMMA EarlyEnough ==
    ASSUME NEW t \in Times, NEW n \in 0..MaxCall
    PROVE  t \in Int /\ n \in Nat /\ t + n <= MaxTime
  <1>1. t \in Int /\ t + MaxCall <= MaxTime /\ MaxCall \in Nat /\ MaxTime \in Nat
    BY InputAssumption, LimitAssumption, TimeAssumption, SourceAssumption
  <1>. QED  BY <1>1

LEMMA BuildingAccounts ==
    ASSUME Prepared(builder), Accounts(builder, told), Building
    PROVE  Accounts(builder', told')
  <1>1. CASE with_integrity
    <2>1. PICK profile \in Profiles : builder' = [builder EXCEPT !.integrity = profile]
      BY <1>1 DEF with_integrity
    <2>2. builder'.channels = builder.channels /\ builder'.channel_data = builder.channel_data
      BY <2>1 DEF Prepared, IsWriter, WriterFields
    <2>3. told' = told
      BY <1>1 DEF with_integrity
    <2>. QED  BY <2>2, <2>3 DEF Accounts
  <1>2. CASE add_channel
    <2>1. PICK def \in ChannelDefs : builder' = AddChannel(builder, def)
      BY <1>2 DEF add_channel
    <2>2. told' = told
      BY <1>2 DEF add_channel
    <2>3. Accounts(AddChannel(builder, def), told)
      BY ChannelAccounted
    <2>. QED  BY <2>1, <2>2, <2>3
  <1>3. CASE add_equidistant_segment
    <2>1. PICK ch \in 0..MaxChannels, expected \in EquidistantTypes, start \in Starts,
               period \in Periods, n \in 0..MaxCall :
             /\ SegmentRefusal(builder, ch, expected, period) = "none"
             /\ builder' = AddSegment(builder, ch, start, period, Fresh(n))
             /\ Told(ch, n, LAMBDA i : start + (i - 1) * period)
      BY <1>3 DEF add_equidistant_segment
    <2>. DEFINE values == Fresh(n)
                g == [i \in 1..n |-> [channel_index |-> ch, time |-> start + (i - 1) * period]]
    <2>2. /\ ch \in Nat /\ n \in Nat /\ start \in Int /\ period \in Nat
          /\ start <= MaxTime
      BY LimitAssumption, InputAssumption, TimeAssumption
    <2>3. told' = told \o g
      BY <2>1 DEF Told
    <2>4. values = [i \in 1..n |-> Len(told) + i]
      BY DEF Fresh
    <2>5. g = [i \in 1..n |-> [channel_index |-> ch, time |-> start + (i - 1) * period]]
      OBVIOUS
    <2>6. builder' = AddSegment(builder, ch, start, period, values)
      BY <2>1
    <2>. HIDE DEF values, g
    <2>7. Accounts(AddSegment(builder, ch, start, period, values), told \o g)
      BY <2>1, <2>2, <2>4, <2>5, SegmentAccounted
    <2>. QED  BY <2>3, <2>6, <2>7
  <1>4. CASE add_timestamped_samples
    <2>1. PICK ch \in 0..MaxChannels, expected \in DOMAIN FixedSize, t \in Times,
               stamps, n \in 0..MaxCall :
             /\ StampedRefusal(builder, ch, expected, stamps, n) = "none"
             /\ builder' = AddTimestamped(builder, ch, [i \in 1..stamps |-> t + i], Fresh(n))
             /\ Told(ch, n, LAMBDA i : t + i)
      BY <1>4 DEF add_timestamped_samples
    <2>. DEFINE times == [i \in 1..n |-> t + i]
                values == Fresh(n)
                g == [i \in 1..n |-> [channel_index |-> ch, time |-> t + i]]
    <2>2. ch \in Nat /\ n \in Nat /\ t \in Int /\ t + n <= MaxTime
      BY LimitAssumption, EarlyEnough
    <2>3. stamps = n /\ StampedRefusal(builder, ch, expected, n, n) = "none"
      BY <2>1 DEF StampedRefusal
    <2>4. told' = told \o g
      BY <2>1 DEF Told
    <2>5. values = [i \in 1..n |-> Len(told) + i]
      BY DEF Fresh
    <2>6. Passed(times, values, g, told, ch, n, t)
      BY <2>5 DEF Passed
    <2>7. builder' = AddTimestamped(builder, ch, times, values)
      BY <2>1, <2>3
    <2>. HIDE DEF times, values, g
    <2>8. Accounts(AddTimestamped(builder, ch, times, values), told \o g)
      BY <2>1, <2>2, <2>3, <2>5, <2>6, TimestampedAccounted
    <2>. QED  BY <2>4, <2>7, <2>8
  <1>5. CASE add_variable_samples
    <2>1. PICK ch \in 0..MaxChannels, expected \in VariableTypes, t \in Times,
               stamps \in 0..MaxCall, sizes \in UNION {[1..n -> Sizes] : n \in 0..MaxCall} :
             /\ StampedRefusal(builder, ch, expected, stamps, Len(sizes)) = "none"
             /\ builder' = AddVariable(builder, ch, [i \in 1..stamps |-> t + i],
                                       Fresh(Len(sizes)), sizes)
             /\ Told(ch, Len(sizes), LAMBDA i : t + i)
      BY <1>5 DEF add_variable_samples
    <2>. DEFINE n == Len(sizes)
                times == [i \in 1..n |-> t + i]
                values == Fresh(n)
                g == [i \in 1..n |-> [channel_index |-> ch, time |-> t + i]]
    <2>2. stamps = n /\ StampedRefusal(builder, ch, expected, n, n) = "none"
      BY <2>1 DEF StampedRefusal
    <2>3. ch \in Nat /\ n \in 0..MaxCall
      BY <2>2, LimitAssumption
    <2>4. told' = told \o g
      BY <2>1 DEF Told
    <2>5. values = [i \in 1..n |-> Len(told) + i]
      BY DEF Fresh
    <2>6. Passed(times, values, g, told, ch, n, t)
      BY <2>5 DEF Passed
    <2>7. builder' = AddVariable(builder, ch, times, values, sizes)
      BY <2>1, <2>2
    <2>. HIDE DEF times, values, g, n
    <2>8. n \in Nat /\ t \in Int /\ t + n <= MaxTime
      BY <2>1, <2>3, EarlyEnough
    <2>9. Accounts(AddVariable(builder, ch, times, values, sizes), told \o g)
      BY <2>1, <2>2, <2>3, <2>5, <2>6, <2>8, VariableAccounted
    <2>. QED  BY <2>4, <2>7, <2>9
  <1>. QED  BY <1>1, <1>2, <1>3, <1>4, <1>5 DEF Building

\* The lengths of the fields change before the write, and nothing else.
LEMMA WriteToFileKeeps ==
    ASSUME Prepared(builder), write_to_file
    PROVE  /\ builder'.channel_data = builder.channel_data
           /\ Len(builder'.channels) = Len(builder.channels)
           /\ \A i \in 1..Len(builder.channels) :
                 builder'.channels[i].name = builder.channels[i].name
  <1>1. CASE builder' = builder
    BY <1>1
  <1>2. CASE builder' = [builder EXCEPT !.channels = autobump(builder)]
    <2>1. /\ builder'.channels = autobump(builder)
          /\ builder'.channel_data = builder.channel_data
      BY <1>2 DEF Prepared, IsWriter, WriterFields
    <2>2. /\ builder.channels \in Seq(ChannelDef) /\ DOMAIN builder.channels = 1..Len(builder.channels)
          /\ Len(builder.channels) \in Nat
      BY DEF Prepared
    <2>3. \A i \in 1..Len(builder.channels) :
             autobump(builder)[i].name = builder.channels[i].name
      <3>1. \A i \in 1..Len(builder.channels) :
               autobump(builder)[i] \in {builder.channels[i],
                  [builder.channels[i] EXCEPT !.size_of_length_value = 4]}
        BY <2>2 DEF autobump
      <3>2. \A i \in 1..Len(builder.channels) : builder.channels[i] \in ChannelDef
        BY <2>2
      <3>. QED  BY <3>1, <3>2 DEF ChannelDef
    <2>4. Len(autobump(builder)) = Len(builder.channels)
      <3>. DEFINE f == autobump(builder)
                  n == Len(builder.channels)
      <3>1. f = [i \in 1..n |-> f[i]]
        BY <2>2, Zenon DEF autobump
      <3>. HIDE DEF f
      <3>2. Len(f) = n
        BY <2>2, <3>1, MappedLength
      <3>. QED  BY <3>2 DEF f
    <2>. QED  BY <2>1, <2>3, <2>4
  <1>. QED  BY <1>1, <1>2 DEF write_to_file

---------------------------------------------------------------------------
(* The load: what a channel of the loader has of a channel of the builder. *)

\* v is a part of s, the k values behind the first n.
Excerpt(v, s, n, k) ==
    /\ IsSequence(v) /\ IsSequence(s) /\ n \in Nat /\ k \in Nat
    /\ Len(v) = k /\ n + k <= Len(s) /\ Len(s) \in Nat
    /\ \A i \in 1..k : v[i] = s[n + i] /\ n + i \in 1..(n + k)

LEMMA Excerpts ==
    ASSUME NEW s, IsSequence(s), NEW n \in Nat, NEW k \in Nat, n + k <= Len(s),
           NEW v, v = SubSeq(s, n + 1, n + k)
    PROVE  Excerpt(v, s, n, k)
  <1>1. PICK U : s \in Seq(U)
    BY DEF IsSequence
  <1>2. v \in Seq(U) /\ Len(v) = k
    BY <1>1
  <1>3. \A i \in 1..k : v[i] = s[n + i]
    BY <1>1
  <1>4. Len(s) \in Nat
    BY <1>1
  <1>5. \A i \in 1..k : n + i \in 1..(n + k)
    OBVIOUS
  <1>6. IsSequence(v)
    BY <1>2 DEF IsSequence
  <1>. QED  BY <1>2, <1>3, <1>4, <1>5, <1>6 DEF Excerpt

LEMMA Further ==
    ASSUME NEW x \in Nat, NEW q \in Nat, NEW l, x + q = l, NEW j \in Int
    PROVE  x + j = l + (j - q) /\ j = q + (j - q) /\ x + (q + j) = l + j
  OBVIOUS

SegmentFields == {"start", "period", "start_index", "sample_count"}

\* Segment seg of a loader is the first q values of a run.
HasRun(samples, seg, run, q) ==
    /\ seg = [x \in SegmentFields |-> seg[x]]
    /\ seg.start = run.start /\ seg.period = run.period /\ seg.sample_count = q
    /\ seg.start_index \in Nat /\ q \in 0..Len(run.values)
    /\ seg.start_index + q <= Len(samples)
    /\ \A j \in 1..q : samples[seg.start_index + j] = run.values[j]

\* The loader has m segments of the builder, of the last of them q values.
Segmented(c, d, m, q) ==
    /\ d.mode = "Equidistant"
    /\ IsLoaded(c) /\ IsSequence(c.samples) /\ IsSequence(c.segments)
    /\ m \in 0..Len(d.segments) /\ Len(c.segments) = m
    /\ c.state = IF m = 0 THEN "Pending" ELSE "Equidistant"
    /\ \A k \in 1..m : HasRun(c.samples, c.segments[k], d.segments[k],
                              IF k = m THEN q ELSE Len(d.segments[k].values))
    /\ m > 0 => c.segments[m].start_index + q = Len(c.samples)
    /\ m = 0 => c.samples = <<>>

\* The loader has the first q of the stamped samples of the builder.
Stamped(c, d, q) ==
    /\ d.mode # "Equidistant"
    /\ IsLoaded(c) /\ c.state # "Equidistant" /\ c.segments = <<>>
    /\ IsSequence(c.samples) /\ IsSequence(c.timestamps_ns)
    /\ Len(c.samples) = q /\ Len(c.timestamps_ns) = q /\ q \in 0..Len(d.values)
    /\ \A i \in 1..q : c.samples[i] = d.values[i] /\ c.timestamps_ns[i] = d.timestamps_ns[i]

LEMMA RunStays ==
    ASSUME NEW s, NEW v, IsSequence(s), IsSequence(v), NEW seg, NEW run, NEW q,
           HasRun(s, seg, run, q)
    PROVE  HasRun(s \o v, seg, run, q)
  <1>. DEFINE r == s \o v
              l == Len(s)
              m == Len(v)
              x == seg.start_index
  <1>1. Behind(r, s, v, l, m)
    BY Joint
  <1>. HIDE DEF r, l, m
  <1>2. /\ Len(r) = l + m /\ l \in Nat /\ m \in Nat
        /\ \A i \in 1..l : r[i] = s[i]
    BY <1>1 DEF Behind
  <1>3. x \in Nat /\ x + q <= l /\ q \in Int
    BY DEF HasRun, l
  <1>4. x + q <= Len(r)
    BY <1>2, <1>3
  <1>5. \A j \in 1..q : x + j \in 1..l
    BY <1>2, <1>3
  <1>. HIDE DEF x
  <1>6. \A j \in 1..q : r[x + j] = s[x + j]
    BY <1>2, <1>5
  <1>7. \A j \in 1..q : r[x + j] = run.values[j]
    BY <1>6 DEF HasRun, x
  <1>. QED  BY <1>4, <1>7 DEF HasRun, r, x

\* The first block of a segment.
Opens(b, run, k) ==
    Excerpt(b.values, run.values, 0, k) /\ b.start = run.start /\ b.period = run.period

\* q values are all of segment m, and there is another.
Ended(d, m, q) == m < Len(d.segments) /\ (m > 0 => q = Len(d.segments[m].values))

LEMMA SegmentBegun ==
    ASSUME NEW c, NEW d, Sound(d), NEW m, NEW q, Segmented(c, d, m, q), Ended(d, m, q),
           NEW b, NEW k, Opens(b, d.segments[m + 1], k)
    PROVE  /\ Segmented(T!apply_start(c, b), d, m + 1, k)
           /\ T!apply_start(c, b).data_type = c.data_type
  <1>. DEFINE a == T!apply_start(c, b)
              run == d.segments[m + 1]
              seg == [start |-> b.start, period |-> b.period,
                      start_index |-> Len(c.samples), sample_count |-> Len(b.values)]
              s == c.samples
              v == b.values
              r == s \o v
              l == Len(s)
  <1>0. /\ m < Len(d.segments) /\ (m > 0 => q = Len(d.segments[m].values))
        /\ Excerpt(v, run.values, 0, k) /\ b.start = run.start /\ b.period = run.period
    BY DEF Ended, Opens
  <1>1. /\ IsLoaded(c) /\ IsSequence(s) /\ IsSequence(c.segments) /\ m \in Nat
        /\ Len(c.segments) = m /\ Len(d.segments) \in Nat
    BY Sequences DEF Segmented, Sound
  <1>2. /\ IsLoaded(a) /\ a.state = "Equidistant" /\ a.samples = r
        /\ a.segments = Append(c.segments, seg) /\ a.data_type = c.data_type
    BY <1>1 DEF T!apply_start, IsLoaded, LoadedFields
  <1>3. /\ IsSequence(v) /\ Len(v) = k /\ k \in 0..Len(run.values) /\ k \in Nat
        /\ \A i \in 1..k : v[i] = run.values[i]
    <2>1. IsSequence(v) /\ k \in Nat /\ Len(v) = k /\ 0 + k <= Len(run.values)
          /\ Len(run.values) \in Nat
      BY <1>0 DEF Excerpt
    <2>2. \A i \in 1..k : v[i] = run.values[0 + i] /\ 0 + i = i
      BY <1>0 DEF Excerpt
    <2>. QED  BY <2>1, <2>2
  <1>4. /\ seg = [x \in SegmentFields |-> seg[x]]
        /\ seg.start = run.start /\ seg.period = run.period /\ seg.sample_count = k
        /\ seg.start_index = l
    BY <1>0, <1>3 DEF SegmentFields
  <1>. HIDE DEF a, seg
  <1>5. /\ IsSequence(a.segments) /\ Len(a.segments) = m + 1 /\ a.segments[m + 1] = seg
        /\ \A i \in 1..m : a.segments[i] = c.segments[i]
    <2>. DEFINE old == c.segments
                new == a.segments
    <2>1. IsSequence(old) /\ Len(old) = m /\ new = Append(old, seg)
      BY <1>1, <1>2
    <2>. HIDE DEF old, new
    <2>2. /\ IsSequence(new) /\ Len(new) = m + 1 /\ new[m + 1] = seg
          /\ \A i \in 1..m : new[i] = old[i]
      BY <2>1, Appended
    <2>. QED  BY <2>2 DEF old, new
  <1>6. Behind(r, s, v, l, k)
    BY <1>1, <1>3, Joint
  <1>7. l \in Nat /\ IsSequence(r) /\ Len(r) = l + k
    BY <1>6 DEF Behind
  <1>8. HasRun(r, seg, run, k)
    <2>1. \A j \in 1..k : r[l + j] = run.values[j]
      BY <1>3, <1>6 DEF Behind
    <2>. HIDE DEF r, l, run
    <2>2. seg.start_index + k <= Len(r) /\ seg.start_index \in Nat
      BY <1>3, <1>4, <1>7
    <2>3. \A j \in 1..k : r[seg.start_index + j] = run.values[j]
      BY <1>4, <2>1
    <2>. QED  BY <1>3, <1>4, <2>2, <2>3 DEF HasRun
  <1>9. ASSUME NEW i \in 1..m
        PROVE  HasRun(r, c.segments[i], d.segments[i], Len(d.segments[i].values))
    <2>1. HasRun(s, c.segments[i], d.segments[i], IF i = m THEN q ELSE Len(d.segments[i].values))
      BY DEF Segmented
    <2>2. IF i = m THEN q = Len(d.segments[i].values) ELSE TRUE
      BY <1>0, <1>1
    <2>3. HasRun(s, c.segments[i], d.segments[i], Len(d.segments[i].values))
      BY <2>1, <2>2
    <2>. QED  BY <1>1, <1>3, <2>3, RunStays
  <1>10. ASSUME NEW i \in 1..(m + 1)
         PROVE  HasRun(a.samples, a.segments[i], d.segments[i],
                       IF i = m + 1 THEN k ELSE Len(d.segments[i].values))
    <2>1. CASE i = m + 1
      BY <1>2, <1>5, <1>8, <2>1
    <2>2. CASE i # m + 1
      <3>1. i \in 1..m
        BY <1>1, <2>2
      <3>. QED  BY <1>2, <1>5, <1>9, <2>2, <3>1
    <2>. QED  BY <2>1, <2>2
  <1>11. m + 1 \in 0..Len(d.segments) /\ m + 1 > 0 /\ ~(m + 1 = 0)
    BY <1>0, <1>1
  <1>12. a.segments[m + 1].start_index + k = Len(a.samples)
    BY <1>2, <1>4, <1>5, <1>7
  <1>13. d.mode = "Equidistant"
    BY DEF Segmented
  <1>14. Segmented(a, d, m + 1, k)
    BY <1>2, <1>5, <1>7, <1>10, <1>11, <1>12, <1>13 DEF Segmented
  <1>. QED  BY <1>2, <1>14 DEF a

\* A further block of it.
LEMMA SegmentContinued ==
    ASSUME NEW c, NEW d, Sound(d), NEW m, NEW q, Segmented(c, d, m, q), m > 0,
           NEW b, NEW k, Excerpt(b.values, d.segments[m].values, q, k)
    PROVE  /\ Segmented(T!apply_continued(c, b), d, m, q + k)
           /\ T!apply_continued(c, b).data_type = c.data_type
  <1>. DEFINE a == T!apply_continued(c, b)
              run == d.segments[m]
              seg == c.segments[m]
              new == [seg EXCEPT !.sample_count = q + k]
              s == c.samples
              v == b.values
              r == s \o v
              l == Len(s)
  <1>1. /\ IsLoaded(c) /\ IsSequence(s) /\ IsSequence(c.segments) /\ m \in Nat /\ m \in 1..m
        /\ Len(c.segments) = m /\ Len(d.segments) \in Nat /\ c.state = "Equidistant"
        /\ HasRun(s, seg, run, q) /\ seg.start_index + q = l /\ m \in 0..Len(d.segments)
    <2>1. IsSequence(d.segments)
      BY DEF Sound
    <2>2. Len(d.segments) \in Nat
      BY <2>1, Sequences
    <2>3. m \in 0..Len(d.segments)
      BY DEF Segmented
    <2>4. m \in Nat /\ m \in 1..m /\ m # 0
      BY <2>2, <2>3
    <2>5. HasRun(s, seg, run, IF m = m THEN q ELSE Len(d.segments[m].values))
      BY <2>4, Zenon DEF Segmented
    <2>. QED  BY <2>2, <2>3, <2>4, <2>5 DEF Segmented
  <1>2. /\ IsSequence(v) /\ Len(v) = k /\ q + k \in 0..Len(run.values) /\ k \in Nat /\ q \in Nat
        /\ \A i \in 1..k : v[i] = run.values[q + i]
    <2>1. IsSequence(v) /\ k \in Nat /\ q \in Nat /\ Len(v) = k /\ q + k <= Len(run.values)
          /\ Len(run.values) \in Nat
      BY DEF Excerpt
    <2>2. \A i \in 1..k : v[i] = run.values[q + i]
      BY DEF Excerpt
    <2>. QED  BY <2>1, <2>2
  <1>3. seg.sample_count = q /\ seg = [x \in SegmentFields |-> seg[x]] /\ seg.start_index \in Nat
        /\ seg.start = run.start /\ seg.period = run.period
    BY <1>1 DEF HasRun
  <1>4. /\ IsLoaded(a) /\ a.state = "Equidistant" /\ a.samples = r /\ a.data_type = c.data_type
        /\ a.segments = [c.segments EXCEPT ![m] = new]
    <2>. HIDE DEF seg, v
    <2>1. a = [c EXCEPT !.samples = @ \o v,
                        !.segments[m].sample_count = q + k,
                        !.last_timestamp_ns = T!update_last_ts_from_segment(@, seg.start, seg.period, q + k)]
      BY <1>1, <1>2, <1>3 DEF T!apply_continued, seg, v
    <2>. HIDE DEF a
    <2>. QED  BY <1>1, <2>1 DEF IsLoaded, LoadedFields, seg, v
  <1>. HIDE DEF a
  <1>5. /\ new = [x \in SegmentFields |-> new[x]] /\ new.start = run.start /\ new.period = run.period
        /\ new.sample_count = q + k /\ new.start_index = seg.start_index
    <2>. HIDE DEF seg, run
    <2>. QED  BY <1>3 DEF SegmentFields
  <1>. HIDE DEF new
  <1>6. /\ IsSequence(a.segments) /\ Len(a.segments) = m /\ a.segments[m] = new
        /\ \A i \in 1..m : i # m => a.segments[i] = c.segments[i]
    <2>. DEFINE old == c.segments
                now == a.segments
    <2>1. IsSequence(old) /\ Len(old) = m /\ now = [old EXCEPT ![m] = new]
      BY <1>1, <1>4
    <2>. HIDE DEF old, now
    <2>2. DOMAIN old = 1..m
      BY <2>1, Sequences
    <2>3. now = [i \in 1..m |-> now[i]]
      BY <2>1, <2>2
    <2>4. IsSequence(now) /\ Len(now) = m
      BY <1>1, <2>3, MappedLength
    <2>5. now[m] = new /\ \A i \in 1..m : i # m => now[i] = old[i]
      BY <1>1, <2>1, <2>2
    <2>. QED  BY <2>4, <2>5 DEF old, now
  <1>7. Behind(r, s, v, l, k)
    BY <1>1, <1>2, Joint
  <1>8. l \in Nat /\ IsSequence(r) /\ Len(r) = l + k
    BY <1>7 DEF Behind
  <1>9. HasRun(r, new, run, q + k)
    <2>. DEFINE x == new.start_index
    <2>1. x \in Nat /\ x + q = l
      BY <1>1, <1>3, <1>5
    <2>2. ASSUME NEW j \in 1..(q + k)
          PROVE  r[x + j] = run.values[j]
      <3>1. CASE j \in 1..q
        <4>1. x + j \in 1..l
          BY <1>2, <1>8, <2>1, <3>1
        <4>2. r[x + j] = s[x + j]
          BY <1>7, <4>1 DEF Behind
        <4>3. s[x + j] = run.values[j]
          BY <1>1, <1>5, <3>1 DEF HasRun
        <4>. QED  BY <4>2, <4>3
      <3>2. CASE j - q \in 1..k
        <4>. DEFINE i == j - q
        <4>. HIDE DEF x, l
        <4>1. i \in 1..k /\ j = q + i /\ x + j = l + i
          <5>1. j \in Int /\ q \in Nat
            BY <1>2
          <5>. QED  BY <2>1, <3>2, <5>1, Further
        <4>. HIDE DEF i
        <4>2. r[l + i] = v[i]
          BY <1>7, <4>1 DEF Behind
        <4>. QED  BY <1>2, <4>1, <4>2
      <3>3. j \in 1..q \/ j - q \in 1..k
        BY <1>2
      <3>. QED  BY <3>1, <3>2, <3>3
    <2>3. x + (q + k) <= Len(r)
      BY <1>2, <1>8, <2>1
    <2>. HIDE DEF r, run
    <2>. QED  BY <1>2, <1>5, <2>1, <2>2, <2>3 DEF HasRun, run
  <1>10. ASSUME NEW i \in 1..m
         PROVE  HasRun(a.samples, a.segments[i], d.segments[i],
                       IF i = m THEN q + k ELSE Len(d.segments[i].values))
    <2>1. CASE i = m
      BY <1>4, <1>6, <1>9, <2>1
    <2>2. CASE i # m
      <3>1. HasRun(s, c.segments[i], d.segments[i], Len(d.segments[i].values))
        BY <2>2 DEF Segmented
      <3>2. HasRun(r, c.segments[i], d.segments[i], Len(d.segments[i].values))
        BY <1>1, <1>2, <3>1, RunStays
      <3>. QED  BY <1>4, <1>6, <2>2, <3>2
    <2>. QED  BY <2>1, <2>2
  <1>11. a.segments[m].start_index + (q + k) = Len(a.samples)
    <2>1. seg.start_index + (q + k) = l + k
      <3>. DEFINE x == seg.start_index
      <3>1. x \in Nat /\ x + q = l /\ q \in Nat /\ k \in Int
        BY <1>1, <1>2, <1>3
      <3>. HIDE DEF x, l
      <3>2. x + (q + k) = l + k
        BY <3>1, Further
      <3>. QED  BY <3>2 DEF x
    <2>. QED  BY <1>4, <1>5, <1>6, <1>8, <2>1
  <1>12. d.mode = "Equidistant"
    BY DEF Segmented
  <1>13. Segmented(a, d, m, q + k)
    BY <1>1, <1>4, <1>6, <1>8, <1>10, <1>11, <1>12 DEF Segmented
  <1>. QED  BY <1>4, <1>13 DEF a

\* A block of stamped samples.
LEMMA StampedContinued ==
    ASSUME NEW c, NEW d, NEW q, Stamped(c, d, q), NEW b, NEW k,
           Excerpt(b.values, d.values, q, k), Excerpt(b.times, d.timestamps_ns, q, k)
    PROVE  /\ Stamped(T!apply_abs_timestamped(c, b), d, q + k)
           /\ T!apply_abs_timestamped(c, b).data_type = c.data_type
  <1>. DEFINE a == T!apply_abs_timestamped(c, b)
              s == c.samples
              t == c.timestamps_ns
              v == b.values
              w == b.times
  <1>1. /\ IsLoaded(c) /\ IsSequence(s) /\ IsSequence(t) /\ Len(s) = q /\ Len(t) = q
        /\ c.state # "Equidistant" /\ c.segments = <<>> /\ d.mode # "Equidistant"
        /\ \A i \in 1..q : s[i] = d.values[i] /\ t[i] = d.timestamps_ns[i]
    BY DEF Stamped
  <1>2. /\ IsLoaded(a) /\ a.state # "Equidistant" /\ a.segments = <<>>
        /\ a.samples = s \o v /\ a.timestamps_ns = t \o w /\ a.data_type = c.data_type
    BY <1>1 DEF T!apply_abs_timestamped, IsLoaded, LoadedFields
  <1>. HIDE DEF a
  <1>3. /\ IsSequence(v) /\ IsSequence(w) /\ Len(v) = k /\ Len(w) = k /\ k \in Nat /\ q \in Nat
        /\ q + k <= Len(d.values) /\ Len(d.values) \in Nat
        /\ \A i \in 1..k : v[i] = d.values[q + i] /\ w[i] = d.timestamps_ns[q + i]
    BY DEF Excerpt
  <1>4. Behind(s \o v, s, v, q, k) /\ Behind(t \o w, t, w, q, k)
    BY <1>1, <1>3, Joint
  <1>5. ASSUME NEW i \in 1..(q + k)
        PROVE  a.samples[i] = d.values[i] /\ a.timestamps_ns[i] = d.timestamps_ns[i]
    <2>1. CASE i \in 1..q
      BY <1>1, <1>2, <1>4, <2>1 DEF Behind
    <2>2. CASE i - q \in 1..k /\ i = q + (i - q)
      <3>. DEFINE j == i - q
      <3>1. j \in 1..k /\ i = q + j
        BY <2>2
      <3>. HIDE DEF j
      <3>2. (s \o v)[q + j] = v[j] /\ (t \o w)[q + j] = w[j]
        BY <1>4, <3>1 DEF Behind
      <3>. QED  BY <1>2, <1>3, <3>1, <3>2
    <2>3. i \in 1..q \/ (i - q \in 1..k /\ i = q + (i - q))
      BY <1>3
    <2>. QED  BY <2>1, <2>2, <2>3
  <1>6. /\ IsSequence(a.samples) /\ IsSequence(a.timestamps_ns)
        /\ Len(a.samples) = q + k /\ Len(a.timestamps_ns) = q + k
    BY <1>2, <1>4 DEF Behind
  <1>7. q + k \in 0..Len(d.values)
    BY <1>3
  <1>8. Stamped(a, d, q + k)
    BY <1>1, <1>2, <1>5, <1>6, <1>7 DEF Stamped
  <1>. QED  BY <1>2, <1>8 DEF a

---------------------------------------------------------------------------
(* What a channel of the loader presents. *)

\* The samples of a segment.
Sampling(samples, seg) ==
    [i \in 1..seg.sample_count |->
        <<T!segment_timestamp(seg, i - 1), samples[seg.start_index + i]>>]

Shown(c) ==
    IF c.state = "Equidistant"
    THEN FlattenSeq([k \in DOMAIN c.segments |-> Sampling(c.samples, c.segments[k])])
    ELSE [i \in DOMAIN c.samples |-> <<c.timestamps_ns[i], c.samples[i]>>]

LEMMA PresentedIs ==
    ASSUME NEW ch
    PROVE  Presented(ch) = Shown(t_builders[ch])
  <1>1. ASSUME NEW x
        PROVE  T!FlattenSeq(x) = FlattenSeq(x)
    BY Zenon DEF T!FlattenSeq, FlattenSeq
  <1>. QED  BY <1>1, Zenon DEF Presented, Shown, Sampling, T!samples_with_time

LEMMA SegmentShown ==
    ASSUME NEW samples, NEW seg, NEW run, NEW q, HasRun(samples, seg, run, q), Regular(run)
    PROVE  /\ Sampling(samples, seg) = Piece(run, q)
           /\ q \in 0..Len(run.values) /\ Piece(run, q) \in Seq(Sample)
  <1>1. /\ seg.start = run.start /\ seg.period = run.period /\ seg.sample_count = q
        /\ q \in 0..Len(run.values)
        /\ \A j \in 1..q : samples[seg.start_index + j] = run.values[j]
    BY DEF HasRun
  <1>2. \A i : T!segment_timestamp(seg, i) = T!segment_timestamp(run, i)
    BY <1>1 DEF T!segment_timestamp
  <1>3. Sampling(samples, seg) = Piece(run, q)
    BY <1>1, <1>2, Zenon DEF Sampling, Piece
  <1>. QED  BY <1>1, <1>3, PieceType

\* The front of a segment.
LEMMA PieceBegins ==
    ASSUME NEW run, Regular(run), NEW q \in 0..Len(run.values)
    PROVE  Begins(Piece(run, q), Piece(run, Len(run.values)))
  <1>. DEFINE n == Len(run.values)
  <1>1. n \in Nat /\ n \in 0..n /\ q \in Nat /\ q <= n
    BY DEF Regular
  <1>2. Len(Piece(run, q)) = q /\ Len(Piece(run, n)) = n
    BY <1>1, PieceType
  <1>3. \A i \in 1..q : i \in 1..n
    BY <1>1
  <1>4. \A i \in 1..q : Piece(run, q)[i] = Piece(run, n)[i]
    <2>. HIDE DEF n
    <2>. QED  BY <1>3 DEF Piece
  <1>. QED  BY <1>1, <1>2, <1>4 DEF Begins, n

LEMMA SegmentsShown ==
    ASSUME NEW c, NEW d, Sound(d), NEW m, NEW q, Segmented(c, d, m, q)
    PROVE  /\ IsSequence(Shown(c)) /\ Begins(Shown(c), Holding(d))
           /\ m = 0 => Shown(c) = <<>>
           /\ m = Len(d.segments) /\ (m > 0 => q = Len(d.segments[m].values)) =>
                 Shown(c) = Holding(d)
  <1>. DEFINE n == Len(d.segments)
              f == [k \in DOMAIN c.segments |-> Sampling(c.samples, c.segments[k])]
              g == Pieces(d)
  <1>1. /\ d.mode = "Equidistant" /\ IsSequence(c.segments) /\ Len(c.segments) = m
        /\ m \in 0..n /\ n \in Nat /\ DOMAIN d.segments = 1..n /\ DOMAIN c.segments = 1..m
        /\ g \in Seq(Seq(Sample)) /\ Len(g) = n /\ m \in Nat /\ m <= n
    BY PiecesType, Sequences DEF Sound, Segmented
  <1>2. Holding(d) = FlattenSeq(g)
    BY <1>1 DEF Holding
  <1>. HIDE DEF g
  <1>3. FlattenSeq(g) \in Seq(Sample)
    BY <1>1, FlattenType
  <1>4. CASE m = 0
    <2>1. c.state # "Equidistant" /\ c.samples = <<>>
      BY <1>4 DEF Segmented
    <2>2. Shown(c) = <<>>
      <3>1. DOMAIN c.samples = {}
        BY <2>1
      <3>. QED  BY <2>1, <3>1 DEF Shown
    <2>3. m = n => FlattenSeq(g) = <<>>
      <3>. SUFFICES ASSUME m = n PROVE FlattenSeq(g) = <<>>
        OBVIOUS
      <3>1. g = <<>>
        BY <1>1, <1>4
      <3>. QED  BY <3>1, FlattenNothing
    <2>4. Begins(<<>>, FlattenSeq(g))
      BY <1>3 DEF Begins
    <2>. QED  BY <1>2, <2>2, <2>3, <2>4, EmptySequence
  <1>5. CASE m # 0
    <2>1. ASSUME NEW k \in 1..m
          PROVE  /\ f[k] \in Seq(Sample) /\ f[k] = Piece(d.segments[k], IF k = m THEN q ELSE Len(d.segments[k].values))
                 /\ Regular(d.segments[k]) /\ k \in 1..n
                 /\ (IF k = m THEN q ELSE Len(d.segments[k].values)) \in 0..Len(d.segments[k].values)
      <3>1. k \in 1..n /\ f[k] = Sampling(c.samples, c.segments[k])
        BY <1>1
      <3>2. Regular(d.segments[k])
        BY <1>1, <3>1 DEF Sound
      <3>3. HasRun(c.samples, c.segments[k], d.segments[k], IF k = m THEN q ELSE Len(d.segments[k].values))
        BY DEF Segmented
      <3>. HIDE DEF f
      <3>. QED  BY <3>1, <3>2, <3>3, SegmentShown
    <2>2. f \in [1..m -> Seq(Sample)]
      BY <1>1, <2>1
    <2>3. ASSUME NEW k \in 1..m
          PROVE  g[k] = Piece(d.segments[k], Len(d.segments[k].values))
      BY <1>1, <2>1 DEF g, Pieces
    <2>4. Shown(c) = FlattenSeq(f)
      <3>1. c.state = "Equidistant"
        BY <1>5 DEF Segmented
      <3>. QED  BY <3>1 DEF Shown
    <2>. HIDE DEF f, n
    <2>5. f \in Seq(Seq(Sample)) /\ Len(f) = m
      BY <1>1, <2>2
    <2>6. \A k \in 1..m : k < m => f[k] = g[k]
      <3>. SUFFICES ASSUME NEW k \in 1..m, k < m
                    PROVE  f[k] = g[k]
        OBVIOUS
      <3>1. k # m
        BY <1>1
      <3>. QED  BY <2>1, <2>3, <3>1
    <2>7. \A k \in 1..m : k = m => Begins(f[k], g[k])
      BY <2>1, <2>3, PieceBegins
    <2>8. Begins(FlattenSeq(f), FlattenSeq(g))
      BY <1>1, <2>5, <2>6, <2>7, FlattenBegins
    <2>9. ASSUME m = n, m > 0 => q = Len(d.segments[m].values)
          PROVE  FlattenSeq(f) = FlattenSeq(g)
      <3>1. q = Len(d.segments[m].values)
        BY <1>1, <1>5, <2>9
      <3>2. \A k \in 1..m : f[k] = g[k]
        BY <2>1, <2>3, <3>1
      <3>3. f = g
        BY <1>1, <2>5, <2>9, <3>2
      <3>. QED  BY <3>3
    <2>10. FlattenSeq(f) \in Seq(Sample)
      BY <2>5, FlattenType
    <2>. QED  BY <1>2, <1>5, <2>4, <2>8, <2>9, <2>10 DEF IsSequence, n
  <1>. QED  BY <1>4, <1>5

LEMMA StampsShown ==
    ASSUME NEW c, NEW d, Sound(d), NEW q, Stamped(c, d, q)
    PROVE  /\ IsSequence(Shown(c)) /\ Begins(Shown(c), Holding(d))
           /\ q = 0 => Shown(c) = <<>>
           /\ q = Len(d.values) => Shown(c) = Holding(d)
  <1>. DEFINE n == Len(d.values)
              f == Shown(c)
              h == Holding(d)
  <1>1. /\ d.mode # "Equidistant" /\ c.state # "Equidistant" /\ IsSequence(c.samples)
        /\ Len(c.samples) = q /\ q \in 0..n
        /\ \A i \in 1..q : c.samples[i] = d.values[i] /\ c.timestamps_ns[i] = d.timestamps_ns[i]
    BY DEF Stamped
  <1>2. n \in Nat /\ DOMAIN c.samples = 1..q /\ q \in Nat /\ q <= n
    BY <1>1, Sequences DEF Sound
  <1>3. f = [i \in 1..q |-> <<c.timestamps_ns[i], c.samples[i]>>]
    BY <1>1, <1>2 DEF Shown
  <1>4. h = [i \in 1..n |-> <<d.timestamps_ns[i], d.values[i]>>]
    BY <1>1 DEF Holding
  <1>5. f = [i \in 1..q |-> f[i]] /\ h = [i \in 1..n |-> h[i]]
    BY <1>3, <1>4, Zenon
  <1>6. \A i \in 1..q : f[i] = <<d.timestamps_ns[i], d.values[i]>>
    BY <1>1, <1>3
  <1>7. \A i \in 1..q : i \in 1..n /\ h[i] = <<d.timestamps_ns[i], d.values[i]>>
    BY <1>2, <1>4
  <1>. HIDE DEF f, h, n
  <1>8. IsSequence(f) /\ IsSequence(h) /\ Len(f) = q /\ Len(h) = n
    BY <1>2, <1>5, MappedLength
  <1>9. Begins(f, h)
    BY <1>2, <1>6, <1>7, <1>8 DEF Begins
  <1>10. q = 0 => f = <<>>
    BY <1>8, EmptySequence, SameSequence
  <1>11. q = n => f = h
    BY <1>6, <1>7, <1>8, SameSequence
  <1>. QED  BY <1>8, <1>9, <1>10, <1>11 DEF f, h, n

---------------------------------------------------------------------------
(* A channel of the loader, where write_data_blocks is at run r with n samples written. *)

Presents(c, dt, d, r, n) ==
    /\ c.data_type = dt
    /\ r \in 1..(Len(Runs(d)) + 1) /\ n \in Nat
    /\ r = Len(Runs(d)) + 1 => n = 0
    /\ d.mode = "Equidistant" /\ n # 0 => Segmented(c, d, r, n)
    /\ d.mode = "Equidistant" /\ n = 0 =>
          Segmented(c, d, r - 1, IF r = 1 THEN 0 ELSE Len(d.segments[r - 1].values))
    /\ d.mode # "Equidistant" => Stamped(c, d, IF r = 1 THEN n ELSE Len(d.values))

LEMMA RunsAre ==
    ASSUME NEW c, NEW d, Ready(c, d), Sound(d)
    PROVE  /\ Len(Runs(d)) \in Nat /\ DOMAIN Runs(d) = 1..Len(Runs(d))
           /\ d.mode = "Equidistant" => Runs(d) = d.segments
           /\ d.mode # "Equidistant" =>
                 \/ Len(Runs(d)) = 0 /\ Len(d.values) = 0
                 \/ /\ Len(Runs(d)) = 1 /\ d.mode \in {"Timestamped", "Variable"}
                    /\ Runs(d)[1].values = d.values /\ Runs(d)[1].times = d.timestamps_ns
  <1>. DEFINE run == [start |-> 0, period |-> 0, times |-> d.timestamps_ns,
                      values |-> d.values, sizes |-> d.sizes]
  <1>1. d.mode \in {"Empty", "Equidistant", "Timestamped", "Variable"}
    BY DEF Ready
  <1>2. CASE d.mode = "Equidistant"
    <2>1. Runs(d) = d.segments /\ IsSequence(d.segments)
      BY <1>2 DEF Runs, Sound
    <2>. QED  BY <1>2, <2>1, Sequences
  <1>3. CASE d.mode = "Empty"
    <2>1. Runs(d) = <<>> /\ d.values = <<>>
      BY <1>3 DEF Runs, Sound
    <2>2. Len(<<>>) = 0 /\ DOMAIN <<>> = 1..0
      OBVIOUS
    <2>. QED  BY <1>3, <2>1, <2>2
  <1>4. CASE d.mode \in {"Timestamped", "Variable"} /\ d.timestamps_ns = <<>>
    <2>1. Runs(d) = <<>> /\ Len(d.values) = Len(d.timestamps_ns)
      BY <1>4 DEF Runs, Sound
    <2>2. Len(<<>>) = 0 /\ DOMAIN <<>> = 1..0
      OBVIOUS
    <2>. QED  BY <1>4, <2>1, <2>2
  <1>5. CASE d.mode \in {"Timestamped", "Variable"} /\ d.timestamps_ns # <<>>
    <2>1. Runs(d) = <<run>>
      BY <1>5 DEF Runs
    <2>2. run.values = d.values /\ run.times = d.timestamps_ns
      OBVIOUS
    <2>. HIDE DEF run
    <2>3. Len(<<run>>) = 1 /\ DOMAIN <<run>> = 1..1 /\ <<run>>[1] = run
      OBVIOUS
    <2>. QED  BY <1>5, <2>1, <2>2, <2>3
  <1>. QED  BY <1>1, <1>2, <1>3, <1>4, <1>5

\* The block can be applied to it.
Takes(c, b) ==
    /\ b.kind \in OwnKinds
    /\ b.kind = "StartData" => c.state \notin {"Timestamped", "Variable"}
    /\ b.kind = "ContinuedData" => c.state = "Equidistant"
    /\ b.kind = "AbsTimestampData" => c.state # "Equidistant"

\* The lengths of a block.
LEMMA ChunkLengths ==
    ASSUME WInv, Inside, AtBlock
    PROVE  /\ Chunk \in Nat /\ at.written \in Nat /\ at.written + Chunk <= Len(Run.values)
           /\ Left > Chunk => Chunk > 0 /\ at.written + Chunk < Len(Run.values)
           /\ ~(Left > Chunk) => at.written + Chunk = Len(Run.values)
           /\ IsSequence(Run.values) /\ Len(Run.values) \in Nat
           /\ at.written # Len(Run.values) => Chunk > 0
  <1>1. /\ Chunk \in Nat /\ Chunk <= Left /\ MaxSamples \in Nat \ {0}
        /\ Left = Len(Run.values) - at.written /\ at.written \in Nat
    BY PartLength
  <1>2. Len(Run.values) \in Nat /\ IsSequence(Run.values)
    BY RunLength
  <1>3. Chunk = IF Left < MaxSamples THEN Left ELSE MaxSamples
    BY DEF Chunk
  <1>. QED  BY <1>1, <1>2, <1>3

AfterBlock == IF Left > Chunk THEN [run |-> at.run, written |-> at.written + Chunk]
                              ELSE [run |-> at.run + 1, written |-> 0]

LEMMA SegmentTaken ==
    ASSUME WInv, Inside, AtBlock, Sound(Data), Data.mode = "Equidistant", NEW c, NEW dt,
           Presents(c, dt, Data, at.run, at.written)
    PROVE  /\ Takes(c, Block)
           /\ Presents(T!Applied(c, Block), dt, Data, AfterBlock.run, AfterBlock.written)
  <1>. DEFINE d == Data
              r == at.run
              n == at.written
              k == Chunk
              q == n + k
              b == Block
              a == T!Applied(c, b)
              L == Len(d.segments)
  <1>1. /\ Ready(Def, d) /\ IsLoaded(c) /\ c.data_type = dt
        /\ Runs(d) = d.segments /\ r \in 1..L /\ L \in Nat /\ r \in Nat
        /\ Run = d.segments[r]
    <2>1. Ready(Def, d)
      BY Current DEF AtBlock
    <2>2. Runs(d) = d.segments /\ DOMAIN Runs(d) = 1..Len(Runs(d)) /\ Len(Runs(d)) \in Nat
      BY <2>1, RunsAre
    <2>3. r \in 1..L
      BY <2>2 DEF AtBlock
    <2>4. IsLoaded(c) /\ c.data_type = dt
      BY DEF Presents, Segmented
    <2>. QED  BY <2>1, <2>2, <2>3, <2>4 DEF Run
  <1>2. /\ k \in Nat /\ n \in Nat /\ n + k <= Len(Run.values)
        /\ Left > k => k > 0 /\ n + k < Len(Run.values)
        /\ ~(Left > k) => n + k = Len(Run.values)
        /\ IsSequence(Run.values) /\ Len(Run.values) \in Nat
    BY ChunkLengths
  <1>3. b.values = SubSeq(Run.values, n + 1, n + k)
    BY DEF Block, Part
  <1>4. Excerpt(b.values, d.segments[r].values, n, k)
    <2>1. IsSequence(d.segments[r].values) /\ n + k <= Len(d.segments[r].values)
          /\ b.values = SubSeq(d.segments[r].values, n + 1, n + k)
      BY <1>1, <1>2, <1>3
    <2>. HIDE DEF b, d, n, k, r
    <2>. QED  BY <1>2, <2>1, Excerpts
  <1>5. /\ Takes(c, b) /\ a.data_type = dt /\ Segmented(a, d, r, q)
    <2>1. CASE n = 0
      <3>1. b.kind = "StartData" /\ b.start = Run.start /\ b.period = Run.period
        BY <2>1 DEF Block, Kind
      <3>2. a = T!apply_start(c, b)
        BY <3>1 DEF T!Applied
      <3>. DEFINE m == r - 1
                  p == IF r = 1 THEN 0 ELSE Len(d.segments[r - 1].values)
      <3>3. Segmented(c, d, m, p)
        BY <2>1 DEF Presents
      <3>4. m < L /\ m + 1 = r /\ (m > 0 => p = Len(d.segments[m].values))
        BY <1>1
      <3>5. Takes(c, b)
        <4>1. c.state \in {"Pending", "Equidistant"}
          BY <3>3 DEF Segmented
        <4>. HIDE DEF b
        <4>. QED  BY <3>1, <4>1 DEF Takes, OwnKinds
      <3>6. /\ Excerpt(b.values, d.segments[m + 1].values, 0, k)
            /\ b.start = d.segments[m + 1].start /\ b.period = d.segments[m + 1].period
        BY <1>1, <1>4, <2>1, <3>1, <3>4
      <3>9. Sound(d)
        OBVIOUS
      <3>. HIDE DEF m, p, b, d, k, L
      <3>10. Ended(d, m, p)
        BY <3>4 DEF Ended, L
      <3>11. Opens(b, d.segments[m + 1], k)
        BY <3>6 DEF Opens
      <3>7. /\ Segmented(T!apply_start(c, b), d, m + 1, k)
            /\ T!apply_start(c, b).data_type = c.data_type
        BY <3>3, <3>9, <3>10, <3>11, SegmentBegun
      <3>8. q = k
        BY <1>2, <2>1
      <3>. QED  BY <1>1, <3>2, <3>4, <3>5, <3>7, <3>8
    <2>2. CASE n # 0
      <3>1. b.kind = "ContinuedData"
        BY <2>2 DEF Block, Kind
      <3>2. a = T!apply_continued(c, b)
        BY <3>1 DEF T!Applied
      <3>3. Segmented(c, d, r, n) /\ r > 0 /\ r # 0
        BY <1>1, <2>2 DEF Presents
      <3>4. c.state = "Equidistant"
        BY <3>3 DEF Segmented
      <3>. HIDE DEF b, d, k, r, n
      <3>5. Takes(c, b)
        BY <3>1, <3>4 DEF Takes, OwnKinds
      <3>7. Sound(d)
        BY DEF d
      <3>6. /\ Segmented(T!apply_continued(c, b), d, r, n + k)
            /\ T!apply_continued(c, b).data_type = c.data_type
        BY ONLY <1>4, <3>3, <3>7, SegmentContinued
      <3>. QED  BY <1>1, <3>2, <3>5, <3>6
    <2>. QED  BY <2>1, <2>2
  <1>6. CASE Left > k
    <2>1. AfterBlock.run = r /\ AfterBlock.written = q
      BY <1>6 DEF AfterBlock
    <2>2. q \in Nat /\ q # 0 /\ r \in 1..(L + 1) /\ r # L + 1
      BY <1>1, <1>2, <1>6
    <2>. HIDE DEF q, a, b, r
    <2>3. Presents(a, dt, d, r, q)
      BY <1>1, <1>5, <2>2 DEF Presents
    <2>. QED  BY <1>5, <2>1, <2>3 DEF a, b
  <1>7. CASE ~(Left > k)
    <2>1. AfterBlock.run = r + 1 /\ AfterBlock.written = 0
      BY <1>7 DEF AfterBlock
    <2>2. q = Len(d.segments[r].values) /\ r + 1 \in 1..(L + 1) /\ (r + 1) - 1 = r /\ r + 1 # 1
      BY <1>1, <1>2, <1>7
    <2>. HIDE DEF q, a, b, r
    <2>3. Presents(a, dt, d, r + 1, 0)
      BY <1>1, <1>5, <2>2 DEF Presents
    <2>. QED  BY <1>5, <2>1, <2>3 DEF a, b
  <1>. QED  BY <1>6, <1>7

LEMMA StampsTaken ==
    ASSUME WInv, Inside, AtBlock, Sound(Data), Data.mode # "Equidistant", NEW c, NEW dt,
           Presents(c, dt, Data, at.run, at.written)
    PROVE  /\ Takes(c, Block)
           /\ Presents(T!Applied(c, Block), dt, Data, AfterBlock.run, AfterBlock.written)
  <1>. DEFINE d == Data
              n == at.written
              k == Chunk
              q == n + k
              b == Block
              a == T!Applied(c, b)
              L == Len(d.values)
  <1>1. /\ Ready(Def, d) /\ at.run = 1 /\ Len(Runs(d)) = 1 /\ c.data_type = dt
        /\ Run.values = d.values /\ Run.times = d.timestamps_ns
        /\ d.mode \in {"Timestamped", "Variable"}
    <2>1. Ready(Def, d)
      BY Current DEF AtBlock
    <2>2. DOMAIN Runs(d) = 1..Len(Runs(d)) /\ Len(Runs(d)) \in {0, 1}
      BY <2>1, RunsAre
    <2>3. at.run \in 1..Len(Runs(d))
      BY <2>2 DEF AtBlock
    <2>4. at.run = 1 /\ Len(Runs(d)) = 1
      BY <2>2, <2>3
    <2>5. c.data_type = dt
      BY DEF Presents
    <2>7. \/ Len(Runs(d)) = 0 /\ Len(d.values) = 0
          \/ /\ Len(Runs(d)) = 1 /\ d.mode \in {"Timestamped", "Variable"}
             /\ Runs(d)[1].values = d.values /\ Runs(d)[1].times = d.timestamps_ns
      <3>1. Sound(d) /\ d.mode # "Equidistant"
        OBVIOUS
      <3>. HIDE DEF d
      <3>. QED  BY <2>1, <3>1, RunsAre
    <2>6. /\ Runs(d)[1].values = d.values /\ Runs(d)[1].times = d.timestamps_ns
          /\ d.mode \in {"Timestamped", "Variable"}
      BY <2>4, <2>7
    <2>. QED  BY <2>1, <2>4, <2>5, <2>6 DEF Run
  <1>2. /\ k \in Nat /\ n \in Nat /\ n + k <= Len(Run.values)
        /\ Left > k => k > 0 /\ n + k < Len(Run.values)
        /\ ~(Left > k) => n + k = Len(Run.values)
        /\ IsSequence(Run.values) /\ Len(Run.values) \in Nat
    BY ChunkLengths
  <1>3. /\ b.values = SubSeq(d.values, n + 1, n + k)
        /\ b.times = SubSeq(d.timestamps_ns, n + 1, n + k)
        /\ b.kind = "AbsTimestampData"
    BY <1>1 DEF Block, Part, Kind
  <1>4. Stamped(c, d, n)
    BY <1>1 DEF Presents
  <1>5. Excerpt(b.values, d.values, n, k) /\ Excerpt(b.times, d.timestamps_ns, n, k)
    <2>1. /\ IsSequence(d.values) /\ IsSequence(d.timestamps_ns)
          /\ n + k <= Len(d.values) /\ n + k <= Len(d.timestamps_ns)
      BY <1>1, <1>2 DEF Sound
    <2>. HIDE DEF b, d, n, k
    <2>. QED  BY <1>2, <1>3, <2>1, Excerpts
  <1>6. a = T!apply_abs_timestamped(c, b)
    BY <1>3 DEF T!Applied
  <1>7. Takes(c, b)
    <2>1. c.state # "Equidistant"
      BY <1>4 DEF Stamped
    <2>. HIDE DEF b
    <2>. QED  BY <1>3, <2>1 DEF Takes, OwnKinds
  <1>8. Stamped(a, d, q) /\ a.data_type = dt
    <2>. HIDE DEF b, d, n, k
    <2>1. /\ Stamped(T!apply_abs_timestamped(c, b), d, n + k)
          /\ T!apply_abs_timestamped(c, b).data_type = c.data_type
      BY <1>4, <1>5, StampedContinued
    <2>. QED  BY <1>1, <1>6, <2>1
  <1>9. CASE Left > k
    <2>1. AfterBlock.run = 1 /\ AfterBlock.written = q
      BY <1>1, <1>9 DEF AfterBlock
    <2>2. q \in Nat /\ 1 \in 1..(1 + 1) /\ 1 # 1 + 1
      BY <1>2
    <2>. HIDE DEF q, a, b
    <2>3. Presents(a, dt, d, 1, q)
      BY <1>1, <1>8, <2>2 DEF Presents
    <2>. QED  BY <1>7, <2>1, <2>3 DEF a, b
  <1>10. CASE ~(Left > k)
    <2>1. AfterBlock.run = 2 /\ AfterBlock.written = 0
      BY <1>1, <1>10 DEF AfterBlock
    <2>2. q = L /\ 2 \in 1..(1 + 1)
      BY <1>1, <1>2, <1>10
    <2>. HIDE DEF q, a, b
    <2>3. Presents(a, dt, d, 2, 0)
      BY <1>1, <1>8, <2>2 DEF Presents
    <2>. QED  BY <1>7, <2>1, <2>3 DEF a, b
  <1>. QED  BY <1>9, <1>10

\* What such a channel presents.
LEMMA PresentsBegins ==
    ASSUME NEW x, NEW c, NEW dt, NEW d, NEW r, NEW n, Ready(x, d), Sound(d), Presents(c, dt, d, r, n)
    PROVE  /\ IsSequence(Shown(c)) /\ Begins(Shown(c), Holding(d))
           /\ r = 1 /\ n = 0 => Shown(c) = <<>>
           /\ r = Len(Runs(d)) + 1 => Shown(c) = Holding(d)
  <1>1. /\ Len(Runs(d)) \in Nat /\ r \in 1..(Len(Runs(d)) + 1)
        /\ d.mode = "Equidistant" => Runs(d) = d.segments
        /\ d.mode # "Equidistant" =>
              (Len(Runs(d)) = 0 /\ Len(d.values) = 0) \/ Len(Runs(d)) = 1
    BY RunsAre DEF Presents
  <1>2. CASE d.mode = "Equidistant"
    <2>. DEFINE m == IF n = 0 THEN r - 1 ELSE r
                q == IF n = 0 THEN IF r = 1 THEN 0 ELSE Len(d.segments[r - 1].values) ELSE n
    <2>1. Segmented(c, d, m, q)
      BY <1>2 DEF Presents
    <2>2. r = 1 /\ n = 0 => m = 0
      OBVIOUS
    <2>3. r = Len(Runs(d)) + 1 => m = Len(d.segments) /\ (m > 0 => q = Len(d.segments[m].values))
      <3>1. r = Len(Runs(d)) + 1 => n = 0
        BY DEF Presents
      <3>2. r = Len(Runs(d)) + 1 => m = Len(d.segments) /\ m = r - 1
        BY <1>1, <1>2, <3>1
      <3>. QED  BY <1>1, <3>1, <3>2
    <2>. HIDE DEF m, q
    <2>. QED  BY <2>1, <2>2, <2>3, SegmentsShown
  <1>3. CASE d.mode # "Equidistant"
    <2>. DEFINE q == IF r = 1 THEN n ELSE Len(d.values)
    <2>1. Stamped(c, d, q)
      BY <1>3 DEF Presents
    <2>2. r = 1 /\ n = 0 => q = 0
      OBVIOUS
    <2>3. r = Len(Runs(d)) + 1 => q = Len(d.values)
      <3>1. r = Len(Runs(d)) + 1 => n = 0
        BY DEF Presents
      <3>. QED  BY <1>1, <1>3, <3>1
    <2>. HIDE DEF q
    <2>. QED  BY <2>1, <2>2, <2>3, StampsShown
  <1>. QED  BY <1>2, <1>3

---------------------------------------------------------------------------
(* All channels: what the loader would have after each block of the file. *)

ChannelsOf(b) == 0..(Len(b.channels) - 1)

Sounds(b) == \A i \in 1..Len(b.channels) : Sound(b.channel_data[i])

\* The loader's channel before the first block.
Empty(dt) ==
    [data_type |-> dt, state |-> T!initial_state_for(dt), samples |-> <<>>, segments |-> <<>>,
     timestamps_ns |-> <<>>, last_timestamp_ns |-> NoTime]

\* The run of channel ch that is to be written at p, and how much of it has been.
RunAt(b, p, ch) == IF ch < p.channel THEN Len(Runs(b.channel_data[ch + 1])) + 1
                   ELSE IF ch = p.channel THEN p.run ELSE 1

WrittenAt(p, ch) == IF ch = p.channel THEN p.written ELSE 0

PresentsAt(b, c, p, ch) ==
    Presents(c, b.channels[ch + 1].data_type, b.channel_data[ch + 1],
             RunAt(b, p, ch), WrittenAt(p, ch))

Held(b, l, p) == \A ch \in ChannelsOf(b) : PresentsAt(b, l[ch], p, ch)

\* Block x is applied to l.
Follows(b, l, x, m) ==
    /\ x.channel_index \in ChannelsOf(b)
    /\ Takes(l[x.channel_index], x)
    /\ m = [l EXCEPT ![x.channel_index] = T!Applied(l[x.channel_index], x)]

Trail(b, f, w) ==
    /\ w[0] = [ch \in ChannelsOf(b) |-> Empty(b.channels[ch + 1].data_type)]
    /\ \A i \in 0..Len(f) : DOMAIN w[i] = ChannelsOf(b) /\ \E p \in At : Held(b, w[i], p)
    /\ \A i \in 1..Len(f) : Follows(b, w[i - 1], f[i], w[i])

LEMMA ChannelPositions ==
    ASSUME NEW b, Prepared(b), Sounds(b), NEW ch \in ChannelsOf(b)
    PROVE  /\ ch \in Nat /\ ch + 1 \in 1..Len(b.channels)
           /\ Ready(b.channels[ch + 1], b.channel_data[ch + 1]) /\ Sound(b.channel_data[ch + 1])
  <1>1. Len(b.channels) \in Nat
    BY DEF Prepared
  <1>2. ch \in Nat /\ ch + 1 \in 1..Len(b.channels)
    BY <1>1 DEF ChannelsOf
  <1>. QED  BY <1>2 DEF Prepared, Sounds

LEMMA NewPresents ==
    ASSUME NEW x, NEW d, Ready(x, d), Sound(d)
    PROVE  Presents(Empty(x.data_type), x.data_type, d, 1, 0)
  <1>. DEFINE dt == x.data_type
              c == Empty(dt)
  <1>1. /\ IsLoaded(c) /\ c.data_type = dt /\ c.state = T!initial_state_for(dt)
        /\ c.samples = <<>> /\ c.segments = <<>> /\ c.timestamps_ns = <<>>
    BY DEF Empty, IsLoaded, LoadedFields
  <1>2. /\ Len(Runs(d)) \in Nat /\ d.mode # "Equidistant" => Len(d.values) \in Nat
    BY RunsAre, Sequences DEF Sound
  <1>3. c.state \in {"Pending", "Variable", "Unsupported"}
    BY <1>1 DEF T!initial_state_for
  <1>4. d.mode = "Equidistant" => c.state = "Pending"
    <2>1. d.mode = "Equidistant" => dt \in {"float", "double"}
      BY DEF Ready, EquidistantTypes
    <2>. QED  BY <1>1, <2>1 DEF T!initial_state_for, T!VariableTypes
  <1>. HIDE DEF c
  <1>5. ASSUME d.mode = "Equidistant"
        PROVE  Segmented(c, d, 0, 0)
    <2>1. Len(d.segments) \in Nat /\ 0 \in 0..Len(d.segments)
      BY Sequences DEF Sound
    <2>2. IsSequence(c.samples) /\ IsSequence(c.segments) /\ Len(c.segments) = 0
      BY <1>1, EmptySequence
    <2>3. 1..0 = {} /\ ~(0 > 0)
      OBVIOUS
    <2>. QED  BY <1>1, <1>4, <1>5, <2>1, <2>2, <2>3 DEF Segmented
  <1>6. ASSUME d.mode # "Equidistant"
        PROVE  Stamped(c, d, 0)
    <2>1. 0 \in 0..Len(d.values) /\ 1..0 = {}
      BY <1>2, <1>6
    <2>. QED  BY <1>1, <1>3, <1>6, <2>1, EmptySequence DEF Stamped
  <1>7. 1 \in 1..(Len(Runs(d)) + 1) /\ 1 - 1 = 0
    BY <1>2
  <1>. HIDE DEF dt
  <1>8. Presents(c, dt, d, 1, 0)
    BY <1>1, <1>5, <1>6, <1>7 DEF Presents
  <1>. QED  BY <1>8 DEF c, dt

LEMMA NowhereIsAt == Nowhere \in At /\ Nowhere.channel = 0 /\ Nowhere.run = 1 /\ Nowhere.written = 0
  BY DEF Nowhere, At

\* Before the first block.
LEMMA TrailBegins ==
    ASSUME NEW b, Prepared(b), Sounds(b), NEW f, f = <<>>
    PROVE  \E w : Trail(b, f, w) /\ Held(b, w[Len(f)], Nowhere)
  <1>. DEFINE l == [ch \in ChannelsOf(b) |-> Empty(b.channels[ch + 1].data_type)]
              w == [i \in {0} |-> l]
  <1>1. ASSUME NEW ch \in ChannelsOf(b)
        PROVE  PresentsAt(b, l[ch], Nowhere, ch)
    <2>1. Presents(Empty(b.channels[ch + 1].data_type), b.channels[ch + 1].data_type,
                   b.channel_data[ch + 1], 1, 0)
      BY ChannelPositions, NewPresents
    <2>2. RunAt(b, Nowhere, ch) = 1 /\ WrittenAt(Nowhere, ch) = 0
      <3>1. ch \in Nat
        BY ChannelPositions
      <3>2. ~(ch < 0)
        BY <3>1
      <3>. QED  BY <3>2, NowhereIsAt DEF RunAt, WrittenAt
    <2>3. l[ch] = Empty(b.channels[ch + 1].data_type)
      OBVIOUS
    <2>. HIDE DEF l
    <2>. QED  BY <2>1, <2>2, <2>3 DEF PresentsAt
  <1>2. Held(b, l, Nowhere) /\ DOMAIN l = ChannelsOf(b)
    BY <1>1 DEF Held
  <1>3. Len(f) = 0 /\ 0..0 = {0} /\ 1..0 = {} /\ w[0] = l
    OBVIOUS
  <1>4. Trail(b, f, w)
    <2>1. w[0] = [ch \in ChannelsOf(b) |-> Empty(b.channels[ch + 1].data_type)]
      BY <1>3
    <2>. HIDE DEF w, l
    <2>. QED  BY <1>2, <1>3, <2>1, NowhereIsAt DEF Trail
  <1>5. Held(b, w[Len(f)], Nowhere)
    BY <1>2, <1>3
  <1>. QED  BY <1>4, <1>5

\* A block behind the others.
LEMMA TrailGrows ==
    ASSUME NEW b, NEW f, IsSequence(f), NEW w, Trail(b, f, w), NEW x, NEW m,
           Follows(b, w[Len(f)], x, m), NEW p \in At, Held(b, m, p)
    PROVE  \E v : Trail(b, Append(f, x), v) /\ Held(b, v[Len(Append(f, x))], p)
  <1>. DEFINE n == Len(f)
              g == Append(f, x)
              v == [i \in 0..(n + 1) |-> IF i = n + 1 THEN m ELSE w[i]]
  <1>1. /\ n \in Nat /\ Len(g) = n + 1 /\ g[n + 1] = x /\ \A i \in 1..n : g[i] = f[i]
    BY Appended
  <1>. HIDE DEF g
  <1>2. v[n + 1] = m /\ \A i \in 0..n : v[i] = w[i]
    BY <1>1
  <1>. HIDE DEF v
  <1>3. v[0] = w[0]
    BY <1>1, <1>2
  <1>4. DOMAIN m = ChannelsOf(b)
    <2>1. DOMAIN w[n] = ChannelsOf(b)
      BY <1>1 DEF Trail
    <2>. QED  BY <2>1 DEF Follows
  <1>5. ASSUME NEW i \in 0..(n + 1)
        PROVE  DOMAIN v[i] = ChannelsOf(b) /\ \E q \in At : Held(b, v[i], q)
    <2>1. CASE i = n + 1
      BY <1>2, <1>4, <2>1
    <2>2. CASE i # n + 1
      <3>1. i \in 0..n
        BY <1>1, <2>2
      <3>. QED  BY <1>2, <3>1 DEF Trail
    <2>. QED  BY <2>1, <2>2
  <1>6. ASSUME NEW i \in 1..(n + 1)
        PROVE  Follows(b, v[i - 1], g[i], v[i])
    <2>1. CASE i = n + 1
      <3>1. i - 1 = n /\ n \in 0..n
        BY <1>1, <2>1
      <3>. QED  BY <1>1, <1>2, <2>1, <3>1
    <2>2. CASE i # n + 1
      <3>1. i \in 1..n /\ i \in 0..n /\ i - 1 \in 0..n
        BY <1>1, <2>2
      <3>. QED  BY <1>1, <1>2, <3>1 DEF Trail
    <2>. QED  BY <2>1, <2>2
  <1>7. Trail(b, g, v)
    BY <1>1, <1>3, <1>5, <1>6 DEF Trail
  <1>8. Held(b, v[Len(g)], p)
    BY <1>1, <1>2
  <1>. QED  BY <1>7, <1>8 DEF g

\* A front of the file.
LEMMA TrailCut ==
    ASSUME NEW b, NEW f, IsSequence(f), NEW w, Trail(b, f, w), NEW k \in 0..Len(f)
    PROVE  Trail(b, SubSeq(f, 1, k), w)
  <1>1. PICK U : f \in Seq(U)
    BY DEF IsSequence
  <1>2. /\ Len(SubSeq(f, 1, k)) = k /\ k \in Nat /\ Len(f) \in Nat
        /\ \A i \in 1..k : SubSeq(f, 1, k)[i] = f[i]
    BY <1>1
  <1>3. /\ \A i \in 0..k : i \in 0..Len(f)
        /\ \A i \in 1..k : i \in 1..Len(f)
    BY <1>2
  <1>. QED  BY <1>2, <1>3 DEF Trail

\* The writer keeps to it.
LEMMA HeldNext ==
    ASSUME WInv, Sounds(builder), NextChannel, NEW l, Held(builder, l, at)
    PROVE  Held(builder, l, at') /\ at' \in At
  <1>1. /\ phase = "blocks" /\ InChannel /\ at.run \notin DOMAIN Runs(Data)
        /\ at' = [channel |-> at.channel + 1, run |-> 1, written |-> 0]
    BY DEF NextChannel
  <1>2. /\ at.channel + 1 \in 1..Len(builder.channels) /\ Ready(Def, Data)
        /\ at \in [channel : Nat, run : Nat \ {0}, written : Nat]
    BY <1>1, Current
  <1>3. /\ at.channel \in Nat /\ at'.channel = at.channel + 1 /\ at'.run = 1 /\ at'.written = 0
        /\ at' \in At
    BY <1>1, <1>2 DEF At
  <1>4. Prepared(builder)
    BY DEF WInv
  <1>5. ASSUME NEW ch \in ChannelsOf(builder)
        PROVE  PresentsAt(builder, l[ch], at', ch)
    <2>1. PresentsAt(builder, l[ch], at, ch)
      BY DEF Held
    <2>2. ch \in Nat /\ Ready(builder.channels[ch + 1], builder.channel_data[ch + 1])
          /\ Sound(builder.channel_data[ch + 1])
      BY <1>4, ChannelPositions
    <2>3. CASE ch = at.channel
      <3>. DEFINE d == Data
      <3>1. d = builder.channel_data[ch + 1]
        BY <2>3 DEF Data
      <3>2. RunAt(builder, at, ch) = at.run /\ WrittenAt(at, ch) = at.written
        BY <1>3, <2>3 DEF RunAt, WrittenAt
      <3>3. RunAt(builder, at', ch) = Len(Runs(d)) + 1 /\ WrittenAt(at', ch) = 0
        BY <1>3, <2>3, <3>1 DEF RunAt, WrittenAt
      <3>. HIDE DEF d
      <3>4. Presents(l[ch], builder.channels[ch + 1].data_type, d, at.run, at.written)
        BY <2>1, <3>1, <3>2 DEF PresentsAt
      <3>5. DOMAIN Runs(d) = 1..Len(Runs(d)) /\ Len(Runs(d)) \in Nat
        BY <2>2, <3>1, RunsAre
      <3>6. at.run \notin 1..Len(Runs(d))
        BY <1>1, <3>5 DEF d
      <3>7. at.run = Len(Runs(d)) + 1 /\ at.written = 0
        <4>1. at.run \in 1..(Len(Runs(d)) + 1) /\ (at.run = Len(Runs(d)) + 1 => at.written = 0)
          BY <3>4 DEF Presents
        <4>. QED  BY <3>5, <3>6, <4>1
      <3>. QED  BY <3>1, <3>3, <3>4, <3>7 DEF PresentsAt
    <2>4. CASE ch # at.channel
      <3>1. RunAt(builder, at', ch) = RunAt(builder, at, ch) /\ WrittenAt(at', ch) = WrittenAt(at, ch)
        BY <1>3, <2>2, <2>4 DEF RunAt, WrittenAt
      <3>. QED  BY <2>1, <3>1 DEF PresentsAt
    <2>. QED  BY <2>3, <2>4
  <1>. QED  BY <1>3, <1>5 DEF Held

LEMMA HeldBlock ==
    ASSUME WInv, Inside, Sounds(builder), WriteBlock, NEW l, DOMAIN l = ChannelsOf(builder),
           Held(builder, l, at)
    PROVE  /\ \E m : Follows(builder, l, Block, m) /\ Held(builder, m, at')
           /\ at' \in At /\ file' = Append(file, Block)
  <1>1. /\ AtBlock /\ InChannel /\ file' = Append(file, Block)
        /\ at' = IF Left > Chunk THEN [at EXCEPT !.written = @ + Chunk]
                                 ELSE [at EXCEPT !.run = @ + 1, !.written = 0]
    BY BlockFits DEF WriteBlock, AtBlock
  <1>2. /\ at.channel + 1 \in 1..Len(builder.channels)
        /\ at \in [channel : Nat, run : Nat \ {0}, written : Nat]
    BY <1>1, Current DEF AtBlock
  <1>3. Chunk \in Nat
    BY <1>1, ChunkLengths
  <1>4. /\ at'.channel = at.channel /\ at'.run = AfterBlock.run /\ at'.written = AfterBlock.written
        /\ at' \in At
    <2>1. CASE Left > Chunk
      BY <1>1, <1>2, <1>3, <2>1 DEF AfterBlock, At
    <2>2. CASE ~(Left > Chunk)
      <3>1. at' = [at EXCEPT !.run = @ + 1, !.written = 0]
        BY <1>1, <2>2
      <3>2. at'.channel = at.channel /\ at'.run = at.run + 1 /\ at'.written = 0
        BY <1>2, <3>1
      <3>3. at' \in At
        <4>1. at.run + 1 \in Nat \ {0} /\ at.channel \in Nat /\ 0 \in Nat
          BY <1>2
        <4>2. at' = [channel |-> at.channel, run |-> at.run + 1, written |-> 0]
          BY <1>2, <3>1
        <4>. QED  BY <4>1, <4>2 DEF At
      <3>4. AfterBlock = [run |-> at.run + 1, written |-> 0]
        BY <2>2 DEF AfterBlock
      <3>. QED  BY <3>2, <3>3, <3>4
    <2>. QED  BY <2>1, <2>2
  <1>. DEFINE ch == at.channel
              c == l[ch]
              a == T!Applied(c, Block)
              m == [l EXCEPT ![ch] = a]
  <1>5. /\ ch \in ChannelsOf(builder) /\ Prepared(builder) /\ Sound(Data)
    <2>1. Len(builder.channels) \in Nat /\ Prepared(builder)
      BY DEF WInv, Prepared
    <2>. QED  BY <1>2, <2>1 DEF ChannelsOf, Sounds, Data
  <1>6. Presents(c, Def.data_type, Data, at.run, at.written)
    <2>1. PresentsAt(builder, c, at, ch)
      BY <1>5 DEF Held
    <2>2. RunAt(builder, at, ch) = at.run /\ WrittenAt(at, ch) = at.written
      BY <1>2 DEF RunAt, WrittenAt
    <2>. QED  BY <2>1, <2>2 DEF PresentsAt, Def, Data
  <1>7. /\ Takes(c, Block)
        /\ Presents(a, Def.data_type, Data, AfterBlock.run, AfterBlock.written)
    <2>1. CASE Data.mode = "Equidistant"
      BY <1>1, <1>5, <1>6, <2>1, SegmentTaken
    <2>2. CASE Data.mode # "Equidistant"
      BY <1>1, <1>5, <1>6, <2>2, StampsTaken
    <2>. QED  BY <2>1, <2>2
  <1>8. Block.channel_index = ch
    BY DEF Block
  <1>9. Follows(builder, l, Block, m)
    BY <1>5, <1>7, <1>8 DEF Follows
  <1>10. ASSUME NEW x \in ChannelsOf(builder)
         PROVE  PresentsAt(builder, m[x], at', x)
    <2>1. PresentsAt(builder, l[x], at, x)
      BY DEF Held
    <2>2. x \in Nat
      BY <1>5, ChannelPositions
    <2>3. CASE x = ch
      <3>1. m[x] = a
        BY <1>5, <2>3
      <3>2. RunAt(builder, at', x) = AfterBlock.run /\ WrittenAt(at', x) = AfterBlock.written
        BY <1>2, <1>4, <2>3 DEF RunAt, WrittenAt
      <3>. HIDE DEF a
      <3>. QED  BY <1>7, <2>3, <3>1, <3>2 DEF PresentsAt, Def, Data
    <2>4. CASE x # ch
      <3>1. m[x] = l[x]
        BY <2>4
      <3>2. RunAt(builder, at', x) = RunAt(builder, at, x) /\ WrittenAt(at', x) = WrittenAt(at, x)
        BY <1>2, <1>4, <2>2, <2>4 DEF RunAt, WrittenAt
      <3>. HIDE DEF m
      <3>. QED  BY <2>1, <3>1, <3>2 DEF PresentsAt
    <2>. QED  BY <2>3, <2>4
  <1>. HIDE DEF m
  <1>11. Held(builder, m, at')
    BY <1>10 DEF Held
  <1>. QED  BY <1>1, <1>4, <1>9, <1>11

\* What the file holds, and what has been written.
Trailing ==
    /\ phase = "written" => at \in At /\ ~InChannel
    /\ header # NoHeader =>
          \E w : /\ Trail(builder, file, w)
                 /\ phase \in {"blocks", "written"} => Held(builder, w[Len(file)], at)

LEMMA TrailStep ==
    ASSUME FInv, Sounds(builder), Trailing, Writing
    PROVE  Trailing'
  <1>0. WInv /\ Inside /\ HeaderKept /\ IsSequence(file) /\ Prepared(builder)
    BY DEF FInv, WInv
  <1>1. CASE CreateFails
    <2>1. UNCHANGED <<builder, header, file>> /\ phase' = "failed"
      BY <1>1 DEF CreateFails, Fails, output
    <2>. QED  BY <2>1 DEF Trailing
  <1>2. CASE write_to_file
    <2>1. header' = NoHeader /\ phase' # "written"
      BY <1>2 DEF write_to_file, Create, Fails
    <2>. QED  BY <2>1 DEF Trailing
  <1>3. CASE WriteHeader
    <2>1. /\ UNCHANGED <<builder, at, file>> /\ phase' = "blocks" /\ file = <<>> /\ at = Nowhere
      BY <1>0, <1>3 DEF WriteHeader, HeaderKept
    <2>2. \E w : Trail(builder, file, w) /\ Held(builder, w[Len(file)], Nowhere)
      BY <1>0, <2>1, TrailBegins
    <2>. QED  BY <2>1, <2>2 DEF Trailing
  <1>4. CASE WriteBlock
    <2>1. phase = "blocks" /\ UNCHANGED <<builder, header>>
      BY <1>4 DEF WriteBlock, AtBlock
    <2>2. phase' # "written"
      <3>1. Sized /\ Fits
        BY <1>0, <1>4, BlockFits DEF WriteBlock
      <3>. QED  BY <1>4, <2>1, <3>1 DEF WriteBlock
    <2>. SUFFICES ASSUME header # NoHeader
                  PROVE  \E w : /\ Trail(builder, file', w)
                                /\ Held(builder, w[Len(file')], at')
      BY <2>1, <2>2 DEF Trailing
    <2>3. PICK w : Trail(builder, file, w) /\ Held(builder, w[Len(file)], at)
      BY <2>1 DEF Trailing
    <2>4. DOMAIN w[Len(file)] = ChannelsOf(builder)
      <3>1. Len(file) \in 0..Len(file)
        BY <1>0, Sequences
      <3>. QED  BY <2>3, <3>1 DEF Trail
    <2>5. PICK m : Follows(builder, w[Len(file)], Block, m) /\ Held(builder, m, at')
      BY <1>0, <1>4, <2>3, <2>4, HeldBlock
    <2>6. at' \in At /\ file' = Append(file, Block)
      BY <1>0, <1>4, <2>3, <2>4, HeldBlock
    <2>. QED  BY <1>0, <2>3, <2>5, <2>6, TrailGrows
  <1>5. CASE NextChannel
    <2>1. phase = "blocks" /\ phase' = phase /\ UNCHANGED <<builder, header, file>>
      BY <1>5 DEF NextChannel
    <2>2. \A l : Held(builder, l, at) => Held(builder, l, at')
      BY <1>0, <1>5, HeldNext
    <2>. QED  BY <2>1, <2>2 DEF Trailing
  <1>6. CASE Flush
    <2>1. phase = "blocks" /\ ~InChannel /\ UNCHANGED <<builder, header, file, at>>
      BY <1>6 DEF Flush, output
    <2>2. at \in At
      BY <1>0, <2>1 DEF WInv, Placed, At
    <2>. QED  BY <2>1, <2>2 DEF Trailing, InChannel
  <1>7. CASE IoFails
    <2>1. phase' = "failed" /\ UNCHANGED builder
      BY <1>7 DEF IoFails, Fails
    <2>2. CASE header' = NoHeader
      BY <2>1, <2>2 DEF Trailing
    <2>3. CASE UNCHANGED header /\ \E k \in 0..Len(file) : file' = SubSeq(file, 1, k)
      <3>. SUFFICES ASSUME header # NoHeader
                    PROVE  \E w : Trail(builder, file', w)
        BY <2>1, <2>3 DEF Trailing
      <3>1. PICK w : Trail(builder, file, w)
        BY DEF Trailing
      <3>. QED  BY <1>0, <2>3, <3>1, TrailCut
    <2>. QED  BY <1>7, <2>2, <2>3 DEF IoFails
  <1>. QED  BY <1>1, <1>2, <1>3, <1>4, <1>5, <1>6, <1>7 DEF Writing

---------------------------------------------------------------------------
(* The loader follows. *)

TargetFresh ==
    /\ t_outcome = "loading" /\ t_fed = <<>>
    /\ t_builders = [ch \in T!Indices |-> T!NewBuilder(ch)]

HeaderFits == [i \in DOMAIN header |-> Loadable(header[i], i - 1)] = Target

\* The manager has the channels of the file, in their order.
Listing ==
    /\ t_channels \in Seq(Int) /\ Len(t_channels) = Len(builder.channels)
    /\ \A i \in 1..Len(builder.channels) :
          t_channels[i] = i - 1 /\ T!Definition(i - 1).name = builder.channels[i].name
    /\ t_by_name = [n \in {T!Definition(ch).name : ch \in T!ToSet(t_channels)} |->
                       T!SlotOfName(t_channels, n)]

Reading(w) ==
    /\ phase \in {"written", "failed"} /\ header # NoHeader /\ HeaderFits
    /\ t_outcome \in {"loading", "loaded"}
    /\ IsSequence(t_fed) /\ Len(t_fed) \in 0..Len(file)
    /\ t_builders = w[Len(t_fed)]
    /\ t_outcome = "loaded" => Len(t_fed) = Len(file) /\ Listing

Following ==
    \/ TargetFresh
    \/ \E w : /\ Trail(builder, file, w)
              /\ phase = "written" => Held(builder, w[Len(file)], at)
              /\ Reading(w)

\* The channels of the loader are those of the builder.
LEMMA TargetIs ==
    ASSUME Prepared(builder), header = builder.channels, HeaderFits
    PROVE  /\ T!Indices = ChannelsOf(builder)
           /\ \A ch \in ChannelsOf(builder) :
                 /\ T!Definition(ch).name = builder.channels[ch + 1].name
                 /\ T!Definition(ch).data_type = builder.channels[ch + 1].data_type
                 /\ T!NewBuilder(ch) = Empty(builder.channels[ch + 1].data_type)
  <1>. DEFINE m == Len(builder.channels)
  <1>1. m \in Nat /\ DOMAIN builder.channels = 1..m
    BY DEF Prepared
  <1>2. /\ DOMAIN Target = 1..m
        /\ \A i \in 1..m : /\ Target[i].index = i - 1
                           /\ Target[i].name = builder.channels[i].name
                           /\ Target[i].data_type = builder.channels[i].data_type
    BY <1>1 DEF HeaderFits, Loadable
  <1>. HIDE DEF m
  <1>3. \A i \in 1..m : i - 1 \in T!Indices /\ T!Definition(i - 1) = Target[i]
    BY <1>1, <1>2, Positions
  <1>4. ChannelsOf(builder) = 0..(m - 1)
    BY DEF ChannelsOf, m
  <1>5. \A ch \in 0..(m - 1) : ch + 1 \in 1..m /\ (ch + 1) - 1 = ch
    BY <1>1
  <1>6. ASSUME NEW ch \in T!Indices
        PROVE  ch \in 0..(m - 1)
    <2>1. PICK i \in 1..m : ch = Target[i].index
      BY <1>2 DEF T!Indices
    <2>2. ch = i - 1
      BY <1>2, <2>1
    <2>. QED  BY <1>1, <2>2
  <1>7. ASSUME NEW ch \in 0..(m - 1)
        PROVE  /\ ch \in T!Indices
               /\ T!Definition(ch).name = builder.channels[ch + 1].name
               /\ T!Definition(ch).data_type = builder.channels[ch + 1].data_type
    <2>1. ch + 1 \in 1..m /\ (ch + 1) - 1 = ch
      BY <1>5
    <2>2. (ch + 1) - 1 \in T!Indices /\ T!Definition((ch + 1) - 1) = Target[ch + 1]
      BY <1>3, <2>1
    <2>. QED  BY <1>2, <2>1, <2>2
  <1>8. \A ch : T!NewBuilder(ch) = Empty(T!Definition(ch).data_type)
    BY Zenon DEF T!NewBuilder, Empty
  <1>. QED  BY <1>4, <1>6, <1>7, <1>8

\* The loader takes a block that it can.
LEMMA TakenWithoutError ==
    ASSUME NEW b, b.channel_index \in T!Indices, Takes(t_builders[b.channel_index], b),
           b.data_type = t_builders[b.channel_index].data_type
    PROVE  T!Error(b) = "none"
  <1>. DEFINE c == t_builders[b.channel_index]
  <1>1. /\ b.kind \in {"StartData", "ContinuedData", "AbsTimestampData"}
        /\ b.kind = "StartData" => c.state \notin {"Timestamped", "Variable"}
        /\ b.kind = "ContinuedData" => c.state = "Equidistant"
        /\ b.kind = "AbsTimestampData" => c.state # "Equidistant"
    BY DEF Takes, OwnKinds
  <1>2. b.data_type = c.data_type
    OBVIOUS
  <1>. HIDE DEF c
  <1>3. ~T!Mixed(c, b)
    BY <1>1 DEF T!Mixed
  <1>4. /\ ~(b.kind = "Skipped") /\ ~(b.kind # "Skipped" /\ b.data_type # c.data_type)
        /\ ~(b.kind = "ContinuedData" /\ c.state = "Pending")
        /\ ~(b.kind = "ContinuedRelStampData" /\ c.last_timestamp_ns = NoTime)
    BY <1>1, <1>2
  <1>. QED  BY <1>3, <1>4 DEF T!Error, c

\* What is decoded is applied as what was written.
LEMMA DecodedIs ==
    ASSUME NEW x, x.kind \in OwnKinds
    PROVE  /\ Decoded(x).channel_index = x.channel_index /\ Decoded(x).kind = x.kind
           /\ Decoded(x).data_type = header[x.channel_index + 1].data_type
           /\ \A c : Takes(c, Decoded(x)) <=> Takes(c, x)
           /\ \A c : T!Applied(c, Decoded(x)) = T!Applied(c, x)
  <1>. DEFINE b == Decoded(x)
  <1>1. /\ b.channel_index = x.channel_index /\ b.kind = x.kind /\ b.start = x.start
        /\ b.period = x.period /\ b.times = x.times /\ b.values = x.values
        /\ b.data_type = header[x.channel_index + 1].data_type
    BY DEF Decoded
  <1>. HIDE DEF b
  <1>2. ASSUME NEW c
        PROVE  Takes(c, b) <=> Takes(c, x)
    BY <1>1 DEF Takes
  <1>3. ASSUME NEW c
        PROVE  T!Applied(c, b) = T!Applied(c, x)
    <2>1. T!apply_start(c, b) = T!apply_start(c, x)
      BY <1>1, Zenon DEF T!apply_start
    <2>2. T!apply_continued(c, b) = T!apply_continued(c, x)
      BY <1>1, Zenon DEF T!apply_continued
    <2>3. T!apply_abs_timestamped(c, b) = T!apply_abs_timestamped(c, x)
      BY <1>1, Zenon DEF T!apply_abs_timestamped
    <2>. QED  BY <1>1, <2>1, <2>2, <2>3 DEF T!Applied, OwnKinds
  <1>. QED  BY <1>1, <1>2, <1>3 DEF b

LEMMA LoadFollows ==
    ASSUME CopyInv, TargetInv, Trailing, Following, Load
    PROVE  Following'
  <1>1. /\ UNCHANGED <<builder, phase, at, header, file>> /\ phase \in {"written", "failed"}
        /\ header # NoHeader /\ HeaderFits /\ t_outcome = "loading" /\ header = builder.channels
        /\ Prepared(builder) /\ IsSequence(file)
    BY DEF Load, vars, output, HeaderFits, CopyInv, FInv, WInv, HeaderKept
  <1>2. PICK w : /\ Trail(builder, file, w)
                 /\ phase = "written" => Held(builder, w[Len(file)], at)
                 /\ Reading(w)
    <2>1. CASE TargetFresh
      <3>1. PICK w : /\ Trail(builder, file, w)
                     /\ phase = "written" => Held(builder, w[Len(file)], at)
        BY <1>1 DEF Trailing
      <3>2. /\ T!Indices = ChannelsOf(builder)
            /\ \A ch \in ChannelsOf(builder) :
                  T!NewBuilder(ch) = Empty(builder.channels[ch + 1].data_type)
        BY <1>1, TargetIs
      <3>3. t_builders = [ch \in ChannelsOf(builder) |-> T!NewBuilder(ch)]
        BY <2>1, <3>2 DEF TargetFresh
      <3>4. t_builders = w[0]
        <4>1. w[0] = [ch \in ChannelsOf(builder) |-> Empty(builder.channels[ch + 1].data_type)]
          BY <3>1 DEF Trail
        <4>. QED  BY <3>2, <3>3, <4>1
      <3>5. Len(t_fed) = 0 /\ IsSequence(t_fed) /\ 0 \in 0..Len(file)
        BY <1>1, <2>1, EmptySequence, Sequences DEF TargetFresh
      <3>6. Reading(w)
        BY <1>1, <3>4, <3>5 DEF Reading
      <3>. QED  BY <3>1, <3>6
    <2>2. CASE ~TargetFresh
      BY <2>2 DEF Following
    <2>. QED  BY <2>1, <2>2
  <1>. DEFINE n == Len(t_fed)
  <1>3. n \in 0..Len(file) /\ Len(file) \in Nat /\ t_builders = w[n] /\ IsSequence(t_fed) /\ n \in Nat
    BY <1>1, <1>2, Sequences DEF Reading
  <1>. HIDE DEF n
  <1>4. CASE n < Len(file)
    <2>. DEFINE x == file[n + 1]
                b == Decoded(x)
                ch == x.channel_index
                c == t_builders[ch]
    <2>1. T!apply_block(b) \/ T!RejectBlock(b)
      BY <1>4 DEF Load, n
    <2>2. n + 1 \in 1..Len(file) /\ (n + 1) - 1 = n /\ n + 1 \in 0..Len(file)
      BY <1>3, <1>4
    <2>3. Follows(builder, w[n], x, w[n + 1])
      BY <1>2, <2>2 DEF Trail
    <2>4. /\ ch \in ChannelsOf(builder) /\ Takes(c, x)
          /\ w[n + 1] = [t_builders EXCEPT ![ch] = T!Applied(c, x)]
      BY <1>3, <2>3 DEF Follows
    <2>5. c.data_type = header[ch + 1].data_type
      <3>1. PICK p \in At : Held(builder, w[n], p)
        BY <1>2, <1>3 DEF Trail
      <3>2. PresentsAt(builder, c, p, ch)
        BY <1>3, <2>4, <3>1 DEF Held
      <3>. QED  BY <1>1, <3>2 DEF PresentsAt, Presents
    <2>6. x.kind \in OwnKinds
      BY <2>4 DEF Takes
    <2>7. /\ b.channel_index = ch /\ b.data_type = header[ch + 1].data_type
          /\ Takes(c, b) /\ T!Applied(c, b) = T!Applied(c, x)
      BY <2>4, <2>6, DecodedIs
    <2>8. ch \in T!Indices
      BY <1>1, <2>4, TargetIs
    <2>. HIDE DEF b, x
    <2>9. T!Error(b) = "none"
      BY <2>5, <2>7, <2>8, TakenWithoutError
    <2>10. /\ t_builders' = [t_builders EXCEPT ![b.channel_index] = T!Applied(@, b)]
           /\ t_fed' = Append(t_fed, b) /\ t_outcome' = t_outcome
      BY <2>1, <2>9 DEF T!apply_block, T!RejectBlock
    <2>11. t_builders' = w[n + 1]
      BY <2>4, <2>7, <2>10
    <2>12. IsSequence(t_fed') /\ Len(t_fed') = n + 1
      BY <1>3, <2>10, Appended DEF n
    <2>13. Reading(w)'
      BY <1>1, <2>2, <2>10, <2>11, <2>12 DEF Reading, HeaderFits
    <2>. QED  BY <1>1, <1>2, <2>13 DEF Following
  <1>5. CASE ~(n < Len(file))
    <2>1. T!Finish
      BY <1>5 DEF Load, n
    <2>2. /\ t_outcome' = "loaded" /\ UNCHANGED <<t_builders, t_fed>>
          /\ t_by_name' = [x \in {T!Definition(ch).name : ch \in T!ToSet(t_channels')} |->
                              T!SlotOfName(t_channels', x)]
      BY <2>1 DEF T!Finish
    <2>3. n = Len(file)
      BY <1>3, <1>5
    <2>4. /\ t_channels' \in Seq(Int) /\ Len(t_channels') = Len(builder.channels)
          /\ \A i \in 1..Len(builder.channels) :
                t_channels'[i] = i - 1 /\ T!Definition(i - 1).name = builder.channels[i].name
      BY <2>1, AllListed
    <2>5. Listing'
      BY <1>1, <2>2, <2>4 DEF Listing
    <2>6. Reading(w)'
      BY <1>1, <1>3, <2>2, <2>3, <2>5 DEF Reading, HeaderFits, n
    <2>. QED  BY <1>1, <1>2, <2>6 DEF Following
  <1>. QED  BY <1>4, <1>5

---------------------------------------------------------------------------
(* What was added, or copied, is written and loaded. *)

\* The builder b has the channels of the manager, with their samples.
CopyHolds(b) ==
    /\ Len(b.channels) = Len(s_channels)
    /\ \A k \in 1..Len(s_channels) : HoldsChannel(b, k, s_channels[k])

Contents ==
    /\ made = "calls" => Accounts(builder, told)
    /\ made = "copy" /\ copied = "done" => CopyHolds(builder)

RoundInv == CopyInv /\ TargetInv /\ Contents /\ Trailing /\ Following

LEMMA FollowingStays ==
    ASSUME Following, UNCHANGED target,
           phase \notin {"written", "failed"} \/ UNCHANGED <<builder, header, file, phase, at>>
    PROVE  Following'
  <1>1. CASE TargetFresh
    BY <1>1 DEF target, Following, TargetFresh
  <1>2. CASE ~TargetFresh
    <2>1. PICK w : /\ Trail(builder, file, w)
                   /\ phase = "written" => Held(builder, w[Len(file)], at)
                   /\ Reading(w)
      BY <1>2 DEF Following
    <2>2. UNCHANGED <<builder, header, file, phase, at>>
      BY <2>1 DEF Reading
    <2>3. Reading(w)'
      BY <2>1, <2>2 DEF target, Reading, HeaderFits, Listing
    <2>. QED  BY <2>1, <2>2, <2>3 DEF Following
  <1>. QED  BY <1>1, <1>2

LEMMA TrailingStays ==
    ASSUME Trailing, UNCHANGED <<builder, header, file, phase, at>>
    PROVE  Trailing'
  BY DEF Trailing, InChannel

LEMMA WritingKeeps ==
    ASSUME Prepared(builder), Writing
    PROVE  /\ told' = told
           /\ builder' = builder \/ write_to_file
  BY DEF Writing, CreateFails, write_to_file, WriteHeader, WriteBlock, NextChannel, Flush, IoFails

LEMMA ContentsStay ==
    ASSUME CopyInv, Contents, Write
    PROVE  Contents' /\ Sounds(builder)
  <1>1. /\ Writing /\ Prepared(builder) /\ UNCHANGED <<made, copied, source>>
        /\ made = "calls" \/ copied = "done"
    BY DEF Write, CopyInv, FInv, WInv
  <1>2. told' = told /\ (builder' = builder \/ write_to_file)
    BY <1>1, WritingKeeps
  <1>3. /\ builder'.channel_data = builder.channel_data
        /\ Len(builder'.channels) = Len(builder.channels)
        /\ \A i \in 1..Len(builder.channels) :
              builder'.channels[i].name = builder.channels[i].name
    BY <1>1, <1>2, WriteToFileKeeps
  <1>4. made \in {"calls", "copy"}
    BY DEF CopyInv
  <1>5. CASE made = "calls"
    <2>1. Accounts(builder, told)
      BY <1>5 DEF Contents
    <2>2. Accounts(builder', told')
      BY <1>2, <1>3, <2>1 DEF Accounts
    <2>. QED  BY <1>1, <1>5, <2>1, <2>2 DEF Contents, Accounts, Sounds
  <1>6. CASE made = "copy"
    <2>1. CopyHolds(builder)
      BY <1>1, <1>6 DEF Contents
    <2>2. CopyHolds(builder)'
      <3>1. \A ch : S!samples_with_time(ch)' = S!samples_with_time(ch)
        BY <1>1, Zenon DEF source, S!samples_with_time
      <3>. QED  BY <1>1, <1>3, <2>1, <3>1 DEF CopyHolds, HoldsChannel, Presenting, source
    <2>. QED  BY <1>1, <1>6, <2>1, <2>2 DEF Contents, CopyHolds, HoldsChannel, Presenting, Sounds
  <1>. QED  BY <1>4, <1>5, <1>6

LEMMA CopiedHolds ==
    ASSUME CopyInv, from_manager, copied' = "done"
    PROVE  CopyHolds(builder)'
  <1>. DEFINE copy == CopiedChannels([builder |-> NewBuilder, error |-> "none"], s_channels)
  <1>1. s_outcome = "loaded" /\ SourceInv /\ UNCHANGED source
    BY DEF from_manager, CopyInv
  <1>2. IF copy.error = "none" THEN builder' = copy.builder /\ copied' = "done"
                               ELSE builder' = builder /\ copied' = copy.error
    BY Zenon DEF from_manager, CopiedChannels
  <1>3. Copying(copy, Len(s_channels))
    BY <1>1, CopyEnds
  <1>. HIDE DEF copy
  <1>4. /\ Len(builder'.channels) = Len(s_channels)
        /\ \A k \in 1..Len(s_channels) : HoldsChannel(builder', k, s_channels[k])
    BY <1>2, <1>3 DEF Copying
  <1>5. \A ch : S!samples_with_time(ch)' = S!samples_with_time(ch)
    BY <1>1, Zenon DEF source, S!samples_with_time
  <1>6. s_channels' = s_channels
    BY <1>1 DEF source
  <1>. QED  BY <1>4, <1>5, <1>6 DEF CopyHolds, HoldsChannel, Presenting

LEMMA RoundInit == AllInit => RoundInv
  <1>. SUFFICES ASSUME AllInit
                PROVE  RoundInv
    OBVIOUS
  <1>1. CopyInv /\ TargetInv
    BY CopyInit, TargetInit DEF AllInit
  <1>2. /\ builder = NewBuilder /\ told = <<>> /\ phase = "building" /\ header = NoHeader
        /\ copied = "no"
    BY DEF AllInit, Init
  <1>3. Accounts(builder, told)
    <2>1. builder.channels = <<>>
      BY <1>2 DEF NewBuilder
    <2>2. 1..0 = {}
      OBVIOUS
    <2>. QED  BY <1>2, <2>1, <2>2, EmptySequence DEF Accounts
  <1>4. Contents
    BY <1>2, <1>3 DEF Contents
  <1>5. Trailing
    BY <1>2 DEF Trailing
  <1>6. TargetFresh
    BY DEF AllInit, T!Init, TargetFresh
  <1>. QED  BY <1>1, <1>4, <1>5, <1>6 DEF RoundInv, Following

LEMMA RoundStep ==
    ASSUME RoundInv, [Step]_all
    PROVE  RoundInv'
  <1>0. CopyInv /\ TargetInv /\ Contents /\ Trailing /\ Following /\ CopyInv' /\ TargetInv'
    BY CopyStep, TargetStep DEF RoundInv
  <1>1. CASE Call
    <2>1. /\ Building /\ made = "calls" /\ UNCHANGED <<made, target>>
          /\ Prepared(builder) /\ Accounts(builder, told)
      BY <1>0, <1>1 DEF Call, CopyInv, FInv, WInv, Contents
    <2>2. phase = "building" /\ phase' = "building"
      BY <2>1 DEF Building, with_integrity, add_channel, add_equidistant_segment,
                  add_timestamped_samples, add_variable_samples, output
    <2>3. header' = NoHeader
      BY <1>0, <2>2 DEF CopyInv, FInv, HeaderKept
    <2>4. Contents'
      BY <2>1, BuildingAccounts DEF Contents
    <2>5. Trailing'
      BY <2>2, <2>3 DEF Trailing
    <2>6. Following'
      BY <1>0, <2>1, <2>2, FollowingStays
    <2>. QED  BY <1>0, <2>4, <2>5, <2>6 DEF RoundInv
  <1>2. CASE LoadSource
    <2>1. UNCHANGED <<vars, made, copied, target>> /\ s_outcome = "loading"
      BY <1>2 DEF LoadSource, S!apply_block, S!Finish
    <2>2. copied = "no"
      BY <1>0, <2>1 DEF CopyInv
    <2>3. UNCHANGED <<builder, told, header, file, phase, at>>
      BY <2>1 DEF vars, output
    <2>4. Contents'
      BY <1>0, <2>1, <2>2, <2>3 DEF Contents
    <2>. QED  BY <1>0, <2>1, <2>3, <2>4, FollowingStays, TrailingStays DEF RoundInv
  <1>3. CASE from_manager
    <2>1. /\ made = "copy" /\ phase = "building" /\ phase' = "building" /\ header' = NoHeader
          /\ UNCHANGED <<made, target>>
      <3>1. made = "copy" /\ copied = "no" /\ UNCHANGED <<phase, made, target>> /\ made' = "copy"
        BY <1>3 DEF from_manager
      <3>2. phase = "building"
        BY <1>0, <3>1 DEF CopyInv
      <3>3. header' = NoHeader
        BY <1>0, <3>1, <3>2 DEF CopyInv, FInv, HeaderKept
      <3>. QED  BY <3>1, <3>2, <3>3
    <2>2. Contents'
      BY <1>0, <1>3, <2>1, CopiedHolds DEF Contents
    <2>3. Trailing'
      BY <2>1 DEF Trailing
    <2>4. Following'
      BY <1>0, <2>1, FollowingStays
    <2>. QED  BY <1>0, <2>2, <2>3, <2>4 DEF RoundInv
  <1>4. CASE Write
    <2>1. Contents' /\ Sounds(builder) /\ FInv /\ Writing
      BY <1>0, <1>4, ContentsStay DEF Write, CopyInv
    <2>2. Trailing'
      BY <1>0, <2>1, TrailStep
    <2>3. UNCHANGED target /\ phase \notin {"written", "failed"}
      BY <1>4 DEF Write, Writing, CreateFails, write_to_file, WriteHeader, WriteBlock, AtBlock,
                  NextChannel, Flush, IoFails
    <2>4. Following'
      BY <1>0, <2>3, FollowingStays
    <2>. QED  BY <1>0, <2>1, <2>2, <2>4 DEF RoundInv
  <1>5. CASE Load
    <2>1. UNCHANGED <<vars, made, copied, source>>
      BY <1>5 DEF Load
    <2>2. UNCHANGED <<builder, told, header, file, phase, at, made, copied, s_channels>>
      BY <2>1 DEF vars, output, source
    <2>3. Contents'
      <3>1. \A ch : S!samples_with_time(ch)' = S!samples_with_time(ch)
        BY <2>1, Zenon DEF source, S!samples_with_time
      <3>. QED  BY <1>0, <2>2, <3>1 DEF Contents, CopyHolds, HoldsChannel, Presenting
    <2>. QED  BY <1>0, <1>5, <2>2, <2>3, LoadFollows, TrailingStays DEF RoundInv
  <1>6. CASE UNCHANGED all
    <2>1. UNCHANGED <<vars, made, copied, source, target>>
      BY <1>6 DEF all
    <2>2. UNCHANGED <<builder, told, header, file, phase, at, made, copied, s_channels>>
      BY <2>1 DEF vars, output, source
    <2>3. Contents'
      <3>1. \A ch : S!samples_with_time(ch)' = S!samples_with_time(ch)
        BY <2>1, Zenon DEF source, S!samples_with_time
      <3>. QED  BY <1>0, <2>2, <3>1 DEF Contents, CopyHolds, HoldsChannel, Presenting
    <2>. QED  BY <1>0, <2>1, <2>2, <2>3, FollowingStays, TrailingStays DEF RoundInv
  <1>. QED  BY <1>1, <1>2, <1>3, <1>4, <1>5, <1>6 DEF Step
---------------------------------------------------------------------------
(* The theorems about what is loaded. *)

LEMMA LoadedShows ==
    ASSUME RoundInv, t_outcome # "loading"
    PROVE  /\ t_outcome = "loaded" /\ Listing
           /\ Prepared(builder) /\ DOMAIN t_builders = ChannelsOf(builder)
           /\ \E p \in At : /\ Held(builder, t_builders, p)
                            /\ phase = "written" => ~(p.channel < Len(builder.channels))
  <1>1. Following /\ ~TargetFresh /\ Prepared(builder) /\ IsSequence(file) /\ Trailing
    BY DEF RoundInv, TargetFresh, CopyInv, FInv, WInv
  <1>2. PICK w : /\ Trail(builder, file, w)
                 /\ phase = "written" => Held(builder, w[Len(file)], at)
                 /\ Reading(w)
    BY <1>1 DEF Following
  <1>3. t_outcome = "loaded" /\ Listing /\ t_builders = w[Len(file)]
    BY <1>2 DEF Reading
  <1>4. Len(file) \in 0..Len(file)
    BY <1>1, Sequences
  <1>5. DOMAIN t_builders = ChannelsOf(builder) /\ \E p \in At : Held(builder, t_builders, p)
    BY <1>2, <1>3, <1>4 DEF Trail
  <1>6. phase = "written" => /\ at \in At /\ Held(builder, t_builders, at)
                             /\ ~(at.channel < Len(builder.channels))
    BY <1>1, <1>2, <1>3 DEF Trailing, InChannel
  <1>. QED  BY <1>1, <1>3, <1>5, <1>6

LEMMA PresentedBegins ==
    ASSUME Prepared(builder), Sounds(builder), NEW p \in At, Held(builder, t_builders, p),
           NEW ch \in ChannelsOf(builder)
    PROVE  LET d == builder.channel_data[ch + 1]
           IN  /\ IsSequence(Presented(ch)) /\ Begins(Presented(ch), Holding(d))
               /\ ch < p.channel => Presented(ch) = Holding(d)
               /\ p.channel < ch => Presented(ch) = <<>>
  <1>. DEFINE d == builder.channel_data[ch + 1]
              c == t_builders[ch]
              r == RunAt(builder, p, ch)
              n == WrittenAt(p, ch)
  <1>1. ch \in Nat /\ Ready(builder.channels[ch + 1], d) /\ Sound(d)
    BY ChannelPositions
  <1>2. Presents(c, builder.channels[ch + 1].data_type, d, r, n)
    BY DEF Held, PresentsAt
  <1>3. p.channel \in Nat
    BY DEF At
  <1>4. ch < p.channel => r = Len(Runs(d)) + 1
    BY <1>1, <1>3 DEF RunAt
  <1>5. p.channel < ch => r = 1 /\ n = 0
    BY <1>1, <1>3 DEF RunAt, WrittenAt
  <1>6. Presented(ch) = Shown(c)
    BY PresentedIs
  <1>. HIDE DEF c, d, r, n
  <1>7. /\ IsSequence(Shown(c)) /\ Begins(Shown(c), Holding(d))
        /\ r = 1 /\ n = 0 => Shown(c) = <<>>
        /\ r = Len(Runs(d)) + 1 => Shown(c) = Holding(d)
    BY <1>1, <1>2, PresentsBegins
  <1>. QED  BY <1>4, <1>5, <1>6, <1>7 DEF d

\* The first samples of a channel.
LEMMA BeginningIsOrdered ==
    ASSUME NEW s, NEW ch, Account(s, ch, told), NEW r, IsSequence(r), Begins(r, s)
    PROVE  /\ Ordered(r, ch)
           /\ \A k \in DOMAIN r, v \in DOMAIN told :
                 told[v].channel_index = ch /\ v < r[k][2] => Has(r, v)
  <1>1. /\ Len(s) \in Nat /\ Len(r) \in Nat /\ DOMAIN r = 1..Len(r) /\ Len(told) \in Nat
        /\ DOMAIN told = 1..Len(told)
    BY Sequences DEF Account
  <1>2. Len(r) <= Len(s) /\ \A i \in 1..Len(r) : r[i] = s[i]
    BY DEF Begins
  <1>3. \A i \in 1..Len(r) : i \in 1..Len(s)
    BY <1>1, <1>2
  <1>4. /\ \A k \in 1..Len(s) :
              /\ s[k][2] \in 1..Len(told) /\ told[s[k][2]].channel_index = ch
              /\ s[k] = <<Time(s[k][2]), s[k][2]>>
        /\ \A k \in 1..Len(s), j \in 1..Len(s) : j < k => s[j][2] < s[k][2]
        /\ \A v \in 1..Len(told) : told[v].channel_index = ch => \E k \in 1..Len(s) : s[k][2] = v
    BY DEF Account, Time
  <1>5. Ordered(r, ch)
    BY <1>1, <1>2, <1>3, <1>4 DEF Ordered
  <1>6. ASSUME NEW k \in 1..Len(r), NEW v \in 1..Len(told), told[v].channel_index = ch, v < r[k][2]
        PROVE  Has(r, v)
    <2>1. PICK j \in 1..Len(s) : s[j][2] = v
      BY <1>4, <1>6
    <2>2. s[k][2] \in Nat /\ v \in Nat /\ v < s[k][2] /\ k \in 1..Len(s)
      BY <1>1, <1>2, <1>3, <1>4, <1>6
    <2>3. ~(k < j)
      BY <1>4, <2>1, <2>2
    <2>4. j # k
      BY <2>1, <2>2
    <2>5. j \in 1..Len(r)
      BY <1>1, <2>3, <2>4
    <2>. QED  BY <1>1, <1>2, <2>1, <2>5 DEF Has
  <1>. QED  BY <1>1, <1>5, <1>6

LEMMA AllIsComplete ==
    ASSUME NEW s, NEW ch, Account(s, ch, told)
    PROVE  Complete(s, ch)
  <1>1. DOMAIN s = 1..Len(s) /\ DOMAIN told = 1..Len(told)
    BY Sequences DEF Account
  <1>. QED  BY <1>1 DEF Account, Complete, Has

LEMMA AccountOf ==
    ASSUME Prepared(builder), Accounts(builder, told), NEW ch \in ChannelsOf(builder)
    PROVE  /\ ch \in Nat /\ ch < Len(builder.channels) /\ Len(builder.channels) \in Nat
           /\ Account(Holding(builder.channel_data[ch + 1]), ch, told)
  <1>1. Len(builder.channels) \in Nat
    BY DEF Prepared
  <1>2. ch \in Nat /\ ch < Len(builder.channels) /\ ch + 1 \in 1..Len(builder.channels)
        /\ (ch + 1) - 1 = ch
    BY <1>1 DEF ChannelsOf
  <1>3. Account(Holding(builder.channel_data[ch + 1]), (ch + 1) - 1, told)
    BY <1>2 DEF Accounts
  <1>. QED  BY <1>1, <1>2, <1>3

\* What an application adds through WriterBuilder::add_* and write_to_file writes
\* without an error, load_from_file presents: every sample, in its channel, in order,
\* at its time, and nothing else, however the samples were cut into blocks.
THEOREM EverySampleIsLoaded == RoundTripSpec => []AddedIsLoaded
  <1>1. ASSUME RoundInv, made = "calls", phase = "written", t_outcome # "loading"
        PROVE  /\ t_outcome = "loaded"
               /\ \A ch \in DOMAIN t_builders :
                     Ordered(Presented(ch), ch) /\ Complete(Presented(ch), ch)
    <2>1. /\ t_outcome = "loaded" /\ Prepared(builder) /\ DOMAIN t_builders = ChannelsOf(builder)
          /\ Accounts(builder, told) /\ Sounds(builder)
      BY <1>1, LoadedShows DEF RoundInv, Contents, Accounts, Sounds
    <2>2. PICK p \in At : /\ Held(builder, t_builders, p)
                          /\ ~(p.channel < Len(builder.channels))
      BY <1>1, LoadedShows
    <2>3. ASSUME NEW ch \in ChannelsOf(builder)
          PROVE  Ordered(Presented(ch), ch) /\ Complete(Presented(ch), ch)
      <3>. DEFINE s == Holding(builder.channel_data[ch + 1])
      <3>1. /\ ch \in Nat /\ ch < Len(builder.channels) /\ Len(builder.channels) \in Nat
            /\ Account(s, ch, told)
        BY <2>1, AccountOf
      <3>2. ch < p.channel
        BY <2>2, <3>1 DEF At
      <3>3. Presented(ch) = s /\ IsSequence(s) /\ Begins(s, s)
        BY <2>1, <2>2, <3>2, PresentedBegins
      <3>. HIDE DEF s
      <3>. QED  BY <3>1, <3>3, BeginningIsOrdered, AllIsComplete
    <2>. QED  BY <2>1, <2>3
  <1>2. RoundInv => AddedIsLoaded
    BY <1>1 DEF AddedIsLoaded
  <1>. QED  BY <1>2, RoundInit, RoundStep, PTL DEF RoundTripSpec

\* The file that write_to_file leaves when a write fails, at any byte behind the
\* metablock, loads too: each channel presents the first samples that were added to
\* it, and only if the channels before it, which write_to_file writes first, present
\* all of theirs.
THEOREM PrefixIsLoaded == RoundTripSpec => []LeftoverLoads
  <1>1. ASSUME RoundInv, made = "calls", t_outcome # "loading"
        PROVE  /\ t_outcome = "loaded"
               /\ \A ch \in DOMAIN t_builders :
                     /\ Ordered(Presented(ch), ch)
                     /\ \A k \in DOMAIN Presented(ch), v \in DOMAIN told :
                           told[v].channel_index = ch /\ v < Presented(ch)[k][2] =>
                               Has(Presented(ch), v)
                     /\ Presented(ch) # <<>> =>
                           \A before \in 0..(ch - 1) : Complete(Presented(before), before)
    <2>1. /\ t_outcome = "loaded" /\ Prepared(builder) /\ DOMAIN t_builders = ChannelsOf(builder)
          /\ Accounts(builder, told) /\ Sounds(builder)
      BY <1>1, LoadedShows DEF RoundInv, Contents, Accounts, Sounds
    <2>2. PICK p \in At : Held(builder, t_builders, p)
      BY <1>1, LoadedShows
    <2>3. p.channel \in Nat
      BY DEF At
    <2>4. ASSUME NEW ch \in ChannelsOf(builder)
          PROVE  /\ Ordered(Presented(ch), ch)
                 /\ \A k \in DOMAIN Presented(ch), v \in DOMAIN told :
                       told[v].channel_index = ch /\ v < Presented(ch)[k][2] =>
                           Has(Presented(ch), v)
      <3>. DEFINE s == Holding(builder.channel_data[ch + 1])
      <3>1. Account(s, ch, told)
        BY <2>1, AccountOf
      <3>2. IsSequence(Presented(ch)) /\ Begins(Presented(ch), s)
        BY <2>1, <2>2, PresentedBegins
      <3>. HIDE DEF s
      <3>. QED  BY <3>1, <3>2, BeginningIsOrdered
    <2>5. ASSUME NEW ch \in ChannelsOf(builder), Presented(ch) # <<>>, NEW before \in 0..(ch - 1)
          PROVE  Complete(Presented(before), before)
      <3>1. ch \in Nat /\ ch < Len(builder.channels) /\ Len(builder.channels) \in Nat
        BY <2>1, AccountOf
      <3>2. ~(p.channel < ch)
        BY <2>1, <2>2, <2>5, PresentedBegins
      <3>3. before \in ChannelsOf(builder) /\ before < p.channel
        BY <2>3, <3>1, <3>2 DEF ChannelsOf
      <3>. DEFINE s == Holding(builder.channel_data[before + 1])
      <3>4. Account(s, before, told)
        BY <2>1, <3>3, AccountOf
      <3>5. Presented(before) = s
        BY <2>1, <2>2, <3>3, PresentedBegins
      <3>. HIDE DEF s
      <3>. QED  BY <3>4, <3>5, AllIsComplete
    <2>. QED  BY <2>1, <2>4, <2>5
  <1>2. RoundInv => LeftoverLoads
    BY <1>1 DEF LeftoverLoads
  <1>. QED  BY <1>2, RoundInit, RoundStep, PTL DEF RoundTripSpec

\* Two lists of channels of the same names find the same channel by a name.
LEMMA SameSlots ==
    ASSUME NEW s, NEW t, DOMAIN t = DOMAIN s,
           \A k \in DOMAIN s : T!Definition(t[k]).name = S!Definition(s[k]).name,
           NEW n
    PROVE  T!SlotOfName(t, n) = S!SlotOfName(s, n)
  <1>. DEFINE X == DOMAIN s
              x[k \in X] == S!Definition(s[k]).name
              y[k \in X] == T!Definition(t[k]).name
  <1>1. S!SlotOfName(s, n) = CHOOSE k \in X : /\ x[k] = n
                                             /\ \A j \in X : x[j] = n => j <= k
    BY Zenon DEF S!SlotOfName
  <1>2. T!SlotOfName(t, n) = CHOOSE k \in X : /\ y[k] = n
                                             /\ \A j \in X : y[j] = n => j <= k
    BY Zenon DEF T!SlotOfName
  <1>3. x = y
    OBVIOUS
  <1>. HIDE DEF x, y
  <1>. QED  BY <1>1, <1>2, <1>3

\* A copy through from_manager and write_to_file has, when it is loaded, the channels
\* of the recording it was made from, with their names, samples and times, and finds
\* the same channel by a name.
THEOREM CopyIsLoaded == RoundTripSpec => []CopyIsFaithful
  <1>1. ASSUME RoundInv, made = "copy", phase = "written", t_outcome # "loading"
        PROVE  /\ t_outcome = "loaded"
               /\ Len(t_channels) = Len(s_channels)
               /\ \A k \in DOMAIN s_channels :
                     /\ T!Definition(t_channels[k]).name = S!Definition(s_channels[k]).name
                     /\ Presented(t_channels[k]) = S!samples_with_time(s_channels[k])
               /\ t_by_name = s_by_name
    <2>. DEFINE m == Len(builder.channels)
    <2>1. /\ t_outcome = "loaded" /\ Prepared(builder) /\ Listing /\ CopyHolds(builder)
          /\ SourceInv /\ s_outcome = "loaded"
      BY <1>1, LoadedShows DEF RoundInv, Contents, CopyInv
    <2>2. /\ m \in Nat /\ Len(t_channels) = m /\ Len(s_channels) = m
          /\ DOMAIN t_channels = 1..m
      <3>1. \A t \in Seq(Int) : DOMAIN t = 1..Len(t)
        OBVIOUS
      <3>. QED  BY <2>1, <3>1 DEF Prepared, Listing, CopyHolds
    <2>3. DOMAIN s_channels = 1..m
      <3>. DEFINE X == 0..MaxIndex
      <3>1. s_channels \in Seq(X)
        BY <2>1 DEF SourceInv, ListedOnce
      <3>. HIDE DEF X
      <3>. QED  BY <2>2, <3>1
    <2>4. PICK p \in At : /\ Held(builder, t_builders, p)
                          /\ ~(p.channel < m)
      BY <1>1, LoadedShows
    <2>5. Sounds(builder)
      BY <2>1 DEF CopyHolds, HoldsChannel, Presenting, Sounds
    <2>6. ASSUME NEW k \in 1..m
          PROVE  /\ T!Definition(t_channels[k]).name = S!Definition(s_channels[k]).name
                 /\ Presented(t_channels[k]) = S!samples_with_time(s_channels[k])
      <3>1. t_channels[k] = k - 1 /\ T!Definition(k - 1).name = builder.channels[k].name
        BY <2>1 DEF Listing
      <3>2. HoldsChannel(builder, k, s_channels[k])
        BY <2>1, <2>2 DEF CopyHolds
      <3>3. k - 1 \in ChannelsOf(builder) /\ (k - 1) + 1 = k /\ k - 1 \in Nat /\ k - 1 < m
        BY <2>2 DEF ChannelsOf
      <3>4. k - 1 < p.channel
        BY <2>2, <2>4, <3>3 DEF At
      <3>. HIDE DEF m
      <3>5. Presented(k - 1) = Holding(builder.channel_data[(k - 1) + 1])
        BY <2>1, <2>4, <2>5, <3>3, <3>4, PresentedBegins
      <3>6. Presented(k - 1) = Holding(builder.channel_data[k])
        BY <3>3, <3>5
      <3>. QED  BY <3>1, <3>2, <3>6 DEF HoldsChannel, Presenting
    <2>. HIDE DEF m
    <2>7. t_by_name = s_by_name
      <3>1. \A n : T!SlotOfName(t_channels, n) = S!SlotOfName(s_channels, n)
        BY <2>2, <2>3, <2>6, SameSlots
      <3>2. {T!Definition(ch).name : ch \in T!ToSet(t_channels)} =
            {S!Definition(ch).name : ch \in S!ToSet(s_channels)}
        <4>1. /\ T!ToSet(t_channels) = {t_channels[k] : k \in 1..m}
              /\ S!ToSet(s_channels) = {s_channels[k] : k \in 1..m}
          BY <2>2, <2>3, Zenon DEF T!ToSet, S!ToSet
        <4>. QED  BY <2>6, <4>1
      <3>. QED  BY <2>1, <3>1, <3>2 DEF Listing, SourceInv, SourceNamed
    <2>. QED  BY <2>1, <2>2, <2>3, <2>6, <2>7
  <1>2. RoundInv => CopyIsFaithful
    BY <1>1 DEF CopyIsFaithful
  <1>. QED  BY <1>2, RoundInit, RoundStep, PTL DEF RoundTripSpec
=============================================================================
