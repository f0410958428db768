----------------------------- MODULE MCRoundTrip -----------------------------
(***************************************************************************)
(* RoundTrip with two channels of one name, a double and a string, made by *)
(* calls or copied from a recording with an unsupported channel between    *)
(* them.  Payloads are scaled down: a block holds two or three doubles and *)
(* a string of 33 bytes needs a wide length field beside a CRC.            *)
(***************************************************************************)
EXTENDS RoundTrip

SourceDef(i, dt, type) == [index |-> i, name |-> "speed", data_type |-> dt, channel_type |-> type,
                           size_of_length_value |-> 2]

\* The middle channel of the recording is of a later revision of the format.
MCSource == <<SourceDef(4, "double", "scalar"), SourceDef(2, "unsupported", "scalar"),
              SourceDef(7, "string", "scalar")>>

NewDef(dt, type, width) == [name |-> "speed", data_type |-> dt, channel_type |-> type,
                            size_of_length_value |-> width]

MCChannelDefs ==
    { NewDef("double", "scalar", 2), NewDef("string", "scalar", 2),
      NewDef("bytearray", "scalar", 2), NewDef("double", "unsupported", 2),
      NewDef("double", "scalar", 3) }

MCMaxPayload == [w \in Widths |-> IF w = 2 THEN 45 ELSE 90]

SourceBlock(ch, kind, dt, start, period, times, values) ==
    [channel_index |-> ch, kind |-> kind, data_type |-> dt, start |-> start,
     period |-> period, times |-> times, values |-> values]

MCSourceBlocks ==
    { SourceBlock(4, "StartData", "double", 3, 2, <<>>, <<1, 2, 3, 4>>),
      SourceBlock(4, "StartData", "double", 9, 0, <<>>, <<5>>),
      SourceBlock(4, "StartData", "double", 5, 1, <<>>, <<>>),
      SourceBlock(4, "ContinuedData", "double", 0, 0, <<>>, <<6, 7, 8, 9>>),
      SourceBlock(4, "AbsTimestampData", "double", 0, 0, <<1, 4, 2>>, <<1, 2, 3>>),
      SourceBlock(4, "AbsTimestampData", "double", 0, 0, <<>>, <<>>),
      SourceBlock(4, "ContinuedRelStampData", "double", 0, 0, <<2>>, <<4>>),
      SourceBlock(7, "AbsTimestampData", "string", 0, 0, <<3>>, <<1>>),
      SourceBlock(7, "AbsTimestampData", "string", 0, 0, <<4, 4>>, <<2, 33>>) }

MCSizeOf(v) == v
=============================================================================
