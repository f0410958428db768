------------------------------- MODULE MCLoader -------------------------------
(***************************************************************************)
(* Loader on a numeric, a string and an unsupported channel: files of good, *)
(* skipped and broken frames, cut off after every byte.                    *)
(***************************************************************************)
EXTENDS Loader

Def(i, n, dt) ==
    [index |-> i, name |-> n, data_type |-> dt, size_of_length_value |-> 2]

MCMetablock == <<Def(0, "speed", "double"), Def(1, "log", "string"), Def(2, "later", "unsupported")>>

Content(ch, length, control, kind, period, times, values) ==
    [frame |-> [index |-> ch, length |-> length, control |-> control,
                multi |-> FALSE, crc |-> TRUE, sound |-> TRUE],
     block |-> [channel_index |-> ch, kind |-> kind, data_type |-> MCMetablock[1].data_type,
                start |-> 1, period |-> period, times |-> times, values |-> values]]

Text(c)     == [c EXCEPT !.block.data_type = "string"]
Rotten(c)   == [c EXCEPT !.frame.crc = FALSE]
Unsound(c)  == [c EXCEPT !.frame.sound = FALSE]

StartBlock  == Content(0, 6, "StartData", "StartData", 2, <<>>, <<1, 2>>)
MoreBlock   == Content(0, 5, "ContinuedData", "ContinuedData", 0, <<>>, <<3>>)
StampBlock  == Content(0, 5, "AbsTimeStampData", "AbsTimestampData", 0, <<7>>, <<4>>)
TextBlock   == Text(Content(1, 5, "AbsTimeStampData", "AbsTimestampData", 0, <<2>>, <<5>>))
EventBlock  == Text(Content(1, 5, "MessageEvent", "AbsTimestampData", 0, <<3>>, <<6>>))

MCContents ==
    { StartBlock, Rotten(StartBlock), MoreBlock, Rotten(MoreBlock), Unsound(MoreBlock),
      StampBlock, TextBlock, EventBlock,
      [StartBlock EXCEPT !.frame.control = "TrustedTimestamp"],
      [StartBlock EXCEPT !.frame.length = 0],
      Content(2, 3, "Unknown", "Skipped", 0, <<>>, <<>>),
      Content(SignatureIndex, 2, "Unknown", "Skipped", 0, <<>>, <<>>),
      Content(TrailerIndex, 1, "Unknown", "Skipped", 0, <<>>, <<>>) }
=============================================================================
