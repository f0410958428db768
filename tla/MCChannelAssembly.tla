-------------------------- MODULE MCChannelAssembly --------------------------
(***************************************************************************)
(* ChannelAssembly on a double channel that is declared twice, a string    *)
(* channel of the same name declared between, and an unsupported one, with *)
(* blocks of every kind, empty blocks, a second start, a rate that is not  *)
(* positive, and times at the limit.                                       *)
(***************************************************************************)
EXTENDS ChannelAssembly

Def(i, n, dt) == [index |-> i, name |-> n, data_type |-> dt]

MCChannels == <<Def(0, "old", "int16"), Def(2, "later", "unsupported"),
                Def(1, "speed", "string"), Def(0, "speed", "double")>>

Block(ch, kind, dt) ==
    [channel_index |-> ch, kind |-> kind, data_type |-> dt, start |-> 0, period |-> 0,
     times |-> <<>>, values |-> <<>>]

MCBlocks ==
    { [Block(0, "StartData", "double") EXCEPT !.start = 3, !.period = 2, !.values = <<1, 2>>],
      [Block(0, "StartData", "double") EXCEPT !.start = 5, !.values = <<3>>],
      [Block(0, "StartData", "double") EXCEPT !.start = 1, !.period = 1],
      [Block(0, "ContinuedData", "double") EXCEPT !.values = <<4, 5>>],
      [Block(0, "AbsTimestampData", "double") EXCEPT !.times = <<4, 1>>, !.values = <<6, 7>>],
      Block(0, "AbsTimestampData", "double"),
      [Block(0, "ContinuedRelStampData", "double")
          EXCEPT !.times = <<1, 2>>, !.values = <<8, 9>>],
      Block(0, "Skipped", "double"),
      [Block(0, "StartData", "int16") EXCEPT !.values = <<1>>],
      [Block(1, "AbsTimestampData", "string") EXCEPT !.times = <<2>>, !.values = <<10>>],
      [Block(1, "StartData", "double") EXCEPT !.values = <<1>>],
      Block(2, "Skipped", "double"),
      Block(7, "Skipped", "double") }
=============================================================================
