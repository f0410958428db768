---------------------------- MODULE MCBlockReader ----------------------------
(***************************************************************************)
(* BlockReader over every data section of a few frames out of a dozen: good *)
(* ones, all the kinds that are skipped, and broken ones; cut off after    *)
(* every possible byte.                                                    *)
(***************************************************************************)
EXTENDS BlockReader

Channel(dt, w) == [data_type |-> dt, size_of_length_value |-> w]

MCChannelInfo == 0 :> Channel("numeric", 2) @@ 1 :> Channel("string", 4)
                 @@ 2 :> Channel("unsupported", 2)

Good(ch, length, control) ==
    [index |-> ch, length |-> length, control |-> control,
     multi |-> FALSE, crc |-> TRUE, sound |-> TRUE]

MCFrames ==
    { Good(0, 6, "StartData"), [Good(0, 6, "StartData") EXCEPT !.crc = FALSE],
      [Good(0, 6, "AbsTimeStampData") EXCEPT !.sound = FALSE],
      Good(0, 4, "ContinuedData"), Good(0, 5, "TrustedTimestamp"),
      Good(0, 0, "Reserved"), Good(0, 5, "Unknown"),
      Good(1, 5, "MessageEvent"), [Good(1, 5, "MessageEvent") EXCEPT !.multi = TRUE],
      Good(1, 5, "StartData"), Good(1, 5, "StatusEvent"),
      Good(2, 3, "Unknown"), [Good(2, 3, "Unknown") EXCEPT !.crc = FALSE],
      Good(SignatureIndex, 3, "Unknown"), Good(TrailerIndex, 1, "Reserved"),
      Good(5, 1, "Unknown") }
=============================================================================
