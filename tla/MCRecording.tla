----------------------------- MODULE MCRecording -----------------------------
(***************************************************************************)
(* Recording with a double and a string channel.  Payload budgets are      *)
(* scaled down so that a call of three doubles needs two blocks.           *)
(***************************************************************************)
EXTENDS Recording

Def(i, n, dt) == [index |-> i, name |-> n, data_type |-> dt, size_of_length_value |-> 2]

MCMetablock  == <<Def(0, "speed", "double"), Def(1, "log", "string")>>
MCDefs       == {WriterDef(i) : i \in DOMAIN MCMetablock}
\* Channels with a short and a long block, an index of no channel, a signature block, a trailer.
MCHeaders    == {<<0, 0>>, <<1, 99>>, <<5, 1>>, <<8, 6>>, <<9, 99>>}
MCMaxPayload == [w \in {2, 4} |-> IF w = 2 THEN 45 ELSE 90]
MCLengthMax  == [w \in {2, 4} |-> IF w = 2 THEN 45 ELSE 120]
=============================================================================
