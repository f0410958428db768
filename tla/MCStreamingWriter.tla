-------------------------- MODULE MCStreamingWriter --------------------------
(***************************************************************************)
(* StreamingWriter on a small instance.  Length fields are scaled down so  *)
(* that a block holds two or three doubles and the loops run several times.*)
(***************************************************************************)
EXTENDS StreamingWriterLog

Def(dt, ct, width) == [dataType |-> dt, channelType |-> ct, sizeOfLengthValue |-> width]

\* The last two are refused.
MCDefs == {Def("double", "scalar", 2), Def("string", "scalar", 2),
           Def("double", "scalar", 3), Def("double", "unsupported", 2)}
MCMaxPayload == [w \in Widths |-> IF w = 2 THEN 45 ELSE 90]
MCLengthMax  == [w \in Widths |-> IF w = 2 THEN 45 ELSE 120]
=============================================================================
