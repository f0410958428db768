------------------------------ MODULE MCFileHead ------------------------------
(***************************************************************************)
(* FileHead with header lines of every version and with every order of up  *)
(* to three tokens, JSON bodies that are right and wrong in each place,    *)
(* and all XML bodies of a few events over eight tags.                     *)
(***************************************************************************)
EXTENDS FileHead

Number(n) == [key |-> "number", value |-> n]
Crc(n)    == [key |-> "crc32c", value |-> n]
Other(k)  == [key |-> k, value |-> 0]

\* The metablock has 5 bytes, the stream 8 behind the line, and the CRC 7.
Line(identifier, fields) ==
    [wrapper |-> "none", identifier |-> identifier, fields |-> fields, size |-> 10,
     terminated |-> TRUE, available |-> 8, crc |-> 7]

TokenLists == BoundedSeq({Crc(7), Crc(6), Other("ed25519")}, 3)
                \cup {<<Other(k)>> : k \in {"unknown", "malformed", "empty", "number"}}

Good == Line("OSF5", <<Number(5), Crc(7)>>)

MCStreams ==
    { Line("OSF5", <<Number(5)>> \o tokens) : tokens \in TokenLists }
    \cup { Line("OCEAN_STREAM_FORMAT4", <<Number(5)>>), Line("OSF4", <<Number(5), Crc(7)>>),
           Line("other", <<Number(5)>>), Line("OSF5", <<>>), Line("OSF5", <<Other("empty")>>),
           Line("OSF5", <<Number(9)>>), Line("OSF5", <<Number(99)>>),
           [Good EXCEPT !.terminated = FALSE], [Good EXCEPT !.size = 129],
           [Good EXCEPT !.wrapper = "gzip"], [Good EXCEPT !.wrapper = "zlib"] }

Channel(i, dt, size) ==
    [index |-> i, name |-> "speed", channeltype |-> "scalar", datatype |-> dt,
     sizeoflengthvalue |-> size, timeincrement |-> Missing, spectrumtype |-> Missing]

File(long, short) == [creator |-> "device", created_at_latitude |-> long, latitude |-> short]

Info(name, dt) == [name |-> name, datatype |-> dt]

Body == [parsable |-> TRUE, osf |-> TRUE, file_kind |-> "object", channels_kind |-> "array",
         infos_kind |-> "array", file |-> File("48", Missing),
         channels |-> <<Channel(3, "double", 2)>>, infos |-> <<Info("site", Missing)>>]

MCDrafts ==
    { [creator |-> "osf-core", latitude |-> Missing, channels |-> cs] :
        cs \in BoundedSeq([name : {"speed"}, channel_type : {"scalar", "binary"},
                           data_type : {"double"}, size_of_length_value : {4},
                           time_increment_ns : {Missing, "10"},
                           spectrum_type : {Missing, "ampphasedeg"}], 2) }

MCBodies ==
    { build_metablock_json(draft) : draft \in MCDrafts }
    \cup { [Body EXCEPT !.parsable = FALSE], [Body EXCEPT !.osf = FALSE],
           [Body EXCEPT !.file_kind = "wrong"], [Body EXCEPT !.channels_kind = "wrong"],
           [Body EXCEPT !.infos_kind = "wrong"], [Body EXCEPT !.file_kind = "absent"],
           [Body EXCEPT !.file = File(Unreadable, "48")],
           [Body EXCEPT !.infos = <<Info("site", "candata")>>],
           [Body EXCEPT !.infos = <<Info(Missing, "double")>>],
           [Body EXCEPT !.infos = <<Info("site", Unreadable)>>] }
    \cup { [Body EXCEPT !.channels = <<c>>] :
             c \in { Channel(3, "double", 2), Channel(65536, "double", 2), Channel(3, "gpsdata", 2),
                     Channel(3, "complex", 4), Channel(3, "bytearray", 2), Channel(3, "double", 8),
                     [Channel(3, "double", 2) EXCEPT !.channeltype = "tensor"],
                     [Channel(3, "double", 2) EXCEPT !.channeltype = Missing],
                     [Channel(3, "double", 2) EXCEPT !.timeincrement = Unreadable],
                     [Channel(3, "double", 2) EXCEPT !.name = Unreadable],
                     [Channel(3, "double", 2) EXCEPT !.spectrumtype = "cepstrum"],
                     [Channel(3, "double", 2) EXCEPT !.spectrumtype = Unreadable] } }

MCTags ==
    { [name |-> "optimeas", attrs |-> File(Missing, "48")],
      [name |-> "optimeas", attrs |-> File(Missing, Unreadable)],
      [name |-> "channels", attrs |-> NoFields],
      [name |-> "infos", attrs |-> NoFields],
      [name |-> "channel", attrs |-> Channel(3, "bytearray", 2)],
      [name |-> "channel", attrs |-> [Channel(4, "double", 4) EXCEPT !.timeincrement = Unreadable]],
      [name |-> "info", attrs |-> Info("site", Missing)],
      [name |-> "other", attrs |-> NoFields] }
=============================================================================
