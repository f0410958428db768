------------------------------- MODULE FileHead -------------------------------
(***************************************************************************)
(* DataManager::load_from_stream_with_size up to the first block: the      *)
(* compression is detected, the magic header is read and parsed, the       *)
(* metablock is read, its CRC compared, and its XML (OSF4) or JSON (OSF5)  *)
(* becomes a MetaBlock.                                                    *)
(*                                                                         *)
(* A field of text stands for its value, Missing or Unreadable.  One       *)
(* coordinate of a file stands for the three.  The XML document is made up *)
(* while it is read, event by event, as quick-xml reports it; an end of    *)
(* the body may come behind any event.                                     *)
(***************************************************************************)
EXTENDS Integers, Sequences, FiniteSets, SequencesExt

CONSTANTS
    Streams,        \* the streams that may be opened
    FirstReads,     \* how many bytes their first read may return
    MaxHeaderLen,   \* MAX_MAGIC_HEADER_LEN
    MaxIndex,       \* u16::MAX
    MaxAlloc,       \* the largest buffer that can be allocated
    Bodies,         \* the JSON bodies
    Drafts,         \* the channel lists of a WriterBuilder
    Tags,           \* the elements of an XML body: name and attributes
    MaxEvents,      \* bound: events of an XML body
    MaxStray        \* bound: elements of it that are not where they belong

Missing    == "missing"
Unreadable == "unreadable"
Text       == STRING \cup {Missing, Unreadable}

Versions    == {"Osf4", "Osf5"}
Identifiers == {"OSF4", "OCEAN_STREAM_FORMAT4", "OCEAN_STREAMING_FORMAT4", "OSF5", "other"}
Current     == {"bool", "int16", "float", "double", "string", "binary", "gpslocation"}
Removed     == {"pair", "triple", "candata", "gpsdata"}
Spectra     == {"amplitude", "realimag", "ampphaserad", "ampphasedeg"}

\* A field of the line behind the identifier; "malformed" has no colon, or a key or a
\* value of the wrong characters.
Field == [key : {"number", "crc32c", "ed25519", "unknown", "malformed", "empty"}, value : Nat]

\* size counts the bytes in front of the newline.
Stream == [wrapper : {"none", "zlib", "gzip"}, identifier : Identifiers, fields : Seq(Field),
           size : Nat, terminated : BOOLEAN, available : Nat, crc : Nat]

\* What the parsers look for in an element or an object; a number that is none is out
\* of every range.
FileFields    == [creator : Text, created_at_latitude : Text, latitude : Text]
ChannelFields == [index : Int, name : Text, channeltype : Text, datatype : Text,
                  sizeoflengthvalue : Int, timeincrement : Text, spectrumtype : Text]
InfoFields    == [name : Text, datatype : Text]
NoFields      == [none |-> Missing]

JsonBody == [parsable : BOOLEAN, osf : BOOLEAN, file_kind : {"object", "absent", "wrong"},
             channels_kind : {"array", "absent", "wrong"},
             infos_kind : {"array", "absent", "wrong"}, file : FileFields,
             channels : Seq(ChannelFields), infos : Seq(InfoFields)]

\* The elements that the format knows.
Known == {"optimeas", "channels", "infos", "channel", "info"}

Tag == [name : {"optimeas"}, attrs : FileFields] \cup [name : {"channel"}, attrs : ChannelFields]
          \cup [name : {"info"}, attrs : InfoFields]
          \cup [name : STRING \ {"optimeas", "channel", "info"}, attrs : {NoFields}]

\* What add_channel accepts; a coordinate is a finite number.
Draft == [creator : Text, latitude : Text \ {Unreadable},
          channels : Seq([name : Text \ {Missing, Unreadable}, channel_type : {"scalar", "vector", "matrix", "binary"},
                          data_type : Current, size_of_length_value : {2, 4},
                          time_increment_ns : Text \ {Unreadable},
                          spectrum_type : Spectra \cup {Missing}])]

ASSUME StreamAssumption ==
    /\ Streams \subseteq Stream
    /\ FirstReads \subseteq Nat \ {0}
    /\ MaxHeaderLen \in Nat /\ MaxIndex \in Nat /\ MaxAlloc \in Nat /\ MaxEvents \in Nat /\ MaxStray \in Nat
\* An attribute of XML is always a text.
ASSUME BodyAssumption ==
    /\ Bodies \subseteq JsonBody /\ Tags \subseteq Tag
    /\ \A tag \in Tags :
          LET a == tag.attrs
          IN  Unreadable \notin CASE tag.name = "channel" ->
                                        {a.name, a.channeltype, a.datatype, a.spectrumtype}
                                  [] tag.name = "info" -> {a.name, a.datatype}
                                  [] OTHER -> {}
ASSUME DraftAssumption ==
    /\ Drafts \subseteq Draft
    /\ \A draft \in Drafts : Len(draft.channels) <= MaxIndex + 1

VARIABLES
    stream,     \* the stream that is opened
    phase,      \* the step that is next, "open" or "failed"
    result,     \* why it failed
    format,     \* what was detected
    header,     \* the MagicHeader
    fields_read, \* fields of its line that were looked at
    json,       \* the JSON body, NoBody before it is parsed
    events,     \* the XML events that were read
    parser,     \* state of parse_metablock_xml and the element it skips
    meta        \* the MetaBlock

head == <<header, fields_read>>
body == <<json, events, parser, meta>>
vars == <<stream, phase, result, format, head, body>>

NoBody   == <<>>
NoHeader == [version |-> "Osf5", metablock_len |-> 0, integrity |-> "none", metablock_crc |-> <<>>]
NoMeta   == [version |-> 0, creator |-> Missing, latitude |-> Missing, channels |-> <<>>,
             infos |-> <<>>]

Init ==
    /\ stream \in Streams
    /\ phase = "peek" /\ result = "none" /\ format = "none"
    /\ header = NoHeader /\ fields_read = 0
    /\ json = NoBody /\ events = <<>>
    /\ parser = [state |-> "TopLevel", skipped |-> Missing]
    /\ meta = NoMeta

Fails(error) == phase' = "failed" /\ result' = error

Goes(next) == phase' = next /\ UNCHANGED result

---------------------------------------------------------------------------
(* compression.rs: fill_buf() is one read of the stream. *)

\* peek_format.
Detected(n) == IF n < 2 THEN "none" ELSE stream.wrapper

detect_and_wrap ==
    /\ phase = "peek"
    /\ \E n \in FirstReads : format' = Detected(n)
    /\ Goes("line")
    /\ UNCHANGED <<stream, head, body>>

\* A read may fail at any time, and so may the decompressor.
IoFails ==
    /\ phase \in {"peek", "line", "body"}
    /\ Fails("Io")
    /\ UNCHANGED <<stream, format, head, body>>

---------------------------------------------------------------------------
(* header.rs. *)

\* Compressed bytes have no header line.
LineErrors ==
    IF format # stream.wrapper THEN {"InvalidMagicHeader", "MagicHeaderTooLong", "UnsupportedVersion"}
    ELSE IF stream.size > MaxHeaderLen THEN {"MagicHeaderTooLong"}
    ELSE IF ~stream.terminated THEN {"InvalidMagicHeader"}
    ELSE {}

read_first_line ==
    /\ phase = "line"
    /\ IF LineErrors = {} THEN Goes("header") ELSE \E error \in LineErrors : Fails(error)
    /\ UNCHANGED <<stream, format, head, body>>

Version == IF stream.identifier = "OSF5" THEN "Osf5" ELSE "Osf4"

\* parse_magic_header_line: the identifier and the length.
HeaderError ==
    IF stream.fields = <<>> THEN "InvalidMagicHeader"
    ELSE IF stream.identifier = "other" THEN "UnsupportedVersion"
    ELSE IF stream.fields[1].key # "number" THEN "InvalidMagicHeader" ELSE "none"

parse_magic_header ==
    /\ phase = "header"
    /\ IF HeaderError = "none"
       THEN /\ Goes("tokens")
            /\ header' = [version |-> Version, metablock_len |-> stream.fields[1].value,
                          integrity |-> "none", metablock_crc |-> <<>>]
            /\ fields_read' = 1
       ELSE Fails(HeaderError) /\ UNCHANGED <<header, fields_read>>
    /\ UNCHANGED <<stream, format, body>>

\* A token is understood or the file refused; saw_crc is that a CRC is known.
TokenError(token) ==
    IF \/ header.version = "Osf4"
       \/ token.key \notin {"crc32c", "ed25519", "unknown"}
       \/ token.key = "ed25519" /\ header.metablock_crc = <<>>
    THEN "InvalidMagicHeader"
    ELSE IF token.key = "unknown" THEN "UnknownHeaderToken" ELSE "none"

\* mutant: the first CRC that is declared counts, and not the last
Understood_FirstCrc(token) ==
    [header EXCEPT !.integrity = token.key,
                   !.metablock_crc = IF token.key = "crc32c" /\ @ = <<>> THEN <<token.value>> ELSE @]

\* What a token says; it overwrites what an earlier one said.
Understood(token) ==
    [header EXCEPT !.integrity = token.key,
                   !.metablock_crc = IF token.key = "crc32c" THEN <<token.value>> ELSE @]

\* The loop over the tokens.
parse_token ==
    /\ phase = "tokens"
    /\ fields_read < Len(stream.fields)
    /\ LET token == stream.fields[fields_read + 1]
       IN  IF TokenError(token) = "none"
           THEN /\ header' = Understood(token)
                /\ fields_read' = fields_read + 1
                /\ UNCHANGED <<phase, result>>
           ELSE Fails(TokenError(token)) /\ UNCHANGED <<header, fields_read>>
    /\ UNCHANGED <<stream, format, body>>

end_of_header ==
    /\ phase = "tokens"
    /\ fields_read = Len(stream.fields)
    /\ Goes("body")
    /\ UNCHANGED <<stream, format, head, body>>

---------------------------------------------------------------------------
(* read_exact and integrity.rs. *)

\* The buffer is allocated before its bytes are read; what is too large ends the process.
read_body ==
    /\ phase = "body"
    /\ IF header.metablock_len > MaxAlloc THEN Fails("Abort")
       ELSE IF header.metablock_len <= stream.available THEN Goes("crc") ELSE Fails("Io")
    /\ UNCHANGED <<stream, format, head, body>>

verify_metablock_crc ==
    /\ phase = "crc"
    /\ IF header.metablock_crc \in {<<>>, <<stream.crc>>}
       THEN Goes(header.version) ELSE Fails("MetablockCrcMismatch")
    /\ UNCHANGED <<stream, format, head, body>>

---------------------------------------------------------------------------
(* meta.rs: what both parsers share. *)

parse_data_type(raw) ==
    CASE raw \in Current                     -> raw
      [] raw = "bytearray"                   -> "binary"
      [] raw \notin Current \cup {"bytearray"} -> "unsupported"

\* mutant: the channel type binary is taken for the data type
parse_channel_type_NoBinary(raw) ==
    IF raw \in {"scalar", "vector", "matrix"} THEN raw ELSE "unsupported"

parse_channel_type(raw) ==
    IF raw \in {"scalar", "vector", "matrix", "binary"} THEN raw ELSE "unsupported"

from_wire(raw) == IF raw \in Spectra \cup {Missing} THEN raw ELSE "amplitude"

\* mutant: any width is accepted
validate_size_of_length_value_Any(n) == n \in Nat

validate_size_of_length_value(n) == n \in {2, 4}

\* The first error of a sequence of checks.
FirstError(errors) ==
    IF \A k \in DOMAIN errors : errors[k] = "none" THEN "none"
    ELSE errors[CHOOSE k \in DOMAIN errors : /\ errors[k] # "none"
                                             /\ \A j \in 1..(k - 1) : errors[j] = "none"]

\* A value that has not the type of its field counts as missing.
Readable(raw) == IF raw = Unreadable THEN Missing ELSE raw

\* What a channel is refused for; an index or a width that is missing or no number is
\* one that is out of range.
ChannelError(c) ==
    IF \/ c.index \notin 0..MaxIndex
       \/ Missing \in {Readable(c.name), Readable(c.channeltype), Readable(c.datatype)}
    THEN "InvalidMetablock"
    ELSE IF c.datatype \in Removed THEN "RemovedInSpec2026_05_04"
    ELSE IF ~validate_size_of_length_value(c.sizeoflengthvalue) THEN "InvalidMetablock"
    ELSE "none"

InfoError(f) ==
    IF Readable(f.name) = Missing THEN "InvalidMetablock"
    ELSE IF f.datatype \in Removed THEN "RemovedInSpec2026_05_04" ELSE "none"

ChannelOf(c) ==
    [index |-> c.index, name |-> c.name, channel_type |-> parse_channel_type(c.channeltype),
     data_type |-> parse_data_type(c.datatype), size_of_length_value |-> c.sizeoflengthvalue,
     time_increment_ns |-> Readable(c.timeincrement), spectrum_type |-> from_wire(Readable(c.spectrumtype))]

InfoOf(f) ==
    [name |-> f.name,
     data_type |-> IF Readable(f.datatype) = Missing THEN "string" ELSE parse_data_type(f.datatype)]

\* The short spelling counts where the long one gives nothing.
Coordinate(f) ==
    IF Readable(f.created_at_latitude) # Missing THEN f.created_at_latitude
    ELSE Readable(f.latitude)

---------------------------------------------------------------------------
(* meta_json.rs: the body at once. *)

Wrong(kind) == IF kind = "wrong" THEN "InvalidMetablock" ELSE "none"

\* parse_metablock_json: the envelope, the file, the channels, the infos.
JsonError(j) ==
    FirstError(<<IF j.parsable THEN "none" ELSE "Json",
                 IF j.osf THEN "none" ELSE "InvalidMetablock",
                 Wrong(j.file_kind), Wrong(j.channels_kind)>>
               \o [k \in DOMAIN j.channels |-> ChannelError(j.channels[k])]
               \o <<Wrong(j.infos_kind)>>
               \o [k \in DOMAIN j.infos |-> InfoError(j.infos[k])])

parse_metablock_json(j) ==
    [version  |-> 5,
     creator  |-> IF j.file_kind = "object" THEN j.file.creator ELSE Missing,
     latitude |-> IF j.file_kind = "object" THEN Coordinate(j.file) ELSE Missing,
     channels |-> [k \in DOMAIN j.channels |-> ChannelOf(j.channels[k])],
     infos    |-> [k \in DOMAIN j.infos |-> InfoOf(j.infos[k])]]

ParseJson ==
    /\ phase = "Osf5"
    /\ \E j \in Bodies :
          /\ json' = j
          /\ IF JsonError(j) = "none" THEN Goes("open") /\ meta' = parse_metablock_json(j)
                                      ELSE Fails(JsonError(j)) /\ UNCHANGED meta
    /\ UNCHANGED <<stream, format, head, events, parser>>

---------------------------------------------------------------------------
(* meta_xml.rs: one event after the other. *)

\* An event is kept with its path, the elements it stands in, the outermost first.
Open ==
    IF events = <<>> THEN <<>>
    ELSE LET e == Last(events)
         IN  CASE e.ev = "Start" -> Append(e.path, e.name)
               [] e.ev = "End"   -> Front(e.path)
               [] e.ev = "Empty" -> e.path

\* Where the format has an element.
Place(name) == CASE name \in {"channels", "infos"} -> <<"optimeas">>
                 [] name = "channel"              -> <<"optimeas", "channels">>
                 [] name = "info"                 -> <<"optimeas", "infos">>
                 [] OTHER                         -> <<>>

Stray == {i \in DOMAIN events : /\ events[i].ev # "End"
                               /\ \/ events[i].path # Place(events[i].name)
                                  \/ events[i].name = "optimeas" /\ i > 1}

\* What quick-xml reports: tags match.  Anything but tags is left out.
Event(ev, name, attrs) ==
    /\ phase = "Osf4"
    /\ Len(events) < MaxEvents
    /\ ev = "End" => Open # <<>> /\ Last(Open) = name
    /\ events' = Append(events, [ev |-> ev, name |-> name, attrs |-> attrs, path |-> Open])
    /\ Cardinality(Stray') <= MaxStray
    /\ UNCHANGED <<stream, format, head, json>>

\* The tag begins an element or is one.
Element(tag, ev) == Event(ev, tag.name, tag.attrs)

Closing(name) == Event("End", name, NoFields)

Names == {tag.name : tag \in Tags}

In(state) == parser.state = state

Becomes(state) == parser' = [state |-> state, skipped |-> Missing]

\* An attribute of <optimeas> that is no number is refused where it is looked at.
FileError(f) ==
    IF \/ f.created_at_latitude = Unreadable
       \/ f.created_at_latitude = Missing /\ f.latitude = Unreadable
    THEN "InvalidMetablock" ELSE "none"

\* A time increment that is no number is refused as well.
XmlChannelError(c) ==
    FirstError(<<ChannelError(c),
                 IF c.timeincrement = Unreadable THEN "InvalidMetablock" ELSE "none">>)

\* The root; an empty one is passed over.
StartRoot ==
    /\ In("TopLevel")
    /\ \E ev \in {"Start", "Empty"}, tag \in Tags :
          /\ Element(tag, ev)
          /\ IF ev = "Empty" THEN UNCHANGED <<phase, result, parser, meta>>
             ELSE IF tag.name = "optimeas" /\ FileError(tag.attrs) = "none"
             THEN /\ Becomes("InOptimeas")
                  /\ meta' = [meta EXCEPT !.creator = tag.attrs.creator,
                                          !.latitude = Coordinate(tag.attrs)]
                  /\ UNCHANGED <<phase, result>>
             ELSE Fails("InvalidMetablock") /\ UNCHANGED <<parser, meta>>

\* A child of the root; an unknown one is passed over to its end.
StartSection ==
    /\ In("InOptimeas")
    /\ \E ev \in {"Start", "Empty"}, tag \in Tags :
          /\ Element(tag, ev)
          /\ CASE ev = "Empty"                         -> UNCHANGED parser
               [] ev = "Start" /\ tag.name = "channels"    -> Becomes("InChannels")
               [] ev = "Start" /\ tag.name = "infos"       -> Becomes("InInfos")
               [] ev = "Start" /\ tag.name \notin {"channels", "infos"} ->
                     parser' = [state |-> "Skipping", skipped |-> tag.name]
    /\ UNCHANGED <<phase, result, meta>>

\* mutant: a channel with content is passed over
StartChannel_EmptyOnly ==
    /\ In("InChannels")
    /\ \E ev \in {"Start", "Empty"}, tag \in Tags :
          /\ Element(tag, ev)
          /\ IF tag.name # "channel" \/ ev = "Start" THEN UNCHANGED <<phase, result, meta>>
             ELSE IF XmlChannelError(tag.attrs) = "none"
             THEN /\ meta' = [meta EXCEPT !.channels = Append(@, ChannelOf(tag.attrs))]
                  /\ UNCHANGED <<phase, result>>
             ELSE Fails(XmlChannelError(tag.attrs)) /\ UNCHANGED meta
    /\ UNCHANGED parser

StartChannel ==
    /\ In("InChannels")
    /\ \E ev \in {"Start", "Empty"}, tag \in Tags :
          /\ Element(tag, ev)
          /\ IF tag.name # "channel" THEN UNCHANGED <<phase, result, meta>>
             ELSE IF XmlChannelError(tag.attrs) = "none"
             THEN /\ meta' = [meta EXCEPT !.channels = Append(@, ChannelOf(tag.attrs))]
                  /\ UNCHANGED <<phase, result>>
             ELSE Fails(XmlChannelError(tag.attrs)) /\ UNCHANGED meta
    /\ UNCHANGED parser

StartInfo ==
    /\ In("InInfos")
    /\ \E ev \in {"Start", "Empty"}, tag \in Tags :
          /\ Element(tag, ev)
          /\ IF tag.name # "info" THEN UNCHANGED <<phase, result, meta>>
             ELSE IF InfoError(tag.attrs) = "none"
             THEN /\ meta' = [meta EXCEPT !.infos = Append(@, InfoOf(tag.attrs))]
                  /\ UNCHANGED <<phase, result>>
             ELSE Fails(InfoError(tag.attrs)) /\ UNCHANGED meta
    /\ UNCHANGED parser

EndTag ==
    /\ ~In("Skipping")
    /\ \E name \in Names :
          /\ Closing(name)
          /\ CASE name \in {"channels", "infos"} -> Becomes("InOptimeas")
               [] name = "optimeas"              -> Becomes("TopLevel")
               [] OTHER                          -> UNCHANGED parser
    /\ UNCHANGED <<phase, result, meta>>

\* skip_to_end_named: the first end tag of the name ends the skipping.
SkipTag ==
    /\ In("Skipping")
    /\ \/ \E ev \in {"Start", "Empty"}, tag \in Tags : Element(tag, ev) /\ UNCHANGED parser
       \/ \E name \in Names :
             /\ Closing(name)
             /\ IF name = parser.skipped THEN Becomes("InOptimeas") ELSE UNCHANGED parser
    /\ UNCHANGED <<phase, result, meta>>

\* The body is no XML from here on.
BrokenXml ==
    /\ phase = "Osf4"
    /\ Fails("Xml")
    /\ UNCHANGED <<stream, format, head, body>>

\* mutant: the end of the body does not end the skipping
EndOfXml_NotInSkipping ==
    /\ phase = "Osf4"
    /\ ~In("Skipping")
    /\ Goes("open") /\ meta' = [meta EXCEPT !.version = 4]
    /\ UNCHANGED <<stream, format, head, json, events, parser>>

\* Event::Eof: whatever is open, but for a skipped element.
EndOfXml ==
    /\ phase = "Osf4"
    /\ IF In("Skipping") THEN Fails("InvalidMetablock") /\ UNCHANGED meta
                         ELSE Goes("open") /\ meta' = [meta EXCEPT !.version = 4]
    /\ UNCHANGED <<stream, format, head, json, events, parser>>

ParseXml == \/ StartRoot \/ StartSection \/ StartChannel \/ StartInfo \/ EndTag
            \/ SkipTag \/ EndOfXml

Reading == \/ detect_and_wrap \/ read_first_line \/ parse_magic_header \/ parse_token
           \/ end_of_header \/ read_body \/ verify_metablock_crc \/ ParseJson \/ ParseXml

Next == Reading \/ IoFails \/ BrokenXml

\* One thread reads, and the body is finite; errors are owed to nobody.
FairSpec == Init /\ [][Next]_vars /\ WF_vars(Reading)

---------------------------------------------------------------------------
(* writer.rs: the head of a file that a WriterBuilder writes. *)

\* channel_def_to_json.
channel_def_to_json(index, def) ==
    [index |-> index, name |-> def.name, channeltype |-> def.channel_type,
     datatype |-> IF def.data_type = "bytearray" THEN "binary" ELSE def.data_type,
     sizeoflengthvalue |-> def.size_of_length_value,
     timeincrement |-> def.time_increment_ns, spectrumtype |-> def.spectrum_type]

\* build_metablock_json; a creator is always given.
build_metablock_json(draft) ==
    [parsable |-> TRUE, osf |-> TRUE, file_kind |-> "object", channels_kind |-> "array",
     infos_kind |-> "absent",
     file |-> [creator |-> draft.creator, created_at_latitude |-> draft.latitude,
               latitude |-> Missing],
     channels |-> [i \in DOMAIN draft.channels |->
                      channel_def_to_json(i - 1, draft.channels[i])],
     infos |-> <<>>]

---------------------------------------------------------------------------
(* What makes the head correct. *)

MetaType == [version : {0, 4, 5}, creator : Text, latitude : Text,
             channels : Seq([index : 0..MaxIndex, name : Text,
                             channel_type : {"scalar", "vector", "matrix", "binary", "unsupported"},
                             data_type : Current \cup {"unsupported"},
                             size_of_length_value : {2, 4}, time_increment_ns : Text,
                             spectrum_type : Spectra \cup {Missing}]),
             infos : Seq([name : Text, data_type : Current \cup {"unsupported"}])]

\* The types of the state; whatever the body says, a channel that gets into the
\* metablock has an index and a width that the block reader can use.
HeadTypeOK ==
    /\ stream \in Streams
    /\ phase \in {"peek", "line", "header", "tokens", "body", "crc", "Osf4", "Osf5", "open", "failed"}
    /\ result \in {"none", "Io", "InvalidMagicHeader", "MagicHeaderTooLong", "UnsupportedVersion",
                   "UnknownHeaderToken", "MetablockCrcMismatch", "Abort", "Json", "Xml",
                   "InvalidMetablock", "RemovedInSpec2026_05_04"}
    /\ format \in {"none", "zlib", "gzip"}
    /\ header \in [version : Versions, metablock_len : Nat, metablock_crc : Seq(Nat),
                   integrity : {"none", "crc32c", "ed25519"}]
    /\ fields_read \in 0..Len(stream.fields)
    /\ parser.state \in {"TopLevel", "InOptimeas", "InChannels", "InInfos", "Skipping"}
    /\ meta \in MetaType

DeclaredCrcs == {i \in DOMAIN stream.fields : stream.fields[i].key = "crc32c"}

\* A file is opened only as its first line says: every token is understood, the level
\* is that of the last one, the CRC that is declared last is the CRC of the metablock,
\* and what is declared signed has a CRC in front of the signature.
HeaderIsHonoured ==
    LET n == Len(stream.fields)
    IN  phase = "open" =>
          /\ \A i \in 2..n : stream.fields[i].key \in {"crc32c", "ed25519"}
          /\ n > 1 => stream.identifier = "OSF5"
          /\ header.integrity = IF n > 1 THEN stream.fields[n].key ELSE "none"
          /\ \A i \in DeclaredCrcs :
                (\A j \in DeclaredCrcs : j <= i) => /\ header.metablock_crc = <<stream.crc>>
                                                    /\ stream.fields[i].value = stream.crc
          /\ \A i \in DOMAIN stream.fields :
                stream.fields[i].key = "ed25519" => \E j \in DeclaredCrcs : j < i

\* What the elements of a name that are right in their place say, in order.
Placed(name) ==
    FlattenSeq([i \in DOMAIN events |->
        IF events[i].ev # "End" /\ events[i].name = name /\ events[i].path = Place(name)
        THEN <<events[i].attrs>> ELSE <<>>])

\* A whole document with one root; what the revision does not know has no content in
\* it that bears a name that it knows.
ProperXml ==
    /\ events # <<>> /\ Open = <<>>
    /\ events[1].ev = "Start"
    /\ \A i \in DOMAIN events :
          LET e == events[i]
          IN  /\ e.path = <<>> <=> i = 1
              /\ e.ev # "End" /\ Len(e.path) > 1 =>
                    IF e.path[2] \in {"channels", "infos"}
                    THEN e.name \notin Known \/ e.path = Place(e.name)
                    ELSE e.name # e.path[2]

\* "every field that one parser fills, the other parser fills from the equivalent
\* on-disk representation" (MetaBlock, meta.rs): what an XML file gives, the JSON of
\* the same fields gives.  The XML parser knows four states and no nesting; even so it
\* takes from a proper document the children of <channels> and <infos>, all of them
\* and in order, whatever unknown elements stand between.
Symmetric ==
    phase = "open" /\ header.version = "Osf4" /\ ProperXml =>
        LET channels == Placed("channel")
            infos    == Placed("info")
            twin == [parsable |-> TRUE, osf |-> TRUE, file_kind |-> "object",
                     channels_kind |-> "array", infos_kind |-> "array", file |-> events[1].attrs,
                     channels |-> channels, infos |-> infos]
        IN  /\ JsonError(twin) = "none"
            /\ parse_metablock_json(twin) = [meta EXCEPT !.version = 5]

\* The metablock of a WriterBuilder is read as it was declared, for every channel
\* type, spectrum and time increment, with the indices that add_channel returned.
WrittenIsRead ==
    json # NoBody => \A draft \in Drafts :
        json = build_metablock_json(draft) =>
            /\ phase = "open"
            /\ meta.creator = draft.creator /\ meta.latitude = draft.latitude
            /\ meta.channels = [i \in DOMAIN draft.channels |->
                   LET c == draft.channels[i]
                   IN  [index |-> i - 1, name |-> c.name, channel_type |-> c.channel_type,
                        data_type |-> c.data_type, size_of_length_value |-> c.size_of_length_value,
                        time_increment_ns |-> c.time_increment_ns, spectrum_type |-> c.spectrum_type]]

\* Every attempt to open a stream ends, opened or refused.
HeadEnds == <>(phase \in {"open", "failed"})

---------------------------------------------------------------------------
(* What the code says and does not do. *)

\* "callers can hand over a compressed stream (e.g. from a network socket) just as
\* well as an uncompressed one" (load_from_reader, manager.rs): what is compressed is
\* read through a decompressor.
CompressedIsDetected == phase # "peek" /\ result # "Io" => format = stream.wrapper

\* "The level applies per file and is declared exactly once ... crc32c first, ed25519
\* second" (osf5_integrity.md, sections 1 and 2): no token of a file that is opened
\* repeats another, so that none can replace a CRC or lower the level.
LevelIsDeclaredOnce ==
    phase = "open" =>
        \A i, j \in 2..Len(stream.fields) : stream.fields[i].key = stream.fields[j].key => i = j
=============================================================================
