----------------------------- MODULE BlockReader -----------------------------
(***************************************************************************)
(* The Rust osf_core::reader::BlockReader: an iterator over the blocks of a *)
(* data section.  next() reads a channel index, a length field whose width *)
(* the metablock gives, and the data area; it verifies the frame CRC,      *)
(* classifies the control byte and parses the body.  The stream may end    *)
(* anywhere, and any read may fail.                                        *)
(*                                                                         *)
(* `data' holds the frames as they were written and `present' how many of  *)
(* their bytes the stream delivers.  A frame tells what its bytes hold: the *)
(* length field, the control byte, whether the stored CRC is right and     *)
(* whether the body parses for the channel's datatype.  `pos' counts the   *)
(* bytes taken from the stream and `frame' the frames passed.              *)
(***************************************************************************)
EXTENDS Integers, Sequences, FiniteSets, SequencesExt

CONSTANTS
    ChannelInfo,     \* [declared channel index -> [data_type, size_of_length_value]]
    TrailerIndex,    \* TRAILER_CHANNEL_INDEX, 0xFFFF
    SignatureIndex,  \* SIGNATURE_CHANNEL_INDEX, 0xFFFE
    MagicTrailerLen, \* MAGIC_TRAILER_LEN, 40
    IoErrors,        \* whether reads may fail
    Frames,          \* the frames a data section is made of
    Profiles,        \* the integrity levels a file may declare
    MaxFrames        \* bound: frames in a data section

SkipReasons == {"UnsupportedDataType", "DeprecatedBlockType", "StatusEventBlock",
                "ReservedBlockType", "CrcFailed", "SignatureBlock", "ZeroLengthBlock"}
DataKinds     == {"StartData", "ContinuedData", "ContinuedRelStampData", "AbsTimeStampData"}
ReservedKinds == {"Reserved", "TimebaseRealign", "Unknown"}
ControlKinds  == DataKinds \cup ReservedKinds
                 \cup {"TrustedTimestamp", "StatusEvent", "MessageEvent"}

ASSUME ChannelAssumption ==
    /\ \A ch \in DOMAIN ChannelInfo :
          /\ ch \in Nat
          /\ ChannelInfo[ch].data_type \in {"numeric", "gps", "string", "binary", "unsupported"}
          /\ ChannelInfo[ch].size_of_length_value \in {2, 4}
    /\ TrailerIndex \in Nat \ DOMAIN ChannelInfo
    /\ SignatureIndex \in Nat \ {TrailerIndex}
    /\ SignatureIndex \in DOMAIN ChannelInfo =>
          ChannelInfo[SignatureIndex].size_of_length_value = 4
    /\ MagicTrailerLen \in Nat
    /\ IoErrors \in BOOLEAN
ASSUME FrameAssumption ==
    /\ Frames \subseteq [index : Nat, length : Nat, control : ControlKinds,
                         multi : BOOLEAN, crc : BOOLEAN, sound : BOOLEAN]
    /\ Profiles \subseteq {"none", "crc32c", "ed25519"}
    /\ MaxFrames \in Nat

VARIABLES
    data,       \* the frames of the data section, as written
    present,    \* bytes of the data section the stream delivers
    integrity,  \* integrity level of the magic header
    pos,        \* bytes taken from the stream
    frame,      \* frames passed
    finished,   \* self.finished
    adrift,     \* a failed read left the cursor inside a frame
    stats,      \* self.stats
    yielded     \* what next() has returned, in order

file   == <<data, present, integrity>>
cursor == <<pos, frame>>
vars   == <<file, cursor, finished, adrift, stats, yielded>>

---------------------------------------------------------------------------
(* The stream. *)

Width(f) == IF f.index \in DOMAIN ChannelInfo
            THEN ChannelInfo[f.index].size_of_length_value ELSE 4

FrameSize(f) == 2 + Width(f) + f.length
                + IF f.index = TrailerIndex THEN MagicTrailerLen ELSE 0

SizeOf(frames) == FoldLeft(LAMBDA n, g : n + FrameSize(g), 0, frames)

\* Where frame number i begins.
Offset(i) == SizeOf(SubSeq(data, 1, i - 1))

Has(n) == pos + n <= present

f == data[frame + 1]

NoStats == [data_section_size |-> 0, blocks_truncated |-> 0, trailer_seen |-> FALSE,
            blocks_read |-> 0, skipped |-> [r \in SkipReasons |-> 0],
            per_channel |-> [ch \in DOMAIN ChannelInfo \cup {SignatureIndex} |->
                [blocks_read |-> 0, blocks_skipped |-> 0, bytes_payload |-> 0]]]

Started == pos = 0 /\ frame = 0 /\ finished = FALSE /\ adrift = FALSE
           /\ stats = NoStats /\ yielded = <<>>

---------------------------------------------------------------------------
(* Ways for a call of next() to end. *)

Item(result) == [frame |-> frame + 1, result |-> result]

Yield(result) == yielded' = Append(yielded, Item(result))

\* The whole frame has been taken from the stream.
Pass(n) == pos' = pos + n /\ frame' = frame + 1

\* The stream ended inside the frame: count it once, stop, return None.
Truncated(counted) ==
    /\ stats' = [stats EXCEPT !.data_section_size = @ + counted, !.blocks_truncated = 1]
    /\ pos' = present
    /\ finished' = TRUE
    /\ UNCHANGED <<file, frame, adrift, yielded>>

\* A read failed: stop and return the error.
Failed(counted) ==
    /\ IoErrors
    /\ stats' = [stats EXCEPT !.data_section_size = @ + counted]
    /\ finished' = TRUE
    /\ Yield("Io")
    /\ UNCHANGED <<file, cursor, adrift>>

\* mutant: the data area is not counted for the channel
record_skip_NoBytes(s, ch, length, reason) ==
    [s EXCEPT !.skipped[reason] = @ + 1,
              !.per_channel[ch].blocks_skipped = @ + 1]

record_skip(s, ch, length, reason) ==
    [s EXCEPT !.skipped[reason] = @ + 1,
              !.per_channel[ch].blocks_skipped = @ + 1,
              !.per_channel[ch].bytes_payload = @ + length]

\* mutant: the payload bytes of a skipped block are not counted
Skip_Uncounted(reason, size) ==
    /\ stats' = record_skip([stats EXCEPT !.data_section_size = @ + size - f.length],
                            f.index, f.length, reason)
    /\ Pass(size)
    /\ Yield(reason)
    /\ UNCHANGED <<file, finished, adrift>>

\* mutant: a skipped block ends the iteration
Skip_Stops(reason, size) ==
    /\ stats' = record_skip([stats EXCEPT !.data_section_size = @ + size],
                            f.index, f.length, reason)
    /\ Pass(size)
    /\ Yield(reason)
    /\ finished' = TRUE
    /\ UNCHANGED <<file, adrift>>

\* The frame is skipped for a reason, and the next call goes on behind it.
Skip(reason, size) ==
    /\ stats' = record_skip([stats EXCEPT !.data_section_size = @ + size],
                            f.index, f.length, reason)
    /\ Pass(size)
    /\ Yield(reason)
    /\ UNCHANGED <<file, finished, adrift>>

---------------------------------------------------------------------------
(* next(), one action per outcome. *)

Calls == ~finished /\ ~adrift

\* mutant: the end of the stream is not remembered
EndOfStream_Forgets ==
    /\ Calls
    /\ ~Has(2)
    /\ UNCHANGED vars

\* Step 1: also a stream that ends inside the channel index is a clean end.
EndOfStream ==
    /\ Calls
    /\ ~Has(2)
    /\ pos' = present
    /\ finished' = TRUE
    /\ UNCHANGED <<file, frame, adrift, stats, yielded>>

IndexFails ==
    /\ Calls
    /\ Failed(0)

\* A frame whose channel index is there.
At == Calls /\ Has(2) /\ frame < Len(data)

\* Step 2, consume_trailer(): u32 length, payload, and the magic trailer if it
\* can be read; the length field is counted before it is read.
Trailer ==
    /\ At
    /\ f.index = TrailerIndex
    /\ \/ \E tail \in {Has(FrameSize(f))} \cup (IF IoErrors THEN {FALSE} ELSE {}) :
             /\ finished' = TRUE
             /\ stats' = [stats EXCEPT
                   !.trailer_seen = TRUE,
                   !.blocks_truncated = IF Has(6 + f.length) THEN @ ELSE 1,
                   !.data_section_size = @ + 6
                       + (IF Has(6 + f.length) THEN f.length ELSE 0)
                       + (IF tail THEN MagicTrailerLen ELSE 0)]
             /\ pos' = IF tail THEN pos + FrameSize(f) ELSE present
             /\ frame' = IF Has(6 + f.length) THEN frame + 1 ELSE frame
             /\ UNCHANGED <<file, adrift, yielded>>
       \/ Failed(6)

\* Step 2b: the file-wide signature channel, u32 length, no CRC.
IsSignature == integrity # "none" /\ f.index = SignatureIndex

SignatureBlock ==
    /\ At
    /\ IsSignature
    /\ \/ Has(FrameSize(f)) /\ Skip("SignatureBlock", FrameSize(f))
       \/ ~Has(FrameSize(f)) /\ Truncated(IF Has(6) THEN 6 ELSE 2)
       \/ \E counted \in {2, 6} : Failed(counted)

\* Step 3: not even the width of the length field is known.
UnknownChannel ==
    /\ At
    /\ f.index # TrailerIndex
    /\ ~IsSignature
    /\ f.index \notin DOMAIN ChannelInfo
    /\ stats' = [stats EXCEPT !.data_section_size = @ + 2]
    /\ finished' = TRUE
    /\ Yield("UnknownChannelIndex")
    /\ pos' = pos + 2
    /\ UNCHANGED <<file, frame, adrift>>

Declared == At /\ ~IsSignature /\ f.index \in DOMAIN ChannelInfo

Fields == 2 + Width(f)

\* Step 4.
LengthField ==
    /\ Declared
    /\ \/ ~Has(Fields) /\ Truncated(2)
       \/ Failed(2)

ZeroLengthBlock ==
    /\ Declared
    /\ Has(Fields)
    /\ f.length = 0
    /\ Skip("ZeroLengthBlock", Fields)

Unsupported == ChannelInfo[f.index].data_type = "unsupported"

\* Step 5, skip_block(): the data area of a channel of unsupported datatype is
\* passed without a look at it.  A stream that ends inside it is an error, and
\* an error of the stream does not end the iteration.
UnsupportedBlock ==
    /\ Declared
    /\ Has(Fields)
    /\ f.length > 0
    /\ Unsupported
    /\ \/ Has(FrameSize(f)) /\ Skip("UnsupportedDataType", FrameSize(f))
       \/ /\ ~Has(FrameSize(f))
          /\ stats' = [stats EXCEPT !.data_section_size = @ + Fields, !.blocks_truncated = 1]
          /\ pos' = present
          /\ finished' = TRUE
          /\ Yield("UnexpectedEof")
          /\ UNCHANGED <<file, frame, adrift>>
       \/ /\ IoErrors
          /\ stats' = [stats EXCEPT !.data_section_size = @ + Fields]
          /\ adrift' = TRUE
          /\ Yield("Io")
          /\ UNCHANGED <<file, cursor, finished>>

\* Step 6.
Payload ==
    /\ Declared
    /\ Has(Fields)
    /\ f.length > 0
    /\ ~Unsupported
    /\ \/ ~Has(FrameSize(f)) /\ Truncated(Fields)
       \/ Failed(Fields)

Read ==
    /\ Declared
    /\ Has(FrameSize(f))
    /\ f.length > 0
    /\ ~Unsupported

\* mutant: only the stored CRC is looked at, not the room for it
CrcWrong_ShortPasses == integrity # "none" /\ ~f.crc /\ f.length >= 5

\* Step 6b: a data area without room for a control byte and the CRC, or a CRC
\* that does not match.
CrcWrong == integrity # "none" /\ (f.length < 5 \/ ~f.crc)

\* mutant: the CRC is taken from the stream once more
CrcFailed_TakesCrcAgain ==
    /\ Read
    /\ CrcWrong
    /\ Skip("CrcFailed", FrameSize(f) + 4)

CrcFailed ==
    /\ Read
    /\ CrcWrong
    /\ Skip("CrcFailed", FrameSize(f))

\* Step 7: what the control byte says of the block, "Decode" if it is parsed.
Decision ==
    CASE f.control \in ReservedKinds      -> "ReservedBlockType"
      [] f.control = "TrustedTimestamp"   -> "DeprecatedBlockType"
      [] f.control = "StatusEvent"        -> "StatusEventBlock"
      [] f.control = "MessageEvent" /\ (f.multi \/
           ChannelInfo[f.index].data_type \notin {"string", "binary"})
                                          -> "ReservedBlockType"
      [] OTHER                            -> "Decode"

SkippedByControl ==
    /\ Read
    /\ ~CrcWrong
    /\ Decision # "Decode"
    /\ Skip(Decision, FrameSize(f))

\* The typed parsers accept the body.
Parses ==
    /\ f.sound
    /\ f.control \in DataKinds \ {"AbsTimeStampData"} =>
          ChannelInfo[f.index].data_type = "numeric"

DecodedBlock ==
    /\ Read
    /\ ~CrcWrong
    /\ Decision = "Decode"
    /\ Parses
    /\ stats' = [stats EXCEPT
          !.data_section_size = @ + FrameSize(f),
          !.blocks_read = @ + 1,
          !.per_channel[f.index].blocks_read = @ + 1,
          !.per_channel[f.index].bytes_payload = @ + f.length]
    /\ Pass(FrameSize(f))
    /\ Yield("data")
    /\ UNCHANGED <<file, finished, adrift>>

\* A parse error is returned; it is not counted and does not end the iteration.
ParseError ==
    /\ Read
    /\ ~CrcWrong
    /\ Decision = "Decode"
    /\ ~Parses
    /\ stats' = [stats EXCEPT !.data_section_size = @ + FrameSize(f)]
    /\ Pass(FrameSize(f))
    /\ Yield("InvalidBlock")
    /\ UNCHANGED <<file, finished, adrift>>

next ==
    \/ EndOfStream
    \/ IndexFails
    \/ Trailer
    \/ SignatureBlock
    \/ UnknownChannel
    \/ LengthField
    \/ ZeroLengthBlock
    \/ UnsupportedBlock
    \/ Payload
    \/ CrcFailed
    \/ SkippedByControl
    \/ DecodedBlock
    \/ ParseError

Init ==
    /\ data \in UNION {[1..n -> Frames] : n \in 0..MaxFrames}
    /\ present \in 0..SizeOf(data)
    /\ integrity \in Profiles
    /\ Started

Spec == Init /\ [][next]_vars

\* The consumer's for loop calls next() until it returns None; that a read fails
\* is never owed.
ReadFails == yielded' # yielded /\ Last(yielded').result = "Io"

FairSpec == Spec /\ WF_vars(next /\ ~ReadFails)
---------------------------------------------------------------------------
(* What makes the reader correct. *)

Results == SkipReasons \cup {"data", "Io", "UnexpectedEof", "UnknownChannelIndex",
                             "InvalidBlock"}
Errors  == {"Io", "UnexpectedEof", "UnknownChannelIndex"}

\* The types of the reader's state.
TypeOK ==
    /\ present \in 0..SizeOf(data) /\ pos \in 0..present
    /\ frame \in 0..Len(data)
    /\ finished \in BOOLEAN /\ adrift \in BOOLEAN
    /\ stats.blocks_truncated \in {0, 1} /\ stats.trailer_seen \in BOOLEAN
    /\ yielded \in Seq([frame : Nat, result : Results])

Ended(results) == \E k \in DOMAIN yielded : yielded[k].result \in results

\* Whatever the frames hold, the cursor stands at the beginning of a frame when
\* next() returns, and every byte behind it has been counted: no skip path takes
\* more or less than its frame.
InStep ==
    ~finished /\ ~adrift =>
        /\ pos = Offset(frame + 1)
        /\ stats.data_section_size = pos

\* The blocks of each channel in `stats' are the blocks that next() returned for
\* it, with the bytes of their data areas; the totals by reason agree.
Accounting ==
    LET Blocks(ch) == {k \in DOMAIN yielded :
                          /\ yielded[k].result \in SkipReasons \cup {"data"}
                          /\ data[yielded[k].frame].index = ch}
        Total(S, n(_)) == FoldSet(LAMBDA k, t : t + n(k), 0, S)
    IN  /\ \A ch \in DOMAIN stats.per_channel :
              LET c == stats.per_channel[ch]
              IN  /\ c.blocks_read + c.blocks_skipped = Cardinality(Blocks(ch))
                  /\ c.bytes_payload
                       = Total(Blocks(ch), LAMBDA k : data[yielded[k].frame].length)
        /\ \A r \in SkipReasons : stats.skipped[r]
              = Cardinality({k \in DOMAIN yielded : yielded[k].result = r})
        /\ stats.blocks_read
              = Cardinality({k \in DOMAIN yielded : yielded[k].result = "data"})

\* A frame that a reader of this crate can turn into samples: a supported
\* channel, a known block type for its datatype, a body that parses, and, if
\* the file has CRCs, one that matches.
Usable(g) ==
    /\ g.index \in DOMAIN ChannelInfo
    /\ g.length > 0
    /\ g.sound
    /\ LET dt == ChannelInfo[g.index].data_type
       IN  \/ g.control = "AbsTimeStampData" /\ dt # "unsupported"
           \/ g.control \in DataKinds /\ dt = "numeric"
           \/ g.control = "MessageEvent" /\ ~g.multi /\ dt \in {"string", "binary"}
    /\ integrity # "none" => g.crc /\ g.length >= 5 /\ g.index # SignatureIndex

\* Fail-closed, and nothing more: every frame passed is answered for once and in
\* order, with samples exactly if it is usable, whatever became of those before it.
ExactlyUsable ==
    /\ \A k \in DOMAIN yielded : yielded[k].frame = k
    /\ \A k \in 1..frame : data[k].index # TrailerIndex =>
          /\ k \in DOMAIN yielded
          /\ yielded[k].result = "data" <=> Usable(data[k])

\* "Best-effort on truncation ... yields all blocks up to the last complete one"
\* (module doc): the iteration ends without an error only behind the last whole
\* frame of the stream or its trailer, and counts a truncated block exactly if
\* more than part of a channel index follows.
BestEffort ==
    finished /\ ~Ended(Errors) /\ ~stats.trailer_seen =>
        LET rest == present - Offset(frame + 1)
        IN  /\ frame < Len(data) => rest < FrameSize(data[frame + 1])
            /\ stats.blocks_truncated = IF rest > 1 THEN 1 ELSE 0

\* The for loop over the reader ends.
Finishes == <>(finished \/ adrift)

---------------------------------------------------------------------------
(* What the documentation says and the code does not do. *)

\* "A file that ends mid-block yields all blocks up to the last complete one and
\* then None": a truncated stream ends the iteration without an error.
TruncationIsNoError == ~Ended({"UnexpectedEof"})

\* "crc_valid -- level crc, every block CRC verified" (verification_status).
verification_status ==
    CASE integrity = "none"    -> "none"
      [] integrity = "ed25519" -> "signature_unverifiable"
      [] OTHER -> IF stats.skipped["CrcFailed"] > 0 THEN "invalid" ELSE "crc_valid"

CrcValidIsVerified ==
    finished /\ verification_status = "crc_valid" =>
        \A k \in DOMAIN yielded :
            yielded[k].result \notin Errors => data[yielded[k].frame].crc
=============================================================================
