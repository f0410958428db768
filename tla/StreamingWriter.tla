--------------------------- MODULE StreamingWriter ---------------------------
(***************************************************************************)
(* The C++ osf::StreamingWriter (implementations/cpp/src/                  *)
(* streamingwriter.cpp) over its DurableFile: a writer for embedded        *)
(* devices that encodes one block, writes it, fsyncs it, and only then     *)
(* encodes the next.  A public write call that does not fit one block is a *)
(* loop over several; the power may fail between any two system calls.     *)
(*                                                                         *)
(* A value is the number of the sample in the order the application        *)
(* handed it over, so values identify samples.  A block keeps the fields   *)
(* that are on the wire and the value of its length field.  `file' is what *)
(* write() has passed to the operating system, `synced' how much of it the *)
(* last fsync() covers.  `acked' is a history variable.                    *)
(***************************************************************************)
EXTENDS Integers, Sequences

CONSTANTS
    Defs,          \* the channel definitions addChannel() may be given
    TrailerIndex,  \* 0xFFFF in the code: the first index a channel cannot have
    MaxPayload,    \* maxPayloadForSov: payload budget by sizeOfLengthValue
    LengthMax,     \* the largest value of a length field of 2 and of 4 bytes
    Profiles,      \* the integrity profiles the application may ask for
    Stamps,        \* timestamps the application may use
    Periods,       \* 1 / sampleRateHz; 0 stands for a rate that is not positive
    Sizes,         \* sizes of the strings and binaries the application may write
    MaxCall,       \* bound: samples in one write call
    MaxValues      \* bound: samples handed over in a behaviour

FixedSize == [bool |-> 1, int8 |-> 1, uint8 |-> 1, int16 |-> 2, uint16 |-> 2,
              int32 |-> 4, uint32 |-> 4, int64 |-> 8, uint64 |-> 8,
              float |-> 4, double |-> 8, gps |-> 24]
VariableTypes    == {"string", "binary"}
EquidistantTypes == {"float", "double"}
DataTypes        == DOMAIN FixedSize \cup VariableTypes \cup {"unsupported"}
ChannelTypes     == {"scalar", "vector", "matrix", "binary", "unsupported"}

Widths == {2, 4}

ASSUME DefsAssumption ==
    Defs \subseteq [dataType : DataTypes, channelType : ChannelTypes, sizeOfLengthValue : Nat]
ASSUME IndexAssumption == TrailerIndex \in Nat
ASSUME PayloadAssumption ==
    /\ MaxPayload \in [Widths -> Nat]
    /\ LengthMax \in [Widths -> Nat]
    /\ \A w \in Widths : 41 <= MaxPayload[w] /\ MaxPayload[w] <= LengthMax[w]
ASSUME CallAssumption ==
    /\ Profiles \subseteq {"none", "crc32c", "ed25519"}
    /\ Stamps \subseteq Int
    /\ Periods \subseteq Nat
    /\ Sizes \subseteq Nat
    /\ MaxCall \in Nat
    /\ MaxValues \in Nat

VARIABLES
    state,      \* m_state; "Crashed" once the power has failed
    integrity,  \* m_integrity
    frameCrc,   \* m_frameCrc
    channels,   \* m_channels with m_channelStates
    call,       \* the public call in progress
    header,     \* magic line and metablock on disk
    file,       \* the blocks written so far
    torn,       \* the file ends with part of a block
    synced,     \* how many blocks of the file the last fsync covers
    offered,    \* how many samples the application has handed over
    acked       \* the samples whose call returned success

config == <<integrity, frameCrc>>
disk   == <<header, file, torn, synced>>
vars   == <<state, config, channels, call, disk, offered, acked>>

---------------------------------------------------------------------------
(* Chunking arithmetic (writercommon.cpp). *)

Min2(a, b) == IF a < b THEN a ELSE b
AtLeastOne(n) == IF n = 0 THEN 1 ELSE n

CrcSize == IF frameCrc THEN 4 ELSE 0

payloadBudget_NoReserve(w) == MaxPayload[w]      \* mutant: no room for the CRC

payloadBudget(w) == IF MaxPayload[w] > CrcSize THEN MaxPayload[w] - CrcSize ELSE 0

\* Bytes of a multi-sample payload before the samples, and bytes per sample.
Overhead(kind) == IF kind = "StartData" THEN 21 ELSE 5
PerSample(kind, dt) ==
    IF kind = "AbsTimeStampData" THEN 8 + FixedSize[dt] ELSE FixedSize[dt]

maxSamplesPerBlock(kind, dt, w) ==
    IF payloadBudget(w) <= Overhead(kind) THEN 1
    ELSE AtLeastOne((payloadBudget(w) - Overhead(kind)) \div PerSample(kind, dt))

variableSampleCapacity(w) ==
    IF payloadBudget(w) <= 9 THEN 0 ELSE payloadBudget(w) - 9

\* Payload bytes of an encoded block: the u32 sample count is there only when
\* the block holds several samples.
PayloadLength(kind, dt, n, size) ==
    IF dt \in VariableTypes THEN 9 + size
    ELSE Overhead(kind) - (IF n = 1 THEN 4 ELSE 0) + n * PerSample(kind, dt)

\* applyFrameCrc adds 4 to the length field in the field's own width.
LengthField(w, payload) == (payload + CrcSize) % (LengthMax[w] + 1)

---------------------------------------------------------------------------
NoCall    == [op |-> "none"]
StartCall == [op |-> "start"]

Init ==
    /\ state = "Configure"
    /\ integrity = "none"
    /\ frameCrc = FALSE
    /\ channels = <<>>
    /\ call = NoCall
    /\ header = "none"
    /\ file = <<>>
    /\ torn = FALSE
    /\ synced = 0
    /\ offered = 0
    /\ acked = {}

Idle == call = NoCall /\ state # "Crashed"

setIntegrity(p) ==
    /\ Idle
    /\ integrity' = p
    /\ UNCHANGED <<state, frameCrc, channels, call, disk, offered, acked>>

\* mutant: the width of the length field is not validated
addChannel_AnyWidth(def) ==
    /\ Idle
    /\ state = "Configure"
    /\ def.dataType # "unsupported"
    /\ def.channelType # "unsupported"
    /\ Len(channels) < TrailerIndex
    /\ channels' = Append(channels, [dataType          |-> def.dataType,
                                     sizeOfLengthValue |-> def.sizeOfLengthValue,
                                     kindLock          |-> "Unset",
                                     segmentOpen       |-> FALSE])
    /\ UNCHANGED <<state, config, call, disk, offered, acked>>

addChannel(def) ==
    /\ Idle
    /\ state = "Configure"
    /\ def.sizeOfLengthValue \in Widths
    /\ def.dataType # "unsupported"
    /\ def.channelType # "unsupported"
    /\ Len(channels) < TrailerIndex
    /\ channels' = Append(channels, [dataType          |-> def.dataType,
                                     sizeOfLengthValue |-> def.sizeOfLengthValue,
                                     kindLock          |-> "Unset",
                                     segmentOpen       |-> FALSE])
    /\ UNCHANGED <<state, config, call, disk, offered, acked>>

---------------------------------------------------------------------------
(* start(): create the file, write magic line and metablock, fsync; any    *)
(* failure after create() closes and unlinks the file and leaves the       *)
(* writer in Configure, so that start() may be called again.               *)

Start ==
    /\ Idle
    /\ state = "Configure"
    /\ channels # <<>>
    /\ integrity # "ed25519"
    /\ frameCrc' = (integrity = "crc32c")
    /\ \/ header' = "partial" /\ call' = StartCall
       \/ UNCHANGED <<header, call>>        \* DurableFile::create fails
    /\ UNCHANGED <<state, integrity, channels, file, torn, synced, offered, acked>>

StartWrites ==
    /\ call.op = "start"
    /\ header = "partial"
    /\ header' = "complete"
    /\ UNCHANGED <<state, config, channels, call, file, torn, synced,
                   offered, acked>>

StartForces ==
    /\ call.op = "start"
    /\ header = "complete"
    /\ header' = "durable"
    /\ state' = "Streaming"
    /\ call' = NoCall
    /\ UNCHANGED <<config, channels, file, torn, synced, offered, acked>>

\* A write or the fsync failed; the error of remove() is ignored.
StartFails ==
    /\ call.op = "start"
    /\ header' \in {"none", header}
    /\ call' = NoCall
    /\ UNCHANGED <<state, config, channels, file, torn, synced, offered, acked>>

\* close() ends in Closed whatever closing the file returns.
close ==
    /\ Idle
    /\ state' = "Closed"
    /\ UNCHANGED <<config, channels, call, disk, offered, acked>>

---------------------------------------------------------------------------
(* The write calls.  A call that fails its checks returns an error and      *)
(* changes nothing, unless an action below says otherwise.                 *)

\* mutant: the kind lock is not looked at
requireChannel_NoLock(ch, mode, dt) ==
    /\ state = "Streaming"
    /\ ch < Len(channels)
    /\ channels[ch + 1].dataType = dt

\* requireEquidistantChannel, requireTimestampedChannel, requireVariableChannel.
requireChannel(ch, mode, dt) ==
    /\ state = "Streaming"
    /\ ch < Len(channels)
    /\ channels[ch + 1].kindLock \in {"Unset", mode}
    /\ channels[ch + 1].dataType = dt

Lock(ch, mode) == channels' = [channels EXCEPT ![ch + 1].kindLock = mode]

\* The call has passed its checks: all its samples are left to write.
Accepted(ch, kind, start, period, times, n, size) ==
    /\ offered + n <= MaxValues
    /\ call' = [op |-> "write", index |-> ch, kind |-> kind, start |-> start,
                period |-> period, times |-> times,
                values |-> [i \in 1..n |-> offered + i],
                first |-> offered + 1, size |-> size, phase |-> "write"]
    /\ offered' = offered + n
    /\ UNCHANGED <<state, config, disk, acked>>

\* The check that follows the lock failed: the channel stays locked.
LockedOnly == UNCHANGED <<state, config, call, disk, offered, acked>>

startEquidistantSegment(ch, dt, start, period, n) ==
    /\ Idle
    /\ n > 0
    /\ period > 0
    /\ requireChannel(ch, "Equidistant", dt)
    /\ Lock(ch, "Equidistant")
    /\ Accepted(ch, "StartData", start, period, <<>>, n, 0)

appendEquidistantSamples(ch, dt, n) ==
    /\ Idle
    /\ n > 0
    /\ requireChannel(ch, "Equidistant", dt)
    /\ Lock(ch, "Equidistant")
    /\ IF channels[ch + 1].segmentOpen
       THEN Accepted(ch, "ContinuedData", 0, 0, <<>>, n, 0)
       ELSE LockedOnly

writeTimestampedSamples(ch, dt, times) ==
    /\ Idle
    /\ times # <<>>
    /\ requireChannel(ch, "Timestamped", dt)
    /\ Lock(ch, "Timestamped")
    /\ Accepted(ch, "AbsTimeStampData", 0, 0, times, Len(times), 0)

writeTimestampedVariable(ch, dt, time, size) ==
    /\ Idle
    /\ requireChannel(ch, "Variable", dt)
    /\ Lock(ch, "Variable")
    /\ IF size <= variableSampleCapacity(channels[ch + 1].sizeOfLengthValue)
       THEN Accepted(ch, "AbsTimeStampData", 0, 0, <<time>>, 1, size)
       ELSE LockedOnly

---------------------------------------------------------------------------
(* The loop of an accepted call: encode a chunk, write it, fsync it. *)

Chunk ==
    LET c == channels[call.index + 1]
    IN  Min2(Len(call.values),
             IF c.dataType \in VariableTypes THEN 1
             ELSE maxSamplesPerBlock(call.kind, c.dataType, c.sizeOfLengthValue))

Block(n) ==
    LET c == channels[call.index + 1]
    IN  [index  |-> call.index,
         kind   |-> call.kind,
         start  |-> IF call.kind = "StartData" THEN call.start ELSE 0,
         period |-> IF call.kind = "StartData" THEN call.period ELSE 0,
         times  |-> SubSeq(call.times, 1, Min2(n, Len(call.times))),
         values |-> SubSeq(call.values, 1, n),
         size   |-> call.size,
         length |-> LengthField(c.sizeOfLengthValue,
                        PayloadLength(call.kind, c.dataType, n, call.size))]

DropFirst_Skips(s, n) == SubSeq(s, n + 2, Len(s))   \* mutant: off by one

DropFirst(s, n) == SubSeq(s, n + 1, Len(s))

WriteBlock ==
    /\ call.op = "write"
    /\ call.phase = "write"
    /\ file' = Append(file, Block(Chunk))
    /\ call' = [call EXCEPT !.phase  = "force",
                            !.values = DropFirst(call.values, Chunk),
                            !.times  = DropFirst(call.times, Min2(Chunk, Len(call.times)))]
    /\ UNCHANGED <<state, config, channels, header, torn, synced,
                   offered, acked>>

\* mutant: the block is acknowledged without an fsync
ForceBlock_NoFsync ==
    /\ call.op = "write"
    /\ call.phase = "force"
    /\ channels' = IF call.kind = "StartData"
                   THEN [channels EXCEPT ![call.index + 1].segmentOpen = TRUE]
                   ELSE channels
    /\ IF call.values = <<>>
       THEN /\ acked' = acked \cup call.first..offered
            /\ call' = NoCall
       ELSE /\ call' = [call EXCEPT
                  !.phase = "write",
                  !.kind  = IF @ = "StartData" THEN "ContinuedData" ELSE @]
            /\ UNCHANGED acked
    /\ UNCHANGED <<state, config, disk, offered>>

\* mutant: the call returns success after its first block
ForceBlock_AcksEarly ==
    /\ call.op = "write"
    /\ call.phase = "force"
    /\ synced' = Len(file)
    /\ channels' = IF call.kind = "StartData"
                   THEN [channels EXCEPT ![call.index + 1].segmentOpen = TRUE]
                   ELSE channels
    /\ acked' = acked \cup call.first..offered
    /\ call' = NoCall
    /\ UNCHANGED <<state, config, header, file, torn, offered>>

\* fsync returned; a segment is open once its first block is durable, and
\* what follows the first block continues it.
ForceBlock ==
    /\ call.op = "write"
    /\ call.phase = "force"
    /\ synced' = Len(file)
    /\ channels' = IF call.kind = "StartData"
                   THEN [channels EXCEPT ![call.index + 1].segmentOpen = TRUE]
                   ELSE channels
    /\ IF call.values = <<>>
       THEN /\ acked' = acked \cup call.first..offered
            /\ call' = NoCall
       ELSE /\ call' = [call EXCEPT
                  !.phase = "write",
                  !.kind  = IF @ = "StartData" THEN "ContinuedData" ELSE @]
            /\ UNCHANGED acked
    /\ UNCHANGED <<state, config, header, file, torn, offered>>

\* mutant: the error is reported but the writer does not become Broken
DoWriteBlockFails_GoesOn ==
    /\ call.op = "write"
    /\ torn' \in (IF call.phase = "write" THEN BOOLEAN ELSE {torn})
    /\ call' = NoCall
    /\ UNCHANGED <<state, config, channels, header, file, synced, offered, acked>>

\* mutant: the write is tried again on every error, not only on EINTR
DoWriteBlockFails_Retries ==
    /\ call.op = "write"
    /\ torn' \in (IF call.phase = "write" THEN BOOLEAN ELSE {torn})
    /\ UNCHANGED <<state, config, channels, call, header, file, synced, offered, acked>>

\* write() fails, perhaps after part of the block, or fsync() fails.
DoWriteBlockFails ==
    /\ call.op = "write"
    /\ torn' \in (IF call.phase = "write" THEN BOOLEAN ELSE {torn})
    /\ state' = "Broken"
    /\ call' = NoCall
    /\ UNCHANGED <<config, channels, header, file, synced, offered, acked>>

---------------------------------------------------------------------------
(* The power fails: what fsync has covered stays; of the rest a prefix,    *)
(* perhaps ending inside a block.                                          *)

PowerLoss ==
    /\ state # "Crashed"
    /\ state' = "Crashed"
    /\ header' \in (CASE header = "complete" -> {"none", "partial", "complete"}
                      [] header = "partial"  -> {"none", "partial"}
                      [] OTHER               -> {header})
    /\ \E k \in synced..Len(file) :
          /\ file' = SubSeq(file, 1, k)
          /\ torn' \in (IF k < Len(file) \/ (call.op = "write" /\ call.phase = "write")
                       THEN BOOLEAN ELSE {torn, FALSE})
    /\ call' = NoCall
    /\ UNCHANGED <<config, channels, synced, offered, acked>>

---------------------------------------------------------------------------
Indices == 0..Len(channels)

\* The steps of a call in progress, as opposed to calls and power loss.
Continue == StartWrites \/ StartForces \/ StartFails
            \/ WriteBlock \/ ForceBlock \/ DoWriteBlockFails

Next ==
    \/ \E p \in Profiles : setIntegrity(p)
    \/ \E def \in Defs : addChannel(def)
    \/ Start
    \/ close
    \/ \E ch \in Indices, dt \in EquidistantTypes, start \in Stamps,
          period \in Periods, n \in 0..MaxCall :
          startEquidistantSegment(ch, dt, start, period, n)
    \/ \E ch \in Indices, dt \in EquidistantTypes, n \in 0..MaxCall :
          appendEquidistantSamples(ch, dt, n)
    \/ \E ch \in Indices, dt \in DOMAIN FixedSize, n \in 0..MaxCall :
          \E times \in [1..n -> Stamps] : writeTimestampedSamples(ch, dt, times)
    \/ \E ch \in Indices, dt \in VariableTypes, time \in Stamps, size \in Sizes :
          writeTimestampedVariable(ch, dt, time, size)
    \/ StartWrites
    \/ StartForces
    \/ StartFails
    \/ WriteBlock
    \/ ForceBlock
    \/ DoWriteBlockFails
    \/ PowerLoss

Spec == Init /\ [][Next]_vars

\* System calls return, so a call in progress goes on.
FairSpec == Spec /\ WF_vars(Continue)
---------------------------------------------------------------------------
(* What makes the writer correct. *)

Kinds == {"StartData", "ContinuedData", "AbsTimeStampData"}

BlockType == [index : Nat, kind : Kinds, start : Int, period : Nat,
              times : Seq(Int), values : Seq(Nat), size : Nat, length : Nat]

WriteCall == [op : {"write"}, index : Nat, kind : Kinds, start : Int, period : Nat,
              times : Seq(Int), values : Seq(Nat), first : Nat \ {0}, size : Nat,
              phase : {"write", "force"}]

ChannelType == [dataType : DataTypes \ {"unsupported"},
                sizeOfLengthValue : Widths,
                kindLock : {"Unset", "Equidistant", "Timestamped", "Variable"},
                segmentOpen : BOOLEAN]

\* The types of the writer's state.
TypeOK ==
    /\ state \in {"Configure", "Streaming", "Broken", "Closed", "Crashed"}
    /\ integrity \in Profiles \cup {"none"}
    /\ frameCrc \in BOOLEAN
    /\ channels \in Seq(ChannelType)
    /\ call \in {NoCall, StartCall} \cup WriteCall
    /\ call.op = "write" => call.index < Len(channels)
    /\ header \in {"none", "partial", "complete", "durable"}
    /\ file \in Seq(BlockType)
    /\ torn \in BOOLEAN
    /\ synced \in 0..Len(file)
    /\ offered \in 0..MaxValues
    /\ acked \in SUBSET (1..MaxValues)

\* Sample v is in one of the first n blocks.
InFile(v, n) ==
    \E i \in 1..n : \E k \in DOMAIN file[i].values : file[i].values[k] = v

\* "A file that remains readable up to the last successfully fsync'd block even
\* after a sudden power loss" (streamingwriter.h): every sample of a call that
\* returned success is in a block that fsync covers, at all times and after
\* the power has failed.
AckedIsDurable == \A v \in acked : InFile(v, synced)

\* The chunking loops hand over every sample exactly once and in order: the
\* values in the file are 1, 2, 3, ... without a gap or a repetition, whatever
\* the capacities and wherever a call failed.
EverySampleOnce ==
    \A i \in DOMAIN file :
        /\ file[i].values # <<>>
        /\ \A k \in DOMAIN file[i].values :
              file[i].values[k] = k + (IF i = 1 THEN 0
                  ELSE file[i - 1].values[Len(file[i - 1].values)])

Mode(b, c) == IF b.kind # "AbsTimeStampData" THEN "Equidistant"
              ELSE IF c.dataType \in VariableTypes THEN "Variable" ELSE "Timestamped"

\* A loader never meets mixed block types or a continuation without a start in
\* a file of this writer (what requireEquidistantChannel and its siblings are
\* for): the blocks of a channel agree with its lock, and a bcContinuedData
\* block has a bcStartData block of its channel before it.
Assemblable ==
    \A i \in DOMAIN file :
        /\ file[i].index < Len(channels)
        /\ LET c == channels[file[i].index + 1] IN c.kindLock = Mode(file[i], c)
        /\ file[i].kind = "ContinuedData" =>
              \E j \in 1..(i - 1) :
                  file[j].index = file[i].index /\ file[j].kind = "StartData"

\* The length field tells the true number of bytes behind it, frame CRC
\* included: applyFrameCrc adds 4 in the field's own width, so a payload the
\* chunking arithmetic let grow too far would wrap around.
LengthIsHonest ==
    \A i \in DOMAIN file :
        LET c == channels[file[i].index + 1]
        IN  file[i].length = CrcSize
              + PayloadLength(file[i].kind, c.dataType, Len(file[i].values), file[i].size)

\* doWriteBlock makes the writer Broken on the first error: nothing is written
\* behind a partly written block, where it would never be found.
NothingBehindTorn == [][torn => Len(file') <= Len(file)]_vars

\* A call returns: the chunking loops make progress with every block.
CallsReturn == call # NoCall ~> call = NoCall
=============================================================================
